SPECIFICATION MCSpec
CONSTANTS
  None = None
  Payer = Payer
  Payee = Payee
  Operator = Operator
  SessionKey = SessionKey
  Stranger = Stranger
  Mint = Mint
  OtherMint = OtherMint
  TokenProgram = TokenProgram
  OtherTokenProgram = OtherTokenProgram
  DefaultProgram = DefaultProgram
  Configs <- MCConfigs
  Caps = {1, 3}
  OpenOptions <- MCOpenOptions
  Amounts = {1, 2}
  DefaultGrace = 1
  MaxTime = 2
  MaxDeposit = 2
  MaxOpens = 2
  NoCap = NoCap
  s1 = s1
  s2 = s2
  s3 = s3
  Setups <- MCSetups
  CapOf <- MCCapOf
  NonceOf <- MCNonceOf
  HasInit = {s1, s2}
  HasUpdate = {s1, s2, s3}
INVARIANTS
  RecordMatchesChannel
  AcceptedVoucherSettles
  FinalizedPaysAccepted
  OpenedIsCovered
CHECK_DEADLOCK FALSE
