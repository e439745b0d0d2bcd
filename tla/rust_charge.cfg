SPECIFICATION LiveSpec
CONSTANTS
  None = None
  p1 = p1
  p2 = p2
  p3 = p3
  r0 = r0
  r1 = r1
  Workers = {w1, w2}
  Payments = {p2, p3}
  Tx <- MCTx
  Texts = {"plain"}
  Credentials <- MCCredentials
  Routes <- MCRoutes
  Expected <- MCExpected
  Realm = "api"
  Currency = "USDC"
  Recipient = "shop"
  FeePayer = TRUE
  FeePayerSigner = TRUE
  Localnet = FALSE
  RpcMayLag = TRUE
  MaxTime = 1
  SimulationMaxAttempts = 2
  PollAttempts = 2
INVARIANTS
  TypeOK
  GrantsArePaid
  ConsumedIsHonoured
PROPERTIES
  ImplementsRedemption
  RequestsAnswered
CHECK_DEADLOCK FALSE
