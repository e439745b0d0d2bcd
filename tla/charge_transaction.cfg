SPECIFICATION Spec
CONSTANTS
  None = None
  client = client
  sponsor = sponsor
  shop = shop
  tax = tax
  stray = stray
  Signer = client
  Wallets <- MCWallets
  Mints <- MCMints
  TokenPrograms <- MCTokenPrograms
  LegacyProgram = "token"
  Token2022Mints = {"pyusd"}
  MintOwner <- MCMintOwner
  SymbolMint <- MCSymbolMint
  DefaultNetwork = "main"
  LongMemos = {"long"}
  U64 = 16
  Offers <- MCOffers
  Ledgers <- MCLedgers
  Foreign <- MCForeign
  MaxEdits = 2
INVARIANTS
  ServerTakesClientTransaction
  AcceptedPaysWhatIsOwed
  PushTakesWhatPullTakes
  PreferenceHonoured
CHECK_DEADLOCK FALSE
