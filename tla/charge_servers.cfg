SPECIFICATION LiveSpec
CONSTANTS
  None = None
  p1 = p1
  p2 = p2
  r0 = r0
  r1 = r1
  Workers = {w1, w2}
  Payments = {p1, p2}
  Tx <- MCTx
  Texts = {"plain", "spaced"}
  Credentials <- MCCredentials
  OneForm <- MCOneForm
  Routes <- MCRoutes
  Expected <- MCExpected
  RoutePrices <- MCRoutePrices
  Realm = "api"
  Currency = "USDC"
  Recipient = "shop"
  FeePayer = FALSE
  FeePayerSigner = FALSE
  Localnet = FALSE
  RpcMayLag = TRUE
  MaxTime = 1
  PollAttempts = 2
INVARIANTS
  GrantsArePaid
  ConsumedIsHonoured
PROPERTIES
  ImplementsRedemption
  DecidedIsAnswered
CHECK_DEADLOCK FALSE
