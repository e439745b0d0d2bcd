SPECIFICATION Spec
CONSTANTS
  None = None
  p1 = p1
  p2 = p2
  p3 = p3
  r0 = r0
  r1 = r1
  Workers = {w1, w2}
  Payments = {p1, p2}
  Tx <- MCTx
  Texts = {"plain"}
  Credentials <- MCCredentials
  Routes <- MCRoutes
  Expected <- MCExpected
  Realm = "api"
  Currency = "USDC"
  Recipient = "shop"
  FeePayer = FALSE
  FeePayerSigner = FALSE
  Localnet = FALSE
  RpcMayLag = FALSE
  MaxTime = 1
  PollAttempts = 2
SYMMETRY WorkerSymmetry
INVARIANTS
  HonouredOnce
CHECK_DEADLOCK FALSE
