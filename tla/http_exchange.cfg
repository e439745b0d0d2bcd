SPECIFICATION LiveSpec
CONSTANTS
  None = None
  Unparsable = Unparsable
  r1 = r1
  r2 = r2
  Routes = {r1, r2}
  Gates <- MCGates
  Paths <- MCPaths
  Decimals = 1
  Validity = 1
  U64 = 100
  U128 = 1000
  MaxTime = 1
  MaxFaults = 2
INVARIANTS
  HeadersCarryChallenges
  ServedAtPrice
  RefusedIsNotCharged
PROPERTIES
  ClientServed
CHECK_DEADLOCK FALSE
