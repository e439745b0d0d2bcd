SPECIFICATION LiveSessionSpec
CONSTANTS
  None = None
  Workers = {w1}
  Signers = {k1}
  ClientKey = k1
  ChannelId = "channel"
  OtherChannel = "other"
  Openings <- MCOpenings
  Increments = {1}
  Expiries = {1, 2}
  MaxCumulative = 3
  Vouchers <- MCVouchers
  Deposits = {1, 3}
  DeliveryAmounts = {1, 2}
  DeliveryExpiries = {1}
  DeliveryIds = {}
  Modes = {"push", "pull"}
  RpcConfigured = TRUE
  MaxCap = 3
  MinVoucherDelta = 0
  U64 = 16
  MaxTime = 1
  MaxOpens = 2
  MaxSequence = 2
  MaxRequests = 3
INVARIANTS
  NotAheadOfServer
  NeverOverauthorized
  RetryReplays
  ServedIsPaidOrReserved
PROPERTIES
  DeliveriesSettle
CHECK_DEADLOCK FALSE
