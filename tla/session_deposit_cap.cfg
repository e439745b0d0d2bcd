SPECIFICATION Spec
CONSTANTS
  None = None
  Workers = {w1, w2}
  ChannelId = "channel"
  OtherChannel = "other"
  Signers = {k1}
  VoucherCumulatives = {1, 2, 3}
  VoucherExpiries = {2}
  Vouchers <- MCVouchers
  Deposits = {2, 3}
  DeliveryAmounts = {1, 2}
  DeliveryExpiries = {2}
  DeliveryIds = {2}
  Modes = {"push", "pull"}
  RpcConfigured = TRUE
  MaxCap = 3
  MinVoucherDelta = 0
  U64 = 16
  MaxTime = 1
  MaxOpens = 1
  MaxSequence = 2
SYMMETRY WorkerSymmetry
INVARIANTS
  DepositCap
CHECK_DEADLOCK FALSE
