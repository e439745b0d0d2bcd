SPECIFICATION Spec
CONSTANTS
  None = None
  Workers = {w1, w2}
  ChannelId = "channel"
  OtherChannel = "other"
  Signers = {k1, k2}
  VoucherCumulatives = {1, 2}
  VoucherExpiries = {1, 2}
  Vouchers <- MCVouchers
  Deposits = {1, 2}
  DeliveryAmounts = {1, 2}
  DeliveryExpiries = {1}
  DeliveryIds = {2}
  Modes = {"push", "pull"}
  RpcConfigured = TRUE
  MaxCap = 2
  MinVoucherDelta = 0
  U64 = 16
  MaxTime = 1
  MaxOpens = 2
  MaxSequence = 2
SYMMETRY WorkerSymmetry
INVARIANTS
  TypeOK
  SettlementRedeemable
  AcknowledgedIsSettled
  DeliveriesPaidOnce
  ReceiptsMatchRecord
  VouchersStayInDeposit
  ExposureBounded
CHECK_DEADLOCK FALSE
PROPERTIES
  WatermarkMonotone
  ClosedIsFrozen
