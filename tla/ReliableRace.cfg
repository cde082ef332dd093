CONSTANTS
  MaxMsgs = 2
  Cap = 2
  MaxLinks = 2
  MaxFaults = 0
  AckLoss = FALSE
  MaxRestarts = 0
  Modes = {TRUE}
  OffDriver = TRUE
  GateLag = FALSE
  Expiry = FALSE
SPECIFICATION Spec
CHECK_DEADLOCK FALSE
INVARIANT OkMeansDelivered
