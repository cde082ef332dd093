CONSTANTS
  MaxMsgs = 2
  Cap = 1
  MaxLinks = 1
  MaxFaults = 1
  AckLoss = TRUE
  MaxRestarts = 1
  Modes = {TRUE, FALSE}
  OffDriver = TRUE
  GateLag = TRUE
  Expiry = TRUE
SPECIFICATION FairSpec
CHECK_DEADLOCK FALSE
PROPERTY EveryCallResolves
