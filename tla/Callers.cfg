CONSTANTS
  MaxMsgs = 3
  Cap = 2
  MaxLinks = 3
  MaxFaults = 1
  AckLoss = TRUE
  MaxRestarts = 1
  Modes = {TRUE}
  OffDriver = FALSE
  GateLag = FALSE
  Expiry = TRUE
  Asker = {1, 2, 3}
  Calls <- CallSets
  MaxHappens = 2
SPECIFICATION FairCallersSpec
CHECK_DEADLOCK FALSE
INVARIANT TypeOK OkMeansDelivered InOrderOnce NoCallForgotten GovernedShapeHolds
PROPERTY KeepsContract CallersServed
