CONSTANTS
  a = a
  b = b
  x = x
  Device = {a, b, x}
  Node = {a, b}
  Genesis <- CoOwned
  InitialRoster = {a, b}
  Agenda <- TwoAuthorities
  Reviewers = {}
  Manual = {}
  Steps = {0}
  MaxProposals = 2
  MaxLinks = 2
  MaxExtras = 1
  Requester = {"c1", "c2"}
  NetworkId = {"n1", "n2"}
  Codes = {1}
  SKEW_STEPS = 1
  MaxCalls = 3
  MaxSteps = 2
  MaxFaults = 1
SPECIFICATION MCSpec
CHECK_DEADLOCK FALSE
INVARIANT TypeOK LogsAreGenuine 
PROPERTY HistoryKept LockHolds
