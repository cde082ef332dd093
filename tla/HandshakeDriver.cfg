CONSTANTS
  A = a
  B = b
  AutoApprove = {a, b}
  MaxGen = 1
  Retries = 0
  MaxFaults = 1
  MaxGov = 2
  MaxApp = 1
  Operators = {}
  EarlyApprove = FALSE
SPECIFICATION FairSpec
CHECK_DEADLOCK FALSE
 
PROPERTY LinkResolves
