CONSTANTS
  A = a
  B = b
  AutoApprove = {a, b}
  MaxGen = 1
  Retries = 1
  MaxFaults = 0
  MaxGov = 0
  MaxApp = 0
  Operators = {}
  EarlyApprove = FALSE
SPECIFICATION Spec
CHECK_DEADLOCK FALSE
PROPERTY ActiveUntilDropped
