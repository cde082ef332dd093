CONSTANTS
  A = a
  B = b
  AutoApprove = {a}
  MaxGen = 2
  Retries = 1
  MaxFaults = 1
  MaxGov = 2
  MaxApp = 0
  Operators = {b}
  EarlyApprove = TRUE
SPECIFICATION AdmissionSpec
ACTION_CONSTRAINT Kept
CHECK_DEADLOCK FALSE
INVARIANT TypeOK  ActiveIsBilateral AuthenticationIsFresh
