SPECIFICATION GatewaySpec
CONSTANTS
  Commands = {1, 2}
  Traces = {1, 2}
  Tokens = {t1}
  None = None
  w1 = w1
  o1 = o1
  t1 = t1
  Workers = {w1}
  Operators = {o1}
  MaxClass <- MCUnlimited
  Classes = {0, 1, 2}
  Offered = {"cancel", "resume", "retry", "requeue", "approval_approve"}
  MaxCrashes = 1
  MaxStalls = 0
  Projects <- MCProjects
  Requests <- MCRequests
  MaxSubmissions = 1
  Shown = 1
  Limits = {1, 2}
INVARIANTS
  CompletedWasVerified
  RetryKeepsTerms
  EffectsAreIntended
  
PROPERTIES
  RetryResolves
CHECK_DEADLOCK FALSE
