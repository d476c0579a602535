SPECIFICATION FairSpec
CONSTANTS
  Commands = {1, 2}
  Traces = {1, 2}
  Tokens = {t1}
  None = None
  w1 = w1
  w2 = w2
  o1 = o1
  o2 = o2
  t1 = t1
  t2 = t2
  Workers = {w1, w2}
  Operators = {o1}
  MaxClass <- MCMaxClass
  Classes = {1, 2}
  Offered = {"resume", "retry", "approval_approve", "policy_approve", "policy_consume"}
  MaxCrashes = 1
  MaxStalls = 0
INVARIANTS
  OnlyAuthorizedWork
PROPERTIES
  ImplementsGate
  QueuedWorkEnds
CHECK_DEADLOCK FALSE
