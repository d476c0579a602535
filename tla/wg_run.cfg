SPECIFICATION RunFairSpec
CONSTANTS
  Nodes = {1, 2, 3, 4}
  Approvals = {2}
  Class <- MCClass
  DefaultClass = 1
  Verified = {4}
  Attempts <- MCAttempts
  AutoApprove = FALSE
  MaxConcurrent = 2
INVARIANTS
  CycleIsReported
  LeastOrder
  WorkIsOrdered
  CompletedIsHonest
PROPERTIES
  GraphEnds
CHECK_DEADLOCK FALSE
