SPECIFICATION BrokerFairSpec
CONSTANTS
  c1 = c1
  c2 = c2
  c3 = c3
  m1 = m1
  m2 = m2
  k1 = k1
  k2 = k2
  None = None
  Calls = {c1, c2, c3}
  Classes = {k1, k2}
  Models = {m1, m2}
  ClassOf <- MCClassOf
  Candidates <- MCCandidates
  MaxParallel <- MCMaxParallel
  MaxAttempts = 2
  Capacity <- MCCapacity
  RefillTicks = 2
  RetryAfter = 3
  Penalty = 2
  MaxBackoff = 1
  Answers = {"ok", "retry_after", "too_many", "server_error", "refused"}
INVARIANTS
  SlotsAreExact
PROPERTIES
  ImplementsBudget
  CallsReturn
CHECK_DEADLOCK FALSE
