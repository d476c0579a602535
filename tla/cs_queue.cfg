SPECIFICATION Spec
CONSTANTS
  Commands = {1, 2}
  Traces = {1, 2}
  Tokens = {t1}
  None = None
  w1 = w1
  w2 = w2
  o1 = o1
  o2 = o2
  t1 = t1
  t2 = t2
  Workers = {w1, w2}
  Operators = {o1}
  MaxClass <- MCUnlimited
  Classes = {1, 2}
  Offered = {"cancel", "retry", "requeue", "resume", "approval_approve"}
  MaxCrashes = 1
  MaxStalls = 1
INVARIANTS
  LeasesAreWorked
  ReplacedSourceIsEnded
  RecordsAgree
PROPERTIES
  EndedStaysEnded
SYMMETRY MCSymmetry
CHECK_DEADLOCK FALSE
