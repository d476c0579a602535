SPECIFICATION GhostFairSpec
CONSTANTS
  Shifts = {s1, s2}
  MaxGraphs = 2
  MaxSeconds = 2
  MaxCrashes = 1
INVARIANTS
  StartedOnce
  FilesTellTheTruth
PROPERTIES
  QueueDrains
CHECK_DEADLOCK FALSE
