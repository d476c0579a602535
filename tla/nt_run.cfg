\* The night: refinery, watchers and scheduler.
CONSTANTS
  node = node
  command = command
  p1 = p1
  p2 = p2
  r1 = r1
  d1 = d1
  NoCause = NoCause
  Never = Never
  Causes <- MCCauses
  Kind <- MCKind
  Payload <- MCPayload
  Procs <- MCProcs
  Reports <- MCReports
  Pods <- MCPods
  Cron <- MCCron
  Nights <- MCNights
  Interval <- MCInterval
  HoursPerDay = 1
  Threshold = 2
  MinFrequency = 1
  MaxExamples = 2
  HarvestLimit = 3
  MaxItems = 3
  IdleHours = 1
  SessionLimit = 3
  Horizon = 2
SPECIFICATION Spec
SYMMETRY Symmetry
CHECK_DEADLOCK FALSE
INVARIANTS
  RefineryRecordsAreTrue
  NewStaleIsTold
  CronIsArmed
