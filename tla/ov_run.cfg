SPECIFICATION OvernightSpec
CONSTANTS
  Commands = {1, 2, 3}
  Traces = {1, 2, 3}
  Tokens = {}
  None = None
  w1 = w1
  o1 = o1
  o2 = o2
  launchd = launchd
  Workers = {w1}
  Operators = {o1, o2}
  Launchd = launchd
  MaxClass <- MCUnlimited
  Classes = {1, 2}
  Offered = {"preflight"}
  MaxCrashes = 1
  MaxStalls = 1
  Projects = {1, 2}
  Manifest <- MCManifest
  Sights <- MCSights
  Hours = {1}
  HandGraphs <- MCHandGraphs
  Budgets <- MCBudgets
  MaxEvents = 12
  MaxShown = 1
SYMMETRY MCSymmetry
INVARIANTS
  PreflightKeepsWork
  PlanIsKept
  NightIsAccounted
  BriefIsHonest
CHECK_DEADLOCK FALSE
