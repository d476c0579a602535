SPECIFICATION FairSpec
CONSTANTS
  b1 = b1
  b2 = b2
  r1 = r1
  r2 = r2
  NoOne = NoOne
  Builders = {b1, b2}
  Reviewers = {r1, r2}
  Paths = {"old", "log"}
  Tracked = {"old"}
  TouchList = {"old"}
  Leavings = {"log"}
  AllowUnscoped = FALSE
  MaxApplyRetries = 1
  MaxReadFiles = 1
  MaxVerifyRetries = 1
  VerifierPhases = {"passed", "typecheck_failed", "tests_failed"}
  SelfVerifies = TRUE
  Rubric <- MCRubric
  QualityFloor = 70
  MinRubricCoverage = 50
  MinReviewCoverage = 66
  RequireTests = TRUE
  MaxRuns = 2
  MaxCrashes = 1
  Cleanup = TRUE
  PackRequired = TRUE
  Noticed = {"bug"}
INVARIANTS
  ArtifactsAreReal
  RepositoryIsClean
PROPERTIES
  RunsEnd
CHECK_DEADLOCK FALSE
