SPECIFICATION Spec
CONSTANTS
  none = none
  NoRun <- none
  Runs <- Mixed
  Versions <- AB
  Entities <- Found
  Kind <- KindOf
  VersionOf <- VersionOfRun
  Targets <- TargetsOf
  Forced <- ForcedRuns
  Mentions <- SharedEntity
  MayFail <- Nobody
  MayDie <- First
INVARIANTS ReleaseNumbersUnique CompletionFollowsProjection
CHECK_DEADLOCK FALSE
VIEW Remembered
