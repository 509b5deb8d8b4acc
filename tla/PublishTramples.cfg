SPECIFICATION Spec
CONSTANTS
  none = none
  NoRun <- none
  Runs <- Documents
  Versions <- AB
  Entities <- Found
  Kind <- KindOf
  VersionOf <- VersionOfRun
  Targets <- TargetsOf
  Forced <- ForcedRuns
  Mentions <- SharedEntity
  MayFail <- Documents
  MayDie <- Nobody
PROPERTIES FailureSparesOthers
CHECK_DEADLOCK FALSE
