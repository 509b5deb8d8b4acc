SPECIFICATION FairSpec
CONSTANTS
  none = none
  NoRun <- none
  Runs <- DocumentsAndCuration
  Versions <- AB
  Entities <- Found
  Kind <- KindOf
  VersionOf <- VersionOfRun
  Targets <- TargetsOf
  Forced <- ForcedRuns
  Mentions <- SharedEntity
  MayFail <- Documents
  MayDie <- First
INVARIANTS KnowledgeKeepsItsGraph OnePublishedKnowledge  VectorsWhole
PROPERTIES ImplementsCatalogue RunsEnd
CHECK_DEADLOCK FALSE
