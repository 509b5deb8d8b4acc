SPECIFICATION Spec
CONSTANTS
  MaxCalls = 4
  MaxParallel = 2
INVARIANTS ResultsInModelOrder NothingRunsOn BarriersRunAlone StartedIsCommitted
PROPERTIES AbortStartsNothing BatchEnds
CHECK_DEADLOCK FALSE
