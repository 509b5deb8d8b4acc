SPECIFICATION FairSpec
CONSTANTS
  m1 = m1
  m2 = m2
  Messages <- Two
  Context = Context
  MaxSteps = 1
  MaxRetries = 1
  MaxNested = 2
  MaxCalls = 1
  MaxParallel = 1
INVARIANTS TypeOK LateWakesOpenATurn WorkAccountedFor
PROPERTIES TeardownEnds WakesAreAnswered
CHECK_DEADLOCK FALSE
