SPECIFICATION FairSpec
CONSTANTS
  t1 = t1
  t2 = t2
  Threads <- OneThread
  MaxMessages = 1
  MaxSessions = 0
  MaxLosses = 1
  UserOps <- Turns
PROPERTY GenerationEnds
CHECK_DEADLOCK FALSE
