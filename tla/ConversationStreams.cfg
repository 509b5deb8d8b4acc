SPECIFICATION StreamSpec
CONSTANTS
  t1 = t1
  t2 = t2
  Threads <- TwoThreads
  MaxMessages = 1
  MaxSessions = 1
  MaxLosses = 1
  UserOps <- Everything
INVARIANTS StatusJustified SettledKeepsNoCredential
PROPERTIES StreamKeepsSettled ClearedStaysCleared StreamedTurnSettles ConversationFreed
CHECK_DEADLOCK FALSE
