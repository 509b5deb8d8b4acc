SPECIFICATION FairSpec
CONSTANTS
  t1 = t1
  t2 = t2
  t3 = t3
  c1 = c1
  old = old
  new = new
  search = search
  structured = structured
  Turns <- TwoTurns
  Cancels = {c1}
  Models = {old, new}
  FirstModel = old
  Tools = {search}
  Required = {search}
  Faults = {"model", "handshake", "prompt", "crash", "stuck"}
  MaxFaults = 1
  MaxChanges = 1
  MaxRounds = 2
INVARIANTS HarnessIsExclusive FailedClientsAreEvicted AnswersAreEvidenced
PROPERTIES RequestsEnd
CHECK_DEADLOCK FALSE
