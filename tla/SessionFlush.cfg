SPECIFICATION Spec
CONSTANTS
  r1 = r1
  r2 = r2
  Lives <- TwoLives
  Readers <- OneReader
  Calls = {"prepare", "load"}
  Codecs = {"lines"}
  Incidents = {}
  MaxEvents = 2
  MaxReads = 1
  MaxIncidents = 0
PROPERTY FlushRetries
CHECK_DEADLOCK FALSE
