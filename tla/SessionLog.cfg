SPECIFICATION Spec
CONSTANTS
  r1 = r1
  r2 = r2
  Lives <- TwoLives
  Readers <- OneReader
  Calls = {"prepare", "load", "inspect"}
  Codecs = {"lines", "zstd"}
  Incidents = {"crash", "reload", "evict", "write", "create", "suffix", "commit"}
  MaxEvents = 2
  MaxReads = 1
  MaxIncidents = 1
INVARIANTS AckedSurvives QueueContinuesLog
PROPERTIES ImplementsDurableLog FlushIsDurable RepairsOnlyCold ResumeContinues
CHECK_DEADLOCK FALSE
