SPECIFICATION FairSpec
CONSTANTS
  r1 = r1
  r2 = r2
  Lives <- TwoLives
  Readers <- TwoReaders
  Calls = {"prepare", "load"}
  Codecs = {"lines", "zstd"}
  Incidents = {"write", "commit", "publish"}
  MaxEvents = 1
  MaxReads = 2
  MaxIncidents = 1
INVARIANTS LoadsAreDurable
PROPERTY EverythingSettles
CHECK_DEADLOCK FALSE
