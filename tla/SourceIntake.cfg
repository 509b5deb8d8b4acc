SPECIFICATION FairSpec
CONSTANTS
  c1 = c1
  c2 = c2
  c3 = c3
  d1 = d1
  d2 = d2
  s1 = s1
  s2 = s2
  p1 = p1
  p2 = p2
  None = None
  Contents <- ThreeContents
  Served <- TwoContents
  Documents <- TwoDocuments
  SyncJobs <- TwoSyncs
  ParseJobs <- TwoParses
  Workers = 2
  MaxIncidents = 1
INVARIANTS BusyIsBacked NumbersWithoutGap
PROPERTY ContentSettles
CHECK_DEADLOCK FALSE
