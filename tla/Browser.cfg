CONSTANTS
  Scans = {s1, s2}
  MaxEvents = 1
  MaxOpens = 3
SPECIFICATION FairSpec
INVARIANTS
  TypeOK
  LogOwn
  ReportMatches
PROPERTIES
  RunningEnds
CHECK_DEADLOCK FALSE
