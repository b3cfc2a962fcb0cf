CONSTANTS
  Scans = {s1, s2, s3}
  Pages = {p1}
  Limit = 2
  MaxRestarts = 1
SPECIFICATION PageSpec
SYMMETRY Symmetry
INVARIANTS
  TypeOK
  DoneIsDurable
  ListedOnce
  DoneStaysListed
  PageTypeOK
  DoneReportServed
