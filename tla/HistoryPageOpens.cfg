CONSTANTS
  Scans = {s1, s2}
  Pages = {p1}
  Limit = 2
  MaxRestarts = 1
SPECIFICATION PageSpec
INVARIANTS
  HistoryOpens
