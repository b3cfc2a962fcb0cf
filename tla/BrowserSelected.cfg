CONSTANTS
  Scans = {s1, s2}
  MaxEvents = 1
  MaxOpens = 2
SPECIFICATION Spec
INVARIANTS
  SelectedShown
CHECK_DEADLOCK FALSE
