CONSTANTS
  MaxScans = 3
  MaxProgress = 2
SPECIFICATION FairSpec
INVARIANTS
  TypeOK
  LatestShown
PROPERTIES
  SavedIsShown
  WindowRecovers
