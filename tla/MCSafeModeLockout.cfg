SPECIFICATION FairSpec
CONSTANTS
  c1 = c1
  c2 = c2
  c3 = c3
  NoChange = NoChange
  Change <- RaceChange
  Offered <- LockoutOffered
  Cutting <- OneChange
  Window = 2
  BackupKeep = 3
  MaxStart = 2
  LastSecond = 6
  MaxRestarts = 0
  MayFail = FALSE
  SharedSecond = FALSE
PROPERTIES
  LockoutEnds
  TrialFairSpec
CHECK_DEADLOCK FALSE
