SPECIFICATION Spec
CONSTANTS
  c1 = c1
  c2 = c2
  c3 = c3
  NoChange = NoChange
  Change <- OneChange
  Offered <- OneOffered
  Cutting <- Nobody
  Window = 2
  BackupKeep = 20
  MaxStart = 2
  LastSecond = 5
  MaxRestarts = 1
  MayFail = FALSE
  SharedSecond = FALSE
INVARIANTS
  TrialIsUndone
CHECK_DEADLOCK FALSE
