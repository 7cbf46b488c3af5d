SPECIFICATION Spec
CONSTANTS
  c1 = c1
  c2 = c2
  c3 = c3
  NoChange = NoChange
  Change <- RaceChange
  Offered <- RaceOffered
  Cutting <- Nobody
  Window = 1
  BackupKeep = 1
  MaxStart = 2
  LastSecond = 3
  MaxRestarts = 1
  MayFail = TRUE
  SharedSecond = TRUE
INVARIANTS
  PlanIsRestorable
  
  Converges
PROPERTIES
  TrialSpec
CHECK_DEADLOCK FALSE
