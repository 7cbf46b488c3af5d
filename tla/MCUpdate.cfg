SPECIFICATION Spec
CONSTANTS
  u1 = u1
  d1 = d1
  d2 = d2
  old = old
  new = new
  empty = empty
  index = index
  script = script
  None = None
  Torn = Torn
  NoApply = NoApply
  Upload <- OneUpload
  Apply <- TwoApplies
  Release <- Releases
  Bad <- NoProgram
  Offered <- OfferedReleases
  Hashed <- HashedReleases
  First = old
  Page <- Pages
  Brings <- BringsPages
  MaxRestarts = 2
  Fails <- FailPoint
INVARIANTS
  ProgramIsWhole
  UpdateIsWhole
PROPERTIES
  UpdateTakesEffect
CHECK_DEADLOCK FALSE
