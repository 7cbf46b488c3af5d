SPECIFICATION Spec
CONSTANTS
  r1 = r1
  r2 = r2
  r3 = r3
  c1 = c1
  c2 = c2
  m1 = m1
  m2 = m2
  a1 = a1
  a2 = a2
  web = web
  pub = pub
  out = out
  lan = lan
  guests = guests
  net = net
  None = None
  Old <- OldRules
  Create <- TwoCreates
  Move <- TwoMoves
  Apply <- TwoApplies
  Forward <- OneForward
  Nat11 <- OnePair
  Source <- OneSource
  Forced <- OneZone
  OldObjects <- AllButWeb
  OldForcing = FALSE
  Alias <- OneAlias
  Address <- OneAddress
  Via <- ViaOf
  OldPos <- PosOf
  OldAge <- AgeOf
  OldFiles <- OldFile
  Scenarios <- OneAnother
  MaxEdits = 1
  Fails <- FailPoint
SYMMETRY EqualApplies
INVARIANTS
  NarrowStaysNarrow
PROPERTIES
  OrderKept
  QuietApplyIsExact
CHECK_DEADLOCK FALSE
