SPECIFICATION Spec
CONSTANTS
  r1 = r1  r2 = r2  r3 = r3
  h1 = h1  h2 = h2  w1 = w1
  Request = {r1, r2, r3}
  Kind <- MCKind
  Scenario <- MCScenarios
  None = None
  MayFail = TRUE
  MaxCrashes = 1
  Domain <- MCDomain
  Address <- MCAddress
  Record <- MCRecord
  Preset <- MCPreset
  Anycast <- MCAnycast
  ByHand <- MCByHand
  Host = {h1, h2}
  Example = Example
  MaxIssued = 2
  Wish = {w1}
INVARIANTS ChoiceStays ByHandStays VlanCanGo
PROPERTIES NamesInForce PortHasOneOwner SitesAreServed ServesCurrent  CopiedFirst
CHECK_DEADLOCK FALSE
