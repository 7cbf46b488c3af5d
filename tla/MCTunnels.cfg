SPECIFICATION Spec
CONSTANTS
  r1 = r1  r2 = r2  r3 = r3
  c1 = c1  c2 = c2  p1 = p1  p2 = p2  s1 = s1  s2 = s2
  Request = {r1, r2, r3}
  Client = {c1, c2}
  Peer = {p1, p2}
  Site = {s1, s2}
  Scenario <- MCScenarios
  NameOf <- MCNameOf
  TunnelNet <- MCNet
  Asked = {1, 2, 3}
  n1 = n1  n2 = n2  n3 = n3  n4 = n4
  SiteNet = {n1, n2, n3, n4}
  Local = {n1}
  None = None
  Old = Old
  Begun = Begun
  Mixed = Mixed
  NoAddress = NoAddress
  Width = 32
  Longest = 29
  Shortest = 8
  MayFail = TRUE
  MaxCrashes = 1
INVARIANTS KeysMatch DeletedIsRevoked SitesApart SuggestionIsFree
PROPERTY QuietApplyIsExact
SYMMETRY Same
CHECK_DEADLOCK FALSE
