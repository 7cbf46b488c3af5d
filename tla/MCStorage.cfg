SPECIFICATION Spec
CONSTANTS
  a1 = a1
  a2 = a2
  r1 = r1
  r2 = r2
  Device = Device
  None = None
  Torn = Torn
  Mixed = Mixed
  Archive <- TwoArchives
  RootArchive <- OneArchive
  Request <- TwoRequests
  MaxWrites = 1
SYMMETRY TwoAlike
INVARIANTS
  PartStaysMounted
  RestoreIsWhole
 
CONSTRAINT Followed
