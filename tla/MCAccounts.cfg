SPECIFICATION Spec
CONSTANTS
  None = None
  NotYet = NotYet
  Gone = Gone
  admin = admin
  ana = ana
  r1 = r1
  r2 = r2
  User <- MCUsers
  Admin = admin
  Request <- MCRequests
  Scenario <- MCScenarios
  LoginMaxFails = 2
  ChallengeTries = 2
  RecoveryCount = 2
  MaxPass = 2
  MaxTime = 2
  MaxFaults = 1
INVARIANTS AdministratorRemains OldAccessEnds RecoveryOnce CodeOnce
SYMMETRY Alike
CHECK_DEADLOCK FALSE
