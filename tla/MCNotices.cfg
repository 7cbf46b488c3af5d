SPECIFICATION NoticesSpec
CONSTANTS
  None = None
  Scenario <- MCScenarios
  Top = 2
  MaxChanges = 3
  MaxFails = 1
  MaxCrashes = 1
  Burst = 1
INVARIANTS OncePerPeriod TrafficIsCounted
PROPERTIES ReporterFairSpec
CHECK_DEADLOCK FALSE
