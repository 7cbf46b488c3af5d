SPECIFICATION NoticesSpec
CONSTANTS
  None = None
  Scenario <- MCReboots
  Top = 3
  MaxChanges = 0
  MaxFails = 0
  MaxCrashes = 1
  Burst = 1
PROPERTY RebootIsTold
CHECK_DEADLOCK FALSE
