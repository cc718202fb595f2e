CONSTANTS
  Num = 1
  Den = 2
  MinVolume = 2
  MaxCount = 2
  MaxAlerts = 1
  MaxFlips = 0
  MaxFaults = 0
SPECIFICATION Spec
CHECK_DEADLOCK FALSE
PROPERTY OwnFailuresDoNotAlert
