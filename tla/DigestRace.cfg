CONSTANTS
  Emails = {e1, e2}
  SysMail = sysmail
  Cooldown = 2
  MaxFails = 1
  Num = 1
  Den = 2
  MinVolume = 2
  MaxCount = 1
  MaxAlerts = 1
  MaxMonth = 2
  MaxFlips = 0
  MaxFaults = 0
SPECIFICATION Spec
INVARIANTS NoFailureForgotten
