\* A cooldown of two steps of time; the alert at one failure in two attempts.
CONSTANTS
  Emails = {e1, e2}
  SysMail = sysmail
  Cooldown = 2
  MaxFails = 2
  Num = 1
  Den = 2
  MinVolume = 2
  MaxCount = 1
  MaxAlerts = 2
  MaxMonth = 5
  MaxFlips = 2
  MaxFaults = 1
SPECIFICATION Spec
INVARIANTS NamedOnce NoLoop EachMonthOnce
PROPERTIES CooldownHolds PendingGetsOut OncePerIncident ElevatedIsReported
