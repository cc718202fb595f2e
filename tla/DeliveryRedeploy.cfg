\* SIGTERM comes while an email is at its last attempt.
CONSTANTS
  Emails = {e1}
  Procs = {p1}
  Addrs = {a}
  NoAddr = NoAddr
  RcptDomain <- OneDomain
  Schedule <- OneRetry
  StaleWindow = 3
  OverallTimeout = 1
  SendCap = 0
  StoreLag = 0
  BatchSize = 1
  PerDomainLimit = 1
  MaxAge = 3
  MaxRequeues = 0
  MaxStops = 1
  MaxFaults = 0
SPECIFICATION Spec
PROPERTIES RedeployLosesNothing
