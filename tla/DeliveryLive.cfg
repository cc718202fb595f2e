\* One email through two retries and two re-addressings.
CONSTANTS
  Emails = {e1}
  Procs = {p1}
  Addrs = {a, b}
  NoAddr = NoAddr
  RcptDomain <- OwnDomain
  Schedule <- TwoRetries
  StaleWindow = 3
  OverallTimeout = 2
  SendCap = 1
  StoreLag = 1
  BatchSize = 1
  PerDomainLimit = 1
  MaxAge = 3
  MaxRequeues = 2
  MaxStops = 1
  MaxFaults = 1
SPECIFICATION FairSpec
PROPERTIES EveryEmailSettles FirstAddressKept
