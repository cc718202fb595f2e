\* Two processes, and two emails that queue for a single slot.
CONSTANTS
  Emails = {e1, e2}
  Procs = {p1, p2}
  Addrs = {a}
  NoAddr = NoAddr
  RcptDomain <- OneDomain
  Schedule <- NoRetry
  StaleWindow = 4
  OverallTimeout = 2
  SendCap = 2
  StoreLag = 0
  BatchSize = 2
  PerDomainLimit = 1
  MaxAge = 4
  MaxRequeues = 0
  MaxStops = 1
  MaxFaults = 1
SPECIFICATION Spec
SYMMETRY Interchangeable
INVARIANTS OnlyLateEmailsOverlap
