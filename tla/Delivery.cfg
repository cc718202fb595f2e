\* One process, two emails, one recipient domain with a single slot.
CONSTANTS
  Emails = {e1, e2}
  Procs = {p1}
  Addrs = {a}
  NoAddr = NoAddr
  RcptDomain <- OneDomain
  Schedule <- OneRetry
  StaleWindow = 3
  OverallTimeout = 1
  SendCap = 1
  StoreLag = 0
  BatchSize = 2
  PerDomainLimit = 1
  MaxAge = 3
  MaxRequeues = 1
  MaxStops = 1
  MaxFaults = 1
SPECIFICATION Spec
SYMMETRY Interchangeable
INVARIANTS TypeOK Ownership CopiesHaveCauses FailuresAreReported
PROPERTIES ScheduleIsKept SentIsFinal ImplementsLease
