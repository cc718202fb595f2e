\* As DeliveryTwo: a goroutine waits for its slot while its row grows stale.
CONSTANTS
  Emails = {e1, e2}
  Procs = {p1, p2}
  Addrs = {a}
  NoAddr = NoAddr
  RcptDomain <- OneDomain
  Schedule <- NoRetry
  StaleWindow = 3
  OverallTimeout = 2
  SendCap = 2
  StoreLag = 0
  BatchSize = 2
  PerDomainLimit = 1
  MaxAge = 3
  MaxRequeues = 0
  MaxStops = 0
  MaxFaults = 0
SPECIFICATION Spec
INVARIANTS NoConcurrentDelivery
