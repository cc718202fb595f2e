CONSTANTS
  k1 = k1
  k2 = k2
  d1 = d1
  d2 = d2
  Keys = {k1, k2}
  Domains = {d1, d2}
  DomainOf <- TwoKeys
  Idems = {i1}
  NoIdem = NoIdem
  Requests = {r1, r2}
  MaxSends = 1
  MaxFaults = 1
  CustomNames = {"subject", "x-note"}
  MaxCustoms = 2
  h1 = h1
  h2 = h2
  h3 = h3
  h4 = h4
  Hosts = {h1, h2, h3, h4}
  Self = Self
  Pref <- FourPrefs
  MaxMXAttempts = 3
  MaxOps = 6
  Loops = {worker, notifier, recheck}
  Handlers = {g1, g2}
SPECIFICATION Spec
CHECK_DEADLOCK FALSE
INVARIANTS SchemaComplete OneEmailPerIdempotencyKey RepliesNameTheEmail RaceIsNoError
  AcceptedIsBuildable SignedHeadersOnce BestHostsFirst CopiesAreKnown ConnectionsAreClosed
  LoopsEndBeforeClose
PROPERTIES RefusalIsRespected SendReturns WatcherEnds StopsInTheEnd
