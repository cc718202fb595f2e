CONSTANTS
  Admins = {op1, op2}
  Emails = {e1}
  Addrs = {a, b}
  NoAddr = NoAddr
  MaxEmailRequests = 2
  MaxClaims = 2
  Keys = {k1, k2}
  MaxKeyRequests = 3
  MaxFaults = 1
  Domains = {d1}
  Verifiers = {op1}
  MaxChanges = 2
  MaxBlips = 1
  MaxVerifies = 2
  Names = {n1, n2}
  IPs = {"203.0.113.1", "203.0.113.10"}
  Beginnings <- TwoAddresses
  MaxZoneEdits = 2
  MaxMoves = 1
  RangeDays <- TwoRanges
  DefaultRange = "1d"
  PageSize = 1
  Dates = {0, 1}
  MaxListed = 3
  Horizon = 3
  Counted = {c1, c2}
  Senders = {s1, s2}
  Spans = {1, 2}
  Reasons = {"x"}
  TopReasons = 1
  LastDay = 2
  MaxEdits = 1
  MaxErrors = 1
  Tokens = {t1, t2}
  Browsers = {b1, b2}
  Lifetime = 1
  MaxClock = 2
  MaxVisits = 3
SPECIFICATION Spec
CHECK_DEADLOCK FALSE
INVARIANTS CancelHolds NoticesAreTrue ShownRecordsVerify WalkShowsEverything BarsAddUp
  EndedSessionsStayEnded
PROPERTIES RetryKeepsRecipient FlagsHaveEvidence FlagsCatchUp
