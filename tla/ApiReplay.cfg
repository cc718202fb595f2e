CONSTANTS
  k1 = k1
  k2 = k2
  d1 = d1
  d2 = d2
  Keys = {k1}
  Domains = {d1}
  DomainOf <- OneKey
  Idems = {i1}
  NoIdem = NoIdem
  Requests = {r1, r2}
  MaxSends = 2
  MaxFaults = 0
SPECIFICATION Spec
CHECK_DEADLOCK FALSE
PROPERTIES ReplayIsAnswered
