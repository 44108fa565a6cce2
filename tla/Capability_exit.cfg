SPECIFICATION FairSpec
CONSTANTS
  w1 = w1
  w2 = w2
  w3 = w3
  w4 = w4
  i1 = i1
  s1 = s1
  s2 = s2
  e1 = e1
  u1 = u1
  u2 = u2
  Null = Null
  NCaps = 2
  Worker = {w1, w2, w3}
  InCall = {i1}
  Syncer = {}
  Exiter = {e1}
  Unbound = {}
  MAX_SPARE_WORKERS = 3
  Scenarios <- Late
PROPERTIES ExitReturns
CHECK_DEADLOCK FALSE
