SPECIFICATION Spec
CONSTANTS
  w1 = w1
  w2 = w2
  w3 = w3
  w4 = w4
  i1 = i1
  s1 = s1
  s2 = s2
  e1 = e1
  u1 = u1
  u2 = u2
  Null = Null
  NCaps = 2
  Worker = {w1, w2, w3, w4}
  InCall = {i1}
  Syncer = {s1}
  Exiter = {e1}
  Unbound = {u1, u2}
  MAX_SPARE_WORKERS = 1
  Scenarios <- Safe
SYMMETRY Symmetric
CONSTRAINT Unswerving
INVARIANTS Ownership HandedOver Placed ShutDown
CHECK_DEADLOCK FALSE
