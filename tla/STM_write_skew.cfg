SPECIFICATION Spec
CONSTANTS
  t1 = t1
  t2 = t2
  t3 = t3
  tv1 = tv1
  tv2 = tv2
  Thread = {t1, t2, t3}
  TVar = {tv1, tv2}
  InitVal = 0
  Scenarios <- Skew
CHECK_DEADLOCK FALSE
INVARIANTS Serializable
