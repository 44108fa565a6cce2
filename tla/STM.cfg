SPECIFICATION FairSpec
CONSTANTS
  t1 = t1
  t2 = t2
  t3 = t3
  tv1 = tv1
  tv2 = tv2
  Thread = {t1, t2, t3}
  TVar = {tv1, tv2}
  InitVal = 0
  Scenarios <- All
CHECK_DEADLOCK FALSE
INVARIANTS Consistent LocksRestore SnapshotIsolation NoLostWakeup
PROPERTIES ReadSetKept SleepersWake
