SPECIFICATION FairSpec
CONSTANTS
  t1 = t1 t2 = t2 t3 = t3 c1 = c1 c2 = c2 ta = ta tb = tb caf = caf
  None = None
  Cap = {c1, c2}
  Thread = {t1, t2, t3}
  Home <- MCHome
  Thunk = {ta, tb}
  Caf = {caf}
  AP = {p1, p2, p3, p4}
  BQ = {q1, q2, q3}
  Scenario <- MCScenario
  MaxTag = 3
INVARIANTS Promise NoDuplicateWork
PROPERTIES Finishes
CHECK_DEADLOCK FALSE
