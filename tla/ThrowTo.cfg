SPECIFICATION FairSpec
CONSTANTS
  t1 = t1 t2 = t2 t3 = t3 t4 = t4 c1 = c1 c2 = c2 v1 = v1 v2 = v2
  None = None
  Cap = {c1, c2}
  Thread = {t1, t2, t3, t4}
  Value = {v1, v2}
  Home <- MCHome
  Scenario <- MCScenario
  MaxMsg = 3
INVARIANTS ThrowToOnce OnePlace NobodyWaitsInVain
PROPERTIES Stops MVarRefinement
CHECK_DEADLOCK FALSE
