SPECIFICATION Spec
CONSTANTS
  a = a  b = b  c = c  d = d  k = k  r1 = r1  r2 = r2
  Obj = {a, b, c, d}
  Caf = {k}
  Root = {r1, r2}
  Gens = 3
  Null = Null
  Start <- MCStart
  MaxOps = 3
  MaxGCs = 2
INVARIANTS HeapSound
PROPERTIES Invisible KeepsTheLiving Progresses
