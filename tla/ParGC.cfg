SPECIFICATION MCSpec
CONSTANTS
  t1 = t1
  t2 = t2
  t3 = t3
  a = a
  b = b
  c = c
  d = d
  e = e
  Thread = {t1, t2, t3}
  Object = {a, b, c, d, e}
  Child <- MCChild
  Root <- MCRoot
  Weak = {e}
  QueueSize = 1
  MaxGCs = 2
  NoThread = {t1, t2, t3}
  NoObject = {a, b, c, d, e}
INVARIANTS Complete RunningIsCounted HandshakeSound
PROPERTIES FewEnd
