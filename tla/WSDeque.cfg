SPECIFICATION Spec
CONSTANTS
  Elem = {e1, e2, e3, e4, e5}
  Thieves = {s1, s2}
  Size = 4
  Owner = owner
  NULL = null
VIEW LiveState
SYMMETRY Symm
INVARIANTS ExactlyOnce NothingLost IndInv
PROPERTY Linearizable
