SPECIFICATION Spec
CONSTANTS
  Threads = {t1, t2}
  Objects = {a, b, d}
  Values = {v, w}
  Erased = {v}
  NoPtr = null
SYMMETRY Symmetry
INVARIANTS
  StateInv
PROPERTIES
  ImplementsListUntilDoubled
  SizeIsRight
  RetriesAreExcused
