SPECIFICATION Spec
CONSTANTS
  Threads = {t1, t2, t3}
  MaxHandles = 3
  Objects = {a, b}
  Cells = {c}
  NoPtr = null
  MaxProtections = 1
SYMMETRY Symmetry
INVARIANT HandlesSafe
PROPERTY ImplementsContract
