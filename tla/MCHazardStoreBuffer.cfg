SPECIFICATION BufferedSpec
CONSTANTS
  Threads = {t1, t2}
  MaxHandles = 2
  Objects = {a, b}
  Cells = {c}
  NoPtr = null
  MaxProtections = 2
SYMMETRY Symmetry
INVARIANT ProtectedIsAlive
