SPECIFICATION FairSpec
CONSTANTS
  Threads = {t1, t2, t3}
  Objects = {a, b}
  Cells = {c}
  NoPtr = null
  MaxHeld = 2
INVARIANTS
  CountsReferences
  StateInv
PROPERTIES ImplementsContract NoLeak
