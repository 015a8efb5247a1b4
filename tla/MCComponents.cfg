SPECIFICATION PartSpec
CONSTANTS
  Values = {v1, v2}
  Raw = raw
  NoElement = none
  Words = 32
  FirstOffset = 4
  MinCapacity = 2
  MaxCapacity = 8
  Threads = {t1, t2}
  NoPtr = null
  Lists = {l1, l2}
  Nodes = {n1, n2, n3, n4}
  Objects = {o1, o2}
  Slots = {s1, s2}
  Cells = {c1}
  NoGuard = gone
  MaxUniverse = 6
  MaxFastSteps = 2
  MaxWeight = 2
  NoKey = nokey
  Bits = 4
  MarkBits = 2
SYMMETRY Symmetry
INVARIANTS
  BufferSeesFull
  BufferStateInv
  ListStateInv
  DelayedStateInv
  KeyFitsNumber
  KeySearchConverges
  FlagsAndAddressApart
PROPERTIES
  BufferImplementsDeque
  ListImplementsPushList
  DelayedImplementsContract
CHECK_DEADLOCK FALSE
