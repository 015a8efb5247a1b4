SPECIFICATION FairSpec
CONSTANTS
  Threads = {t1, t2, t3, t4}
  Readers = {t4}
  Values = {v1, v2, v3}
  Dummy = dummy
  Capacity = 2
  Words = 4
INVARIANTS
  NoMutualWait
PROPERTIES
  SizeOffByTicketsBetween
  ImplementsPool
  KeepsCompleting
  FifoWithoutOverlap
CHECK_DEADLOCK FALSE
