SPECIFICATION FairDSpec
CONSTANTS
  Threads = {t1, t2}
  MaxHandles = 2
PROPERTY DestructorReturns
CHECK_DEADLOCK FALSE
