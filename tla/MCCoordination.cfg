SPECIFICATION PartSpec
CONSTANTS
  Subs = {s1, s2, s3}
  Main = main
  Runs = 3
  Stages <- LaterCallsHaveOneStage
  Items = 5
  BlockSize = 2
  NoClaim = none
  PoolThreads = {p1, p2, p3}
  Sizes = {1, 2}
  SmallSize = 0
  NoSize = nosize
INVARIANTS
  FirstCallInLockstep
  EachIndexOnce
  PoolIsReady
PROPERTIES
  ImplementsBarrier
  StagesFinish
  PoolCallsReturn
