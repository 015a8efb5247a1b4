SPECIFICATION Spec
CONSTANTS
  Subs = {s1, s2}
  Main = main
  Runs = 2
  Stages <- TwoStagesEach
INVARIANT MainWaitsForOthers
CHECK_DEADLOCK FALSE
