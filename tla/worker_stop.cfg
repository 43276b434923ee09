\* Stop of a worker that is about to wait.
CONSTANTS
  t1 = t1
  t2 = t2
  t3 = t3
  NoTask = NoTask
  Task <- TwoTasks
  PerFrame = 1
  Sticky = TRUE
SPECIFICATION FairSpec
PROPERTY StopReturns
CHECK_DEADLOCK FALSE
