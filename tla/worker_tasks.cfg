\* Kept signals, as on Windows, and three tasks; Stop may hang (see worker_stop).
CONSTANTS
  t1 = t1
  t2 = t2
  t3 = t3
  NoTask = NoTask
  Task <- ThreeTasks
  PerFrame = 2
  Sticky = TRUE
SPECIFICATION FairSpec
INVARIANTS TypeOK NoSleepOnWork StoppedHoldsNone
PROPERTIES KeepsPromise QueuedIsServed
CHECK_DEADLOCK FALSE
