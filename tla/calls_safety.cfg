\* Tasks, requests for the next frame and forwards that plugins create.
CONSTANTS
  p1 = p1
  p2 = p2
  NoPlugin = NoPlugin
  Plugin <- TwoPlugins
  TaskId = {1}
  Base = {1}
  NewBase = {1, 2}
  Repeat <- Repeats
  MaxStep = 2
  MaxLag = 1
  MaxForwards = 2
  MaxTasks = 2
  MaxRequests = 2
  MaxHandles = 2
  MaxCalls = 3
  LateRequests = FALSE
SPECIFICATION FairSpec
INVARIANTS TypeOK HoldersOwn FreeListOK NoLeak CallIsKept SlotIsKept NotTooLong
PROPERTY AllRun
