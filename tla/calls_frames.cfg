\* Requests for the next frame that a map change leaves waiting.
CONSTANTS
  p1 = p1
  p2 = p2
  NoPlugin = NoPlugin
  Plugin <- TwoPlugins
  TaskId = {1}
  Base = {1}
  NewBase = {}
  Repeat = {2}
  MaxStep = 1
  MaxLag = 0
  MaxForwards = 2
  MaxTasks = 1
  MaxRequests = 1
  MaxHandles = 1
  MaxCalls = 2
  LateRequests = TRUE
SPECIFICATION Spec
PROPERTY RequestsRunTheirOwn
