\* Calls within calls.
CONSTANTS
  NPlugins = 2
  Fn = {"f", "g", "h"}
  Hooked <- HookedByTwo
  Routine <- SomeMissing
  Results = {3, 4}
  Nested = {"g"}
  Pausable = {2}
  NoGlobals = NoGlobals
  MaxCalls = 3
SPECIFICATION Spec
INVARIANTS TypeOK GlobalsBelong
PROPERTY KeepsPromise
