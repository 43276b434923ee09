\* Everything may happen.
CONSTANTS
  k1 = k1
  k2 = k2
  v1 = v1
  v2 = v2
  None = None
  Key <- TwoKeys
  Value <- TwoValues
  Empty = v1
  MaxTime = 2
  MaxChanges = 2
  Windows <- AllOrSome
  Events <- AllEvents
SPECIFICATION Spec
INVARIANTS TypeOK NoForeignValue RecoversPrefix FlushedIsKept
SYMMETRY Keys
