SPECIFICATION Spec
CONSTANTS
  Key = {k1, k2}
  NoKey = NoKey
  Request = {r1, r2}
  MaxFails = 3
  LockDuration = 2
  FailWindow = 2
  RecordsMaxKeep = 0
  MaxTime = 7
SYMMETRY Symmetry
INVARIANTS
  TypeOK
  BoundedGuessing
PROPERTIES
  LockLasts
  RefinesPolicy
CHECK_DEADLOCK FALSE
