SPECIFICATION Spec
CONSTANTS
  Request = {a1, a2, l1, l2}
  LogReq = {l1, l2}
  Worker = {w1, w2}
  RspCap = 2
  None = None
  Unasked = Unasked
  MaxUnasked = 3
SYMMETRY Symmetry
INVARIANTS
  TypeOK
  OwnAnswer
  BlockedByLeftovers
CHECK_DEADLOCK FALSE
