SPECIFICATION Spec
CONSTANTS
  Request = {a1, a2, l1}
  LogReq = {l1}
  Worker = {w1}
  RspCap = 2
  None = None
  Unasked = Unasked
  MaxUnasked = 0
SYMMETRY Symmetry
PROPERTY StaleDrained
CHECK_DEADLOCK FALSE
