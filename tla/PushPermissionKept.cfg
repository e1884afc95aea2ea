SPECIFICATION Spec
CONSTANTS
  nA = nA
  nB = nB
  NodeID = {nA, nB}
  Sess <- Connections
  nodeID <- NodeOf
  NoSess = NoSess
  NoNode = NoNode
  Worker = {w1, w2}
  TTL = 1
  MaxTime = 3
SYMMETRY Symmetry
PROPERTY PermissionKept
CHECK_DEADLOCK FALSE
