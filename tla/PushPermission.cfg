SPECIFICATION Spec
CONSTANTS
  nA = nA
  nB = nB
  NodeID = {nA, nB}
  Sess <- Connections
  nodeID <- NodeOf
  NoSess = NoSess
  NoNode = NoNode
  Worker = {w1, w2}
  TTL = 1
  MaxTime = 2
SYMMETRY Symmetry
INVARIANT TypeOK
PROPERTIES
  ExpiryEnforced
  AnswerPasses
CHECK_DEADLOCK FALSE
