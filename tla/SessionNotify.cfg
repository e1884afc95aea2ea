SPECIFICATION Spec
CONSTANTS
  nA = nA
  nB = nB
  NodeID = {nA, nB}
  Sess <- OneSession
  nodeID <- NodeOf
  NoSess = NoSess
  Worker = {w1, w2}
  Notifier = {k1}
  Web = {g1}
  WriteCap = 1
  QueueCap = 1
  ChanSize = 2
  Slack = 1
  Sent <- SentAll
INVARIANTS
  NotifyNeverBlocks
  NoCircularWait
CHECK_DEADLOCK FALSE
