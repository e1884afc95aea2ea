SPECIFICATION Spec
CONSTANTS
  nA = nA
  nB = nB
  NodeID = {nA, nB}
  Sess <- Reconnect
  nodeID <- NodeOf
  NoSess = NoSess
  Worker = {w1}
  Notifier = {k1}
  Web = {}
  WriteCap = 1
  QueueCap = 1
  ChanSize = 2
  Slack = 1
  Sent <- SentByFirst
INVARIANTS
  TypeOK
  LookupsLive
  OfflineListed
  BroadcastTargetsMapped
PROPERTIES
  RefinesRegistry
  NoLateSender
CHECK_DEADLOCK FALSE
