SPECIFICATION LiveSpec
CONSTANTS
  nA = nA
  nB = nB
  NodeID = {nA, nB}
  Sess <- TwoNodes
  nodeID <- NodeOf
  NoSess = NoSess
  Worker = {w1}
  Notifier = {k1}
  Web = {}
  WriteCap = 1
  QueueCap = 1
  ChanSize = 1
  Slack = 0
  Sent <- SentByB
PROPERTIES
  TeardownCompletes
  OnlyCloggedStalls
CHECK_DEADLOCK FALSE
