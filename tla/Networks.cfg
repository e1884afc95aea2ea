SPECIFICATION Spec
CONSTANTS
  n1 = n1
  nodeX = nodeX
  nodeY = nodeY
  Net = {n1, n2}
  NoNet = NoNet
  NoNode = NoNode
  Node = {nodeX, nodeY}
  LastIP = 3
  Gateways = {2}
  Wishes = {1}
  Handler = {h1, h2}
  Worker = {w1, w2}
  Stored <- Files
  MaxOps = 2
  MaxCrashes = 1
SYMMETRY Symmetry
INVARIANTS
  TypeOK
  Persisted
  MembersTold
  ViewCurrent
  MembersDistinct
CHECK_DEADLOCK FALSE
