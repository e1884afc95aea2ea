SPECIFICATION Spec
CONSTANTS
  n1 = n1
  nodeX = nodeX
  nodeY = nodeY
  Net = {n1}
  NoNet = NoNet
  NoNode = NoNode
  Node = {nodeX, nodeY}
  LastIP = 3
  Gateways = {2}
  Wishes = {1}
  Handler = {h1, h2}
  Worker = {w1}
  Stored <- Files
  MaxOps = 2
  MaxCrashes = 0
SYMMETRY Symmetry
PROPERTY AllocatedFree
CHECK_DEADLOCK FALSE
