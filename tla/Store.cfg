SPECIFICATION Spec
CONSTANTS
  n1 = n1
  n2 = n2
  User = {u0, u1}
  BuiltIn = u0
  Password = {p1, p2}
  EnvPassword = {p1}
  Name = {n1, n2}
  Sess = {s1, s2}
  nodeID <- NodeOf
  NoSess = NoSess
  None = None
  Req = {r1, r2}
  MaxCreated = 2
  MaxStarts = 1
SYMMETRY Symmetry
INVARIANTS
  TypeOK
  RegisteredOnce
  ListingComplete
PROPERTIES
  SavedKept
CHECK_DEADLOCK FALSE
