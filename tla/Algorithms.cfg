SPECIFICATION Spec
CONSTANTS
  Base = 4
  MaxTries = 64
  NoAddress = NoAddress
  Loopback = {"lo"}
  NoRelay = NoRelay
  Now = 60
  IdleTime = 30
  Gateways <- SomeGateways
  Sizes = {1, 2, 4, 8, 16, 64, 256}
  Taken = {0, 1, 2, 3, 6, 15, 62, 63, 64, 255}
  Ends <- SomeEnds
  Others <- SomeOthers
  Torn = {0, 60, 100}
  MaxOthers = 3
  MaxFrom = 6
INVARIANTS
  AllocFirstFree
  RelayFits
  RelayIdlest
CHECK_DEADLOCK FALSE
