SPECIFICATION Spec
CONSTANTS
  lobby = lobby
  ann = ann
  bob = bob
  Room = {lobby}
  Identity = {ann, bob}
  Second = 1
  HalfMinute = 1
  MaxSession = 2
  MaxClock = 4
INVARIANT OneLifecycle
CHECK_DEADLOCK FALSE
