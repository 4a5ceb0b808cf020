SPECIFICATION Spec
CONSTANTS
  lobby = lobby
  ann = ann
  bob = bob
  Room = {lobby}
  Identity = {ann, bob}
  Second = 2
  HalfMinute = 4
  MaxSession = 2
  MaxClock = 5
INVARIANTS TypeOK DistinctKeys WithinLifetime NoTimeBilledTwice
PROPERTY AccrualKept
SYMMETRY MCSymmetry
CHECK_DEADLOCK FALSE
