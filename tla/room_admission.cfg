SPECIFICATION FairSpec
CONSTANTS
  j1 = j1
  j2 = j2
  a1 = a1
  r1 = r1
  r2 = r2
  r3 = r3
  Caller = {j1, j2, a1}
  Joiner = {j1, j2}
  Room = {r1, r2, r3}
  NoRoom = NoRoom
  MaxRooms = 1
  CallTimeout = 1
  Cooldown = 2
  Threshold = 2
INVARIANTS TypeOK OneProbe CeilingOvershoot
PROPERTY Recovers
