SPECIFICATION Spec
CONSTANTS
  Egress <- MCTwoEgress
  RoomOf <- MCRoomOf
  TenantOf <- MCTenantOf
  TTL = 1
  MaxPerRoom = 1
  MaxPerTenant = 2
  MaxClock = 3
  MaxDeliveries = 3
  NoEgress = NoEgress
INVARIANT DeletedIsGone
CHECK_DEADLOCK FALSE
