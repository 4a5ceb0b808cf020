SPECIFICATION FairSpec
CONSTANTS
  Egress <- MCTwoEgress
  RoomOf <- MCRoomOf
  TenantOf <- MCTenantOf
  TTL = 1
  MaxPerRoom = 1
  MaxPerTenant = 2
  MaxClock = 3
  MaxDeliveries = 3
  NoEgress = NoEgress
PROPERTY SweptInTheEnd
CHECK_DEADLOCK FALSE
