SPECIFICATION Spec
CONSTANTS
  Egress <- MCEgress
  RoomOf <- MCRoomOf
  TenantOf <- MCTenantOf
  TTL = 1
  MaxPerRoom = 1
  MaxPerTenant = 2
  MaxClock = 3
  MaxDeliveries = 3
  NoEgress = NoEgress
INVARIANTS TypeOK InProgressSafe
PROPERTIES FollowsLifecycle RetentionHonoured OrphansComeFromSink
CHECK_DEADLOCK FALSE
