SPECIFICATION Spec
CONSTANTS
  c1 = c1
  c2 = c2
  Caller = {c1, c2}
  EgressId = {"e1"}
  NoEgress = NoEgress
  Char = {"a", ".", ":"}
  Sep = ":"
  NameChar = {"a"}
  MaxTenantIDLen = 3
  Tenant <- MCTenant
  RoomId <- MCRoomId
  Token <- MCToken
  MaxRooms = 1
INVARIANTS TypeOK Isolation ListsAreDisjoint SeamHonoured
SYMMETRY MCSymmetry
CHECK_DEADLOCK FALSE
