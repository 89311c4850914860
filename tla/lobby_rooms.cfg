SPECIFICATION Spec
CONSTANTS
  Pid = {p1, p2, p3}
  Rid = {r1, r2}
  AccountOf <- MCAccountOf
  Games = {"bluff", "hexwars", "forknite"}
  MaxClients = 3
  MaxRooms = 2
  HexSeats = 3
  NoPid = NoPid
  NoRid = NoRid
SYMMETRY Symmetric
INVARIANTS OneRoomEach MembersAreServed HostLeads HexSeatsHeld
CHECK_DEADLOCK FALSE
