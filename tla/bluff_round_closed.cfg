SPECIFICATION Spec
CONSTANTS
  Pid = {p1, p2, p3}
  Rid = {r1, r2}
  AccountOf <- MCAccountOf
  Games = {"bluff"}
  MaxClients = 3
  MaxRooms = 2
  HexSeats = 3
  NoPid = NoPid
  NoRid = NoRid
SYMMETRY Symmetric
CHECK_DEADLOCK FALSE
INVARIANT BluffRoundClosed
