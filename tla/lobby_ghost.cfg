SPECIFICATION FairSpec
CONSTANTS
  Pid = {p1, p2}
  Rid = {r1, r2}
  AccountOf <- MCAccountOf
  Games = {"forknite"}
  MaxClients = 3
  MaxRooms = 1
  HexSeats = 3
  NoPid = NoPid
  NoRid = NoRid
CHECK_DEADLOCK FALSE
PROPERTY Unregistered
