SPECIFICATION MCSpec
CONSTANTS
  one = p1
  two = p2
  Pid = {p1, p2, p3}
  Rid = {r1, r2}
  AccountOf <- Reconnecting
  Games = {"bluff", "hexwars"}
  MaxClients = 3
  MaxRooms = 2
  HexSeats = 3
  NoPid = NoPid
  NoRid = NoRid
  grower = grower
  raider = raider
  keeper = keeper
  hill = hill
  homeG = homeG
  homeR = homeR
  homeK = homeK
  Cells = {hill, homeG, homeR, homeK}
  Neighbors <- StarNeighbors
  Players = {grower, raider, keeper}
  Home <- StarHome
  Growth <- StarGrowth
  Attack <- StarAttack
  Armor <- StarArmor
  NeutralUnits = 1
  HomeUnits = 2
  MaxUnits = 3
  MaxTurns = 3
  Neutral = Neutral
  Pass = Pass
  Fault = Fault
  Member = {1, 2, 3}
  Count = 3
  MaxLists = 2
  MaxChanges = 3
  MaxGuests = 1
  Person = {p}
  Window = {w1, w2}
  First = w1
  MaxPeople = 1
  MaxEvents = 2
  MaxReloads = 1
  MaxVisits = 3
INVARIANTS NoHollowCells OneWinner KeysFit SameTeam NewsIsNews
PROPERTIES KeepsDirectory Settles
CHECK_DEADLOCK FALSE
