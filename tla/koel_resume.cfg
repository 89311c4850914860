SPECIFICATION MCSpec
CONSTANTS
  x = x
  y = y
  s1 = s1
  s2 = s2
  f = f
  Person = {x, y}
  Session = {s1, s2}
  Owner <- MCOwner
  Letter = {f}
  UserName <- Plain
  Digest = {"a"}
  Version = {1, 2, 3}
  MaxMembers = 1
  MaxNames = 2
  MaxFiles = 2
  MaxGroups = 2
  Window = 2
  MaxAdditions = 1
  None = None
  Horizon = 3
  MaxCrashes = 1
  Scenes = {"member"}
  MineNames <- Plain
  Mine = {"c1", "c2"}
  Others = {"o"}
  MirrorFiles = 3
  MaxLost = 1
  MaxJoins = 2
  MaxEdits = 3
INVARIANTS UploadedOnce
CHECK_DEADLOCK FALSE
