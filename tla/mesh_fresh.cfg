SPECIFICATION MCSpec
CONSTANTS
  a = a
  b = b
  c = c
  Meeting = {a, b}
  Nodes = {a, c}
  Events = {e1, e2, e3}
  Life = 3
  Window = 1
  Cap = 2
  Skew <- Skewed
  Horizon = 5
  Expire = 1
  MaxFailures = 1
  MaxPeers = 2
  Bootstrap = a
  Mortal = {}
  Scenes = {"meeting"}
PROPERTIES FreshKept
CHECK_DEADLOCK FALSE
