SPECIFICATION MCSpec
CONSTANTS
  a = a
  b = b
  c = c
  Meeting = {a, b, c}
  Nodes = {a, c}
  Events = {e1, e2, e3}
  Life = 3
  Window = 1
  Cap = 2
  Skew <- Skewed
  Horizon = 5
  Expire = 1
  MaxFailures = 1
  MaxPeers = 1
  Bootstrap = a
  Mortal = {c}
  Scenes = {"events", "meeting", "crash"}
INVARIANTS ShownOnce
PROPERTIES EchoesDie GoneForgotten
CHECK_DEADLOCK FALSE
