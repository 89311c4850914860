SPECIFICATION Spec
CONSTANTS
  Student = {s}
  Admin = {h}
  StudentPause = 1
  AdminPause = 1
  Expiry = 1
  Retention = 2
  QueueSize = 1
  FeedSize = 2
  MaxIds = 3
  Horizon = 2
  MaxEpochs = 2
  Window = {w1}
  InboxSize = 6
INVARIANT EveryWindowHears
CHECK_DEADLOCK FALSE
