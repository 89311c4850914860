SPECIFICATION MCSpec
CONSTANTS
  Flow = {f1, f2, f3, f4}
  Source = {s1}
  Conn = {c1, c2}
  FlowTTL = 2
  SessionTTL = 2
  RateWindow = 2
  MaxStarts = 2
  MaxPending = 1
  MaxSessions = 2
  Window = 2
  MaxExchanges = 1
  Gap = 1
  NoFlow = NoFlow
  Horizon = 4
  Guest = {g1, g2, g3}
  SourceOf <- OneAddress
  Asking = 2
  MaxActive = 1
  Wait = 2
  Pause = 1
  Student = {s}
  Admin = {h}
  StudentPause = 1
  AdminPause = 1
  Expiry = 1
  Retention = 2
  QueueSize = 1
  FeedSize = 2
  MaxIds = 2
  MaxEpochs = 2
  Lobby = {w1, w2}
  InboxSize = 1
  Person = {1, 2}
  Seat = {1, 2}
  Hq = {h1}
  Viewer = {v1}
  Local = {v1}
  Fresh = 2
  Rest = 2
  Patience = 2
  Every = 2
  Retry = 3
  MaxEvents = 2
  MaxAsked = 2
INVARIANTS Bounded SessionsWithinBudget GateBounded Verdicts HeardOnce
PROPERTIES KeepsGrants CrawlsSpaced RightOccupant OldGoes
CHECK_DEADLOCK FALSE
