SPECIFICATION MCSpec
CONSTANTS
  Attempt = {n1, n2, n3}
  MaxWaiters = 2
  MaxBusy = 2
  NoAttempt = NoAttempt
  MaxCallbacks = 2
  Seat = {t1, t2}
  Client = {c}
  First = t1
  MaxGen = 3
  MaxDeaths = 1
  NoSeat = NoSeat
  Players = {a, b, c}
  Leader = a
  Seconds = 1
  Late = 1
  Cooldown = 2
  Spacing = 3
  MaxTargets = 3
  Horizon = 5
  MaxSent = 5
  Window = {w1, w2}
  MaxAlarms = 2
  MaxFired = 1
  Length = {2}
  Every = {2}
  Week = 3
  Wall = {{1}}
  LastDue = 20
  LastTick = 2
  MaxMade = 2
  MaxTurns = 1
  InboxSize = 1
  MaxPending = 2
  MaxEdits = 1
  MaxSignins = 2
  MaxWire = 1
  w1 = w1
  Lists = {exams}
  Exam <- OneExam
  Usual <- FirstHour
  Changed = 2
  Fresh = 1
  Manual = {1}
  LastHour = 2
  MaxIssued = 2
INVARIANTS OnlyItsCode Followed SummaryComplete RungInTime Consent Hushed
PROPERTIES NewerKept NobodyCutOff TextsSpaced NothingHangs
CHECK_DEADLOCK FALSE
