SPECIFICATION ImportsSpec
CONSTANTS
  j1 = j1
  j2 = j2
  n1 = n1
  NoJob = NoJob
  SeasonOf <- MCSeason
  Jobs = {j1, j2}
  Requests = {r1}
  Follow = {j1, j2}
  Subscribed = {j1, j2}
  Ops = {"create"}
  Outcomes = {"completed", "warning", "failed", "hollow"}
  Faults = {}
  MaxAuto = 3
  MaxAttempt = 3
  MaxCrashes = 0
  b1 = b1
  Imports = {a1, a2, b1}
  Monitors = {m1, m2, m3}
  NoImport = NoImport
  UserOf <- MCUser
  MaxConcurrent = 2
  MaxConcurrentPerUser = 1
  Keys = {k1}
  Prune = {k1}
  Scan = {k1}
  Extras = {k1}
  Visibility = {k1}
  Callers = {c1}
  NoRecord = NoRecord
  NoKey = NoKey
  Repeats = FALSE
  MaxRestarts = 2
  MaxRefused = 2
CHECK_DEADLOCK FALSE
INVARIANTS
  ReservationOwned
  NoOrphanTask
  BoundedAuto
  SlotsAccounted
  OneMonitorPerJob
  ImportTypesOK
PROPERTIES
  AttemptGrows
  SeasonEventuallyFree
  FailureAnswered
  SlotsProgress
  EndedStays
  IngestSettles
