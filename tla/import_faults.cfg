SPECIFICATION Spec
CONSTANTS
  j1 = j1
  j2 = j2
  n1 = n1
  NoJob = NoJob
  SeasonOf <- MCSeason
  Jobs = {j1, j2}
  Requests = {r1}
  Follow = {j1, j2}
  Subscribed = {j1, j2}
  Ops = {"create", "retry", "delete"}
  Outcomes = {"failed", "blocked"}
  Faults = {"crash", "abort", "lostReply", "refuse", "invalid"}
  MaxAuto = 2
  MaxAttempt = 2
  MaxCrashes = 1
CHECK_DEADLOCK FALSE
INVARIANTS
  TypeOK
  OneActive
  ActiveReserved
PROPERTIES
  FinalLeftByRetry
