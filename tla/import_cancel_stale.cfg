SPECIFICATION Spec
CONSTANTS
  j1 = j1
  j2 = j2
  n1 = n1
  NoJob = NoJob
  SeasonOf <- MCSeason
  Jobs = {j1, j2}
  Requests = {r1}
  Follow = {j1, j2}
  Subscribed = {j1, j2}
  Ops = {"create", "cancel"}
  Outcomes = {"completed"}
  Faults = {}
  MaxAuto = 1
  MaxAttempt = 1
  MaxCrashes = 0
CHECK_DEADLOCK FALSE
INVARIANTS
  OneActive
