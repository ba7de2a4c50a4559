SPECIFICATION Spec
CONSTANTS
  j1 = j1
  j2 = j2
  n1 = n1
  NoJob = NoJob
  SeasonOf <- MCSeason
  Jobs = {j1, j2}
  Requests = {r1}
  Follow = {j1, j2}
  Subscribed = {j1, j2}
  Ops = {"create", "retry"}
  Outcomes = {"failed"}
  Faults = {"abort"}
  MaxAuto = 1
  MaxAttempt = 2
  MaxCrashes = 0
CHECK_DEADLOCK FALSE
INVARIANTS
  RetryPossible
