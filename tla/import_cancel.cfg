SPECIFICATION Spec
CONSTANTS
  j1 = j1
  j2 = j2
  n1 = n1
  NoJob = NoJob
  SeasonOf <- MCSeason
  Jobs = {j1, j2}
  Requests = {r1}
  Follow = {j1, j2}
  Subscribed = {j1}
  Ops = {"create", "cancel"}
  Outcomes = {"completed", "failed"}
  Faults = {"refuse"}
  MaxAuto = 2
  MaxAttempt = 1
  MaxCrashes = 0
CHECK_DEADLOCK FALSE
INVARIANTS
  OneReservation
  SuccessIsReal
PROPERTIES
  LeaseSpec
