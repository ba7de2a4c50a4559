SPECIFICATION AcquisitionSpec
CONSTANTS
  Torrents = {t1, t2}
  NoTorrent = NoTorrent
  Tracked = {t1}
  Timestamped = {t1}
  HashInURL = {t1}
  QueueSize = 1
  Faults = {}
  MaxRestarts = 0
  MaxRechecks = 0
  Jobs = {j1, n1}
  Requests = {r1}
  NoJob = NoJob
  Follow = {j1}
  Subscribed = {j1}
  Ops = {"create"}
  Outcomes = {"failed", "completed"}
  ImportFaults = {"crash", "abort", "lostReply"}
  MaxAuto = 2
  MaxAttempt = 1
  MaxCrashes = 1
CHECK_DEADLOCK FALSE
INVARIANTS
  OnePlace
  NotBeforeComplete
PROPERTIES
  AcceptedSettles
  WatchedCompletion
