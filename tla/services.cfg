SPECIFICATION ServicesSpec
CONSTANTS
  Token = {t1, t2}
  NoToken = NoToken
  Refreshers = {q1}
  MaxSessions = 1
  MaxStores = 1
  Libs = {l1, l2}
  Scanners = {r1, r2}
  NoScanner = NoScanner
  NoLib = NoLib
  Media = {m1, m2}
  HlsJobs = {h1, h2}
  NoHls = NoHls
  NoMedium = NoMedium
  MaxConcurrent = 2
  Endpoints = {"download"}
  BucketsOf <- MCBucketsOf
  Quota <- MCQuota
  Window <- MCWindow
  PartsOfSecond = 2
  LastSecond = 5
  Clips = {c1, c2, c3}
  NoClip = NoClip
  Probers = {w1, w2}
  QueueLimit = 1
  Paths = {p1, p2}
  Inodes = {i1}
  NoInode = NoInode
  NoPath = NoPath
CHECK_DEADLOCK FALSE
INVARIANTS
  TypesOK
  TokenNotLost
  SessionLimit
  ScanOwnsEntry
  QueuedIsExpected
  TrackedRuns
  QuotaHeld
  ReservedOnce
  IndexMatchesDisk
PROPERTIES
  ReplacedNotRevived
  PendingSettles
  CancelEnds
  IdleStops
  ReservationEnds
