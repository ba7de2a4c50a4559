SPECIFICATION FairSpec
CONSTANTS
  Torrents = {t1}
  NoTorrent = NoTorrent
  Tracked = {t1}
  Timestamped = {t1}
  HashInURL = {t1}
  QueueSize = 1
  Faults = {"delete", "organizeError", "unreachable", "admin"}
  MaxRestarts = 1
  MaxRechecks = 1
CHECK_DEADLOCK FALSE
INVARIANTS
  TypeOK
  AnnouncedOnce
PROPERTIES
  CaughtUp
