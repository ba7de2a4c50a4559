SPECIFICATION Spec
CONSTANTS
  Torrents = {t1, t2}
  NoTorrent = NoTorrent
  Tracked = {t1}
  Timestamped = {t1}
  HashInURL = {t1}
  QueueSize = 1
  Faults = {"delete"}
  MaxRestarts = 0
  MaxRechecks = 0
CHECK_DEADLOCK FALSE
PROPERTIES
  DeletedStays
