SPECIFICATION IngestSpec
CONSTANTS
  Keys = {k1}
  Prune = {}
  Scan = {k1}
  Extras = {}
  Visibility = {}
  Callers = {c1}
  NoRecord = NoRecord
  NoKey = NoKey
  Repeats = TRUE
  MaxRestarts = 0
  MaxRefused = 0
CHECK_DEADLOCK FALSE
PROPERTIES
  CompletedKept
