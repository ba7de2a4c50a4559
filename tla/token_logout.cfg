SPECIFICATION LogoutSpec
CONSTANTS
  Token = {k1, k2}
  NoToken = NoToken
  Refreshers = {q1}
  MaxSessions = 1
  MaxStores = 1
CHECK_DEADLOCK FALSE
INVARIANTS
  LoggedOutNotRevived
