SPECIFICATION AccessSpec
CONSTANTS
  Users = {"a", "b"}
  MaxSessions = 2
  Nobody = Nobody
  Loading = Loading
  Workers = {w1, w2}
  Grants = {g1}
  None = None
INVARIANTS
  ClearedOnSwitch
PROPERTIES
  WritesAsShown
  SessionConverges
  RequestsEnd
CHECK_DEADLOCK FALSE
