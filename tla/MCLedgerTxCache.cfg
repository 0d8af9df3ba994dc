SPECIFICATION Spec
CONSTANTS
  Workers = {w1, w2}
  Accounts = {a1, a2}
  Keys = {k1, k2}
  None = None
  Handlers = {"CreateTransaction"}
  MaxRows = 2
  MaxEdits = 0
INVARIANTS
  CachedBalance
CHECK_DEADLOCK FALSE
