SPECIFICATION Spec
CONSTANTS
  Workers = {w1, w2}
  Accounts = {a1, a2}
  Keys = {k1, k2}
  None = None
  Handlers = {"CreateTransfer", "Archive", "DeleteAccount"}
  MaxRows = 2
  MaxEdits = 0
INVARIANTS
  TransfersWhole
CHECK_DEADLOCK FALSE
