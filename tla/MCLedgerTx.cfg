SPECIFICATION Spec
CONSTANTS
  Workers = {w1, w2}
  Accounts = {a1, a2}
  Keys = {k1, k2}
  None = None
  Handlers = {"CreateTransaction", "UpdateTransaction", "DeleteTransaction", "CreateTransfer", "Archive", "Restore", "DeleteAccount"}
  MaxRows = 2
  MaxEdits = 1
SYMMETRY Symmetry
INVARIANTS
  TypeOK
  OneResultPerKey
  LegLostOnlyByDeletion
PROPERTIES
  AloneRepairs
CHECK_DEADLOCK FALSE
