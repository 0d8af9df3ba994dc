SPECIFICATION Spec
CONSTANTS
  Workers = {w1, w2}
  Grants = {g1, g2}
  None = None
  RequestLife = 1
  CodeLife = 1
  AccessLife = 1
  RefreshLife = 2
  Retention = 0
  MaxTime = 1
  MaxIssues = 1
INVARIANTS
  OneLiveGrant
CHECK_DEADLOCK FALSE
