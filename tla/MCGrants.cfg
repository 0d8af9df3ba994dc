SPECIFICATION GrantsSpec
CONSTANTS
  Workers = {w1, w2}
  Grants = {g1, g2, g3}
  None = None
  RequestLife = 1
  CodeLife = 1
  AccessLife = 1
  RefreshLife = 2
  Retention = 0
  MaxTime = 2
  MaxIssues = 3
SYMMETRY Symmetry
INVARIANTS
  TypeOK
  ReplayRevokesAll
  LiveGrantsOverlap
PROPERTIES
  RefinesGrantChain
CHECK_DEADLOCK FALSE
