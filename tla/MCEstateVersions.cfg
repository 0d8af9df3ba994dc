SPECIFICATION Spec
CONSTANTS
  Workers = {w1, w2}
  Lists = {d1}
  Residue = Residue
  Beneficiaries = {b1, b2}
  Tiers = {primary}
  Full = 2
  MaxVersion = 2
  MaxEdits = 1
INVARIANTS
  DistinctVersions
CHECK_DEADLOCK FALSE
