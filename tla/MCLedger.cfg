SPECIFICATION Spec
CONSTANTS
  AccountIds = {a1, a2}
  Keys = {k1, k2}
  NoKey = NoKey
  EntryTypes = {"withdrawal", "manual_adjustment"}
  Amounts = {1, 2}
  Values = {2}
  Dates = {1, 2}
  MaxMinor = 3
  MaxEvents = 4
SYMMETRY Symmetry
INVARIANTS
  TypeOK
  CachedBalance
  TransfersWhole
  OneResultPerKey
  ReplayMeetsReference
PROPERTIES
  ArchivedFrozen
  TransferConserves
CHECK_DEADLOCK FALSE
