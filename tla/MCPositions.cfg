SPECIFICATION Spec
CONSTANTS
  Accounts = {a1, a2}
  Instruments = {i1, i2}
  NoInstrument = NoInstrument
  Keys = {k1, k2, k3}
  NoKey = NoKey
  Trades = {"sell", "quantity_adjustment"}
  Quantities = {1}
  Ratios <- Halves
  Prices = {1}
  Settlements = {1}
  Balances = {0, 1}
  LastDay = 2
  Ahead = 1
  MaxMinor = 2
  MaxRequests = 4
SYMMETRY Symmetry
INVARIANTS
  TypeOK
  LongOnly
  EntitlementsHold
  SequencesDistinct
  GroupsWhole
  CachedValue
PROPERTIES
  ArchivedFrozen
CHECK_DEADLOCK FALSE
