SPECIFICATION Spec
CONSTANTS
  Accounts = {a1}
  Instruments = {i1}
  NoInstrument = NoInstrument
  Keys = {k1}
  NoKey = NoKey
  Trades = {"buy"}
  Quantities = {1}
  Ratios <- Halves
  Prices = {1}
  Settlements = {1}
  Balances = {0}
  LastDay = 1
  Ahead = 0
  MaxMinor = 2
  MaxRequests = 4
INVARIANT RestoredValue
CHECK_DEADLOCK FALSE
