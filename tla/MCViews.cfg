SPECIFICATION MCSpec
CONSTANTS
  Nothing = Nothing
  Workers = {w1, w2}
  Lists = {d1}
  Residue = Residue
  Beneficiaries = {b1, b2}
  Tiers = {primary}
  Full = 2
  MaxVersion = 2
  MaxEdits = 1
  Assets = {d1}
  MaxWrites = 5
  Panels <- TwoPanels
  MaxData = 3
  MaxSaves = 2
  Accounts = {"a", "b"}
  CurrencyOf <- CurrencyOfTwo
  Base = "E"
  Holds = {"a"}
  QuoteOf <- QuoteOfOne
  Liabilities = {"b"}
  Amounts = {0, 2}
  Rate = 3
  MaxChanges = 1
  Worth <- WorthOfTwo
  Cash <- CashOfTwo
  Categories = {"fund", "home", "loan"}
  Debts = {"loan"}
  Investible = {"fund"}
  Institutions = {"bank"}
  MaxBack = 1
  Rows <- TwoRows
  TypeOf <- Typed
  KindOf <- Kinded
  Found = {1}
  PageSize = 1
  Filters <- Tried
SYMMETRY Symmetry
INVARIANTS
  TypeOK
  WebTypeOK
  FiguresCurrent
  MissingIsNamed
  AllocationAddsUp
  EstateAgrees
  ActivityCurrent
PROPERTIES
  Alone
CHECK_DEADLOCK FALSE
