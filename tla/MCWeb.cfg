SPECIFICATION WritesSpec
CONSTANTS
  Nothing = Nothing
  Forms <- Representatives
  Bodies = {"x", "y"}
  MaxOpenings = 2
  MaxSubmits = 3
  Currencies = {"JPY", "KES"}
  Thousandths = {0, 1500, 2000}
  MaxTries = 1
  Types = {"opening_position", "buy"}
  Amounts = {2}
  Rates = {0, 3}
  MaxTouches = 3
  MaxSaves = 2
  Instruments = {"i", "j"}
  Quote <- Quotes
  Kinds = {"merger", "drip", "inkind"}
  MaxActions = 1
  Categories = {"fund", "loan"}
  Holds = {"fund"}
  Liabilities = {"loan"}
  Tradable = {"i"}
  MaxHoldings = 2
  MaxClicks = 2
  RowsOf <- TwoFiles
  Needs <- Earlier
  Faulty = {3}
  NoFile = NoFile
  MaxRequests = 3
  Incomplete = {"blank"}
  Worth <- Totals
  Balances <- OneToThree
INVARIANTS
  WebTypeOK
  FormsRecord
  RequestsWellFormed
  DoneAsReviewed
  ImportsWhole

  
CHECK_DEADLOCK FALSE
