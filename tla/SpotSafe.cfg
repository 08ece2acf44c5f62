SPECIFICATION LiveSpec
CONSTANTS
  Tickers = {A, B}
  A = A
  B = B
  MaxTrades = 3
  Market <- OneAndAnother
  Size = 2
  Prior <- OnePart
  MaxBuys = 1
  MaxPosition = 4
  MaxExposure = 4
  MaxOrders = 1
  MaxTrouble = 1
  MaxCrashes = 1
  MaxTurns = 1
CONSTRAINT
  Bounded
INVARIANTS
  BuysOnce
  RecordsTrue
  BuysBounded
PROPERTIES
  ExitHappens
