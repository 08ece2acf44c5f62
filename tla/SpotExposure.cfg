SPECIFICATION Spec
CONSTANTS
  Tickers = {A, B}
  A = A
  B = B
  MaxTrades = 2
  Market <- Two
  Size = 1
  Prior <- NoCoins
  MaxBuys = 2
  MaxPosition = 1
  MaxExposure = 1
  MaxOrders = 2
  MaxTrouble = 0
  MaxCrashes = 0
  MaxTurns = 0
INVARIANTS
  ExposureBounded
