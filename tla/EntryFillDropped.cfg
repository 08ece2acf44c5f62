SPECIFICATION Spec
CONSTANTS
  MaxTrades = 3
  MaxArms = 1
  MaxSeq = 2
  MaxAttempts = 2
  Qty = 1
  MaxFaults = 1
  MaxCrashes = 0
  MaxManual = 0
  MaxSlow = 0
  MaxTroubles = 3
PROPERTIES
  OwnFillIsNotDropped
