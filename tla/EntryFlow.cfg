SPECIFICATION FairSpec
CONSTANTS
  MaxTrades = 4
  MaxArms = 1
  MaxSeq = 3
  MaxAttempts = 2
  Qty = 2
  MaxFaults = 2
  MaxCrashes = 1
  MaxManual = 1
  MaxSlow = 1
  MaxTroubles = 2
INVARIANTS
  EnteredOnce
PROPERTIES
  NoInvalidTransition
  SlotSpec
  ExposureGetsGuarded
  RowsSettle
