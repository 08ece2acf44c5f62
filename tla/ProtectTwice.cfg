SPECIFICATION Spec
CONSTANTS
  Qty = 2
  NT = 1
  MaxLvl = 0
  MaxTp = 3
  MaxFaults = 0
  MaxRejects = 0
  MaxExternal = 0
  MaxLost = 0
  MaxCrashes = 1
  MaxTroubles = 2
INVARIANTS
  TpOncePerLevel
