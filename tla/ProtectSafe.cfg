SPECIFICATION Spec
CONSTANTS
  Qty = 2
  NT = 1
  MaxLvl = 1
  MaxTp = 3
  MaxFaults = 2
  MaxRejects = 1
  MaxExternal = 1
  MaxLost = 1
  MaxCrashes = 1
  MaxTroubles = 2
INVARIANTS
  Covered
  TpOnceUndisturbed
PROPERTIES
  LegalMoves
  StopNeverWorse
