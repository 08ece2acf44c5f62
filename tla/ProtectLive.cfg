SPECIFICATION FairSpec
CONSTANTS
  Qty = 1
  NT = 1
  MaxLvl = 0
  MaxTp = 8
  MaxFaults = 1
  MaxRejects = 1
  MaxExternal = 1
  MaxLost = 0
  MaxCrashes = 1
  MaxTroubles = 2
PROPERTIES
  PositionGetsGuarded
  FlatGetsClosed
  TargetsComeBack
