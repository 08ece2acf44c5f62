SPECIFICATION Spec
CONSTANTS
  Sides = {"stream", "rest", "paper"}
  MaxEvents = 2
  MaxKeys = 2
  MaxSeen = 1
  MaxDup = 1
  MaxWrong = 1
  GetTries = 2
  Lookups = 2
  MaxQueries = 1
  MaxHeavy = 2
  MaxFaults = 2
  Prices = {3, 6}
  Face = 420
  Lev = 2
  FeeDiv = 10
  MmrDiv = 10
  Slip = 1
  Qty = 2
  Wallet0 = 300
  MaxOpens = 2
  MaxAlgos = 1
  MaxFunding = 1
  MaxRestarts = 1
  MaxTid = 2
INVARIANTS
  ExactlyOnce
  OrderRight
  AccountRight
PROPERTIES
  StreamRecovers
  OnlyReduces
CHECK_DEADLOCK FALSE
