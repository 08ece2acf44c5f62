SPECIFICATION Spec
CONSTANTS
  Sides = {"pipe", "gate", "baseline", "candles", "universe", "tickers", "watchdog"}
  Cooling = 2
  Patience = 1
  EquityEvery = 1
  LlmEvery = 2
  MaxPend = 1
  MaxTrips = 2
  MaxGaps = 1
  MaxHalts = 2
  MaxSlips = 1
  MaxSpent = 2
  Lives = {"l1", "l2"}
  Rules = {"r1", "r2"}
  RefreshDays = 1
  MaxAge = 1
  MaxRestarts = 1
  MaxMisses = 1
  MaxHand = 1
  Gaps = {0, 1, 4}
  Levels = 5
  GapMultiple = 3
  Floor = 1
  Margin = 0
  Persist = 2
  Warmup = 2
  Keep = 3
  MaxOld = 1
  MaxBirths = 2
  MaxSaves = 2
  MaxLooks = 4
  Bar = 10
  Grace = 1
  Extra = 1
  MinRefetch = 2
  Scan = 1
  Latency = 2
  MaxTime = 33
  MaxDeaf = 1
  Markets = 4
  TopN = 1
  Chunk = 1
  Alts = {"x", "y"}
  MaxTrades = 3
  MaxCuts = 1
  Checks = {"x", "y"}
  Quiet = 3
  MaxMute = 1
  MaxLosses = 1
INVARIANTS
  PipelineSafe
  EvidenceHolds
  BaselineRight
  FeedRight
  SubscriptionRight
PROPERTIES
  TicksRight
  AlertsRight
CHECK_DEADLOCK FALSE
