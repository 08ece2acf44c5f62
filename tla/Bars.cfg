SPECIFICATION Spec
CONSTANTS
  Parts = {"loop", "paper", "backtest", "sizing", "limit", "recorder"}
  Period = 3
  Delay = 1
  Cap = 2
  Valid = 1
  MaxBars = 3
  MaxBetter = 1
  MaxWoes = 1
  Shapes <- FiveShapes
  Signals <- TwoSignals
  ExitModes = {"zone", "split", "ladder", "three_bar"}
  Pad = 1
  Alive = 2
  Longest = 3
  Window = 2
  LastBar = 4
  MaxKills = 1
  MaxBlind = 1
  Unit = 2
  Ticks = 5
  Height = 2
  Buf = 1
  MinReward = 1
  MinRisk = 4
  MaxRisk = 4
  Variants = {"ladder", "ladder_ratchet", "zone", "split", "three_bar"}
  Zones = {1, 3, 9, 11, 13}
  Quantities = {0, 3}
  Basis = {0, 2}
  ValidBars = 2
  HoldBars = 4
  Size = 200
  Risk = 1
  RiskOf = 4
  Fee = 1
  FeeOf = 50
  Mmr = 1
  MmrOf = 10
  Slip = 1
  SlipOf = 20
  Exposure = 2
  Ratio = 2
  Equities = {0, 3, 10}
  Avails = {1, 4, 10}
  Quotes = {9, 10, 11, 14, 18}
  Leverages = {1, 3}
  Steps = {1, 2}
  Mins = {1, 3}
  Maxs = {5, 9}
  Worths = {0, 94, 96, 100, 110}
  LossPct = 5
  MaxDays = 2
  MaxRestarts = 1
  Tape <- ThreeTicks
  MaxDay = 2
  Columns = {"c1", "c2"}
  Retention = 2
  Horizon = 2
  Barrier = 1
  MaxStarts = 1
  MaxErrs = 1
INVARIANTS
  BarsRight
  ResultsRight
  BacktestRight
  GreatestAllowed
  LimitHolds
  RecordKept
PROPERTIES
  InTime
CHECK_DEADLOCK FALSE
