SPECIFICATION MCSpec
CONSTANTS
  i1 = i1
  i2 = i2
  i3 = i3
  Items = {i1, i2, i3}
  RequestedStatus <- MCRequestedStatus
  DirectMode = "LIVE"
  ContinueOnError = TRUE
  MaxDirectBatches = 2
  Rows <- MCRows
  MaxRows = 4
  MinTrades = 3
  LiveTrades = 4
  AdvancedTrades = 3
  SegmentFloor = 2
  SegmentSteps = {4}
  BaseSegments = 2
  TrainTrades = 2
  TestTrades = 1
  StepTrades = 1
  MinWindows = 2
  MinOutOfSample = 2
  RevengeMinutes = 2
  r1 = r1
  r2 = r2
  Readers = {r1, r2}
  Pages = {"history", "home"}
  MaxRewrites = 2
  NextCandles <- MCNextCandles
  Ceiling = 20
  RsiPeriod = 2
  HourBars = 2
  BreakoutBars = 3
  SetupBars = 1
  BiasBars = 2
  MtfBars = 5
  MtfFirst = 4
  Reward = 2
  Budget = 4
  Buffer = 1
  MinBase = 1
  MaxBase = 2
  MaxBasePct = 80
  MaxOverlap = 85
  MinDeparture = 100
  MinImpulse = 60
  MinVolume = 110
  MinScore = 60
  MaxTests = 1
  MaxRetestBars = 2
  CutoffBar = 8
  CooldownBars = 2
  MeanBars = 3
  AtrBars = 3
  ZoneReward = 2
  ZoneBudget = 20
  StopBuffer = 1
  MinReaction = 45
  VolFloor = 1
  WarmUp = 2
  RecentBars = 2
  LookBack = 4
  MinGap = 1
  AmdScore = 62
  AmdCooldown = 2
  AmdDaily = 2
  AmdReward = 2
  AmdBudget = 9
  AmdBuffer = 1
  ScanFrom = 2
  RangeBars = 3
  Stake = 90
  RiskPcts = {5, 10, 11, 20}
  c1 = c1
  c2 = c2
  Callers = {c1, c2}
  Asks <- MCAsks
  Periods = {1, 2}
  RedisTtl = 2
  MaxCall = 1
  Horizon = 3
  MaxAsks = 2
  ResultTtl = 1
  FrameTtl = 1
  StaleAfter = 0
  BreakTime = 2
  MaxRetries = 1
  MaxRequests = 1
  Facts <- MCFacts
  MaxSignals = 3
  RowsSeen <- MCRowsSeen
  MaxFrame = 4
  DayLength = 10
  OpeningBars = 2
  w1 = w1
  w2 = w2
  Writers = {w1, w2}
  Feed <- MCFeed
  MaxOperations = 3
  RawScores <- MCRawScores
  Chops = {0, 6, 7}
  Ratios = {3, 4}
  MaxFlaws = 2
  BookEntries <- MCBookEntries
  MaxBook = 4
  Capital = 100
  a1 = a1
  a2 = a2
  Runs = {a1, a2}
  RunAsks <- MCRunAsks
  MaxAttempts = 3
  MaxRedeliveries = 1
  MaxSeconds = 1
  SeenBars <- MCSeenBars
  MaxSeen = 5
  OpeningWindow = 2
  VolumeWindow = 3
  RangeWindow = 4
  StopWindow = 2
  RetestWindow = 4
  FastPeriod = 2
  SlowPeriod = 4
  Slippage = 2
  Brokerage = 9000
  ListedRows <- MCListedRows
  MaxListed = 4
  Symbols = {"^NSEI", "NIFTY", "RELIANCE", "RIL"}
  Strategy = "BREAKOUT"
INVARIANTS DirectOutcomesHold FiguresAddUp PagesHold RunsStandAlone SignalsAreSound MetricsHold
PROPERTIES GatesHold NothingLooksAhead MarketDataHolds IdentitiesHold
SYMMETRY MCSymmetry
CHECK_DEADLOCK FALSE
