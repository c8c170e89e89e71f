CONSTANTS
  Signal = {int, term}
  Snapshot <- NoSnapshot
  Example <- AnExample
  PaperLive = TRUE
  MaxPasses = 4
  MaxCuts = 2
  Options <- DeskOptions
  Levels <- DeskLevels
  Spread = {19, 22}
  LevelUsd = 7
  MaxSpread = 20
  MinDepth = 10
  RealWallets <- DeskWallets
  NumWallets = 2
  Address = {"a", "b"}
  Plan = {p, q}
  Configured = {0, 10, 19}
  Amount = {0, 1, 4, 6, 8}
  MaxFractions = 2
  Market = {"m1", "m2", "m3"}
  EventOf <- TwoEvents
  Amounts <- PositionAmounts
  Config <- Configs
  DefaultHedgeConfig <- TheDefaults
  Candidates <- CandidateLists
  MaxPositions = 2
  Probability = {0, 480, 1000}
  BestYes <- MakerBest
  Uncertainty = {0, 40}
  DepthUsd = {1, 3, 9}
  BaseSpread = 18
  MinSpread = 12
  QuoteMaxSpread = 50
  MinEdge = 10
  QuoteMinDepth = 2
  SkewFactor = 30
  MaxOrder = 2
  MaxInventory = 3
  MaxHeld = 6
SPECIFICATION MCSpec
CONSTRAINT Bounds
INVARIANTS LatestIsNewest HistoryIsOfPublished CutCostsTwo LogTellsTrue
INVARIANTS PaperHedgeShrinks FundsAddUp DriftIsBounded
INVARIANTS ExposuresAreSums HedgesReduceExposure InventoryIsBounded
PROPERTIES RecordedStays NeverShowsOlder StopEnds ShownCoversPlan RequotesLean
CHECK_DEADLOCK FALSE
