CONSTANTS
  NumAccounts = 2
  MaxMatches = 2
  MinNetProfit <- Zero
  MinPredictOrder <- TheMinOrder
  PredictSlippage <- Zero
  PolymarketSlippage <- TheRate
  LatencyBuffer <- Zero
  TradeFraction <- TheFraction
  PerShareCost <- Zero
  FixedCosts <- TheFixedCosts
  TradeCaps <- TheCaps
  PredictFee <- TheFee
  PolymarketFee <- Zero
  NumPurses = 2
  Balances <- TheBalances
  Collaterals <- TheCollaterals
  MarketLevels <- TheLevels
  ThinLevels <- TheThinLevels
  MinShares <- TheMinShares
  Hour = 2
  MinToClose = 1
  Lookahead = 2
  Allowed <- TheAllowed
  StaleBook = 1
  Pairs <- ThePairs
  Horizon = 3
  Capacity = 3
  Refill = 1
  Requests = {1, 2, 4}
  LastMoment = 3
  MaxGranted = 9
  MaxPassed = 6
SPECIFICATION MCSpec
CONSTRAINT Bounds
INVARIANTS SoundExecution ToldIsNotAvailable WithinBudgets BotsAgree HedgePaysOne NeverOverspends
PROPERTIES NoSilentContinuation RunEnds
