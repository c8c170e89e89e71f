CONSTANTS
  MinNetProfit <- Zero
  MinPredictOrder <- TheMinOrder
  PredictSlippage <- Zero
  PolymarketSlippage <- TheRate
  LatencyBuffer <- Zero
  TradeFraction <- TheFraction
  PerShareCost <- Zero
  FixedCosts <- TheFixedCosts
  TradeCaps <- TheCaps
  PredictFee <- TheFee
  PolymarketFee <- Zero
  NumPurses = 2
  Balances <- TheBalances
  Collaterals <- TheCollaterals
  MarketLevels <- TheLevels
  ThinLevels <- TheThinLevels
  MinShares <- TheMinShares
SPECIFICATION TradeSpec
INVARIANT PoorAccountIsSkipped
