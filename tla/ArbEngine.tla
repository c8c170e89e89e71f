------------------------------- MODULE ArbEngine -------------------------------
(***************************************************************************)
(* ArbEngine.sizeCombo (src/src/arb/engine.ts) with the order book it      *)
(* walks (OrderBook of src/src/domain/models.ts): how many shares of the   *)
(* two legs of a hedge the TypeScript bot buys.                            *)
(*                                                                         *)
(* A level is <<price, size>>, a book the sequence of its asks.            *)
(***************************************************************************)
EXTENDS RiskConfig, Sequences, SequencesExt

PriceOf(level) == level[1]
SizeOf(level)  == level[2]

\* Mutant: the asks stay as they came.
UnsortedAsks(asks) == asks

\* The constructor sorts the asks by price, and keeps the order of equal ones.
SortedAsks(asks) == StablyByPrice(asks)

EstimateBuy(asks, shares) ==
  LET Taking(fill, price, take) ==
        [left   |-> Sub(fill.left, take),
         filled |-> Add(fill.filled, take),
         gross  |-> Add(fill.gross, Mul(take, price))]
      Take(fill, level) ==
        Taking(fill, PriceOf(level), Smaller(fill.left, SizeOf(level)))
  IN FoldLeft(Take, [left |-> shares, filled |-> Zero, gross |-> Zero], asks)

BinaryTakerFee(shares, price, rate) ==
  Mul(Mul(shares, Smaller(price, Sub(One, price))), rate)

AveragePrice(fill) ==
  IF fill.filled = Zero THEN Zero ELSE Div(fill.gross, fill.filled)

\* The latency and slippage reserves are both a share of the gross cost.
TotalCost(fill, fee, slippage) ==
  Add(Add(fill.gross, BinaryTakerFee(fill.filled, AveragePrice(fill), fee)),
      Mul(fill.gross, Add(slippage, LatencyBuffer)))

LegQuote(asks, shares, fee, slippage) ==
  LET Costed(fill, total) ==
        [gross |-> fill.gross, total |-> total, complete |-> fill.filled = shares,
         price |-> IF fill.filled = Zero THEN Zero ELSE Div(total, fill.filled)]
      Filled(fill) == Costed(fill, TotalCost(fill, fee, slippage))
  IN Filled(EstimateBuy(asks, shares))

EvaluateCombo(predictAsks, polymarketAsks, shares) ==
  LET Profit(netCost) == Sub(Mul(shares, Sub(One, netCost)), FixedCosts)
      Judged(predict, polymarket, netCost, profit) ==
        [shares |-> shares, predict |-> predict, polymarket |-> polymarket,
         netCost |-> netCost, profit |-> profit,
         executable |-> /\ predict.complete /\ polymarket.complete
                        /\ AtMost(MinPredictOrder, predict.gross)
                        /\ Less(netCost, One)
                        /\ Less(MinNetProfit, profit)]
      Costed(predict, polymarket, netCost) ==
        Judged(predict, polymarket, netCost, Profit(netCost))
      Quoted(predict, polymarket) ==
        Costed(predict, polymarket,
               Div(Add(Add(predict.total, polymarket.total), Mul(PerShareCost, shares)),
                   shares))
  IN Quoted(LegQuote(predictAsks, shares, PredictFee, PredictSlippage),
            LegQuote(polymarketAsks, shares, PolymarketFee, PolymarketSlippage))

\* The sizes at which a level of either book is used up.
PairedBreakpoints(predictAsks, polymarketAsks) ==
  LET SizeAt(asks, i) == IF i \in DOMAIN asks THEN SizeOf(asks[i]) ELSE Zero
      Walked(at, take) ==
        LET sum == Add(at.sum, take)
            predictDone    == take = at.predict
            polymarketDone == take = at.polymarket
        IN [i |-> IF predictDone THEN at.i + 1 ELSE at.i,
            j |-> IF polymarketDone THEN at.j + 1 ELSE at.j,
            predict |-> IF predictDone THEN SizeAt(predictAsks, at.i + 1)
                        ELSE Sub(at.predict, take),
            polymarket |-> IF polymarketDone THEN SizeAt(polymarketAsks, at.j + 1)
                           ELSE Sub(at.polymarket, take),
            sum |-> sum,
            points |-> IF take = Zero THEN at.points ELSE Append(at.points, sum)]
      Walk(at, step) ==
        IF at.i > Len(predictAsks) \/ at.j > Len(polymarketAsks) THEN at
        ELSE Walked(at, Smaller(at.predict, at.polymarket))
  IN FoldLeft(Walk, [i |-> 1, j |-> 1, predict |-> SizeAt(predictAsks, 1),
                     polymarket |-> SizeAt(polymarketAsks, 1),
                     sum |-> Zero, points |-> << >>],
              [k \in 1..(Len(predictAsks) + Len(polymarketAsks)) |-> k]).points

\* Mutant: the first of them whose quote is executable.
ProfitableDepthFirst(predictAsks, polymarketAsks) ==
  LET First(best, shares) ==
        IF best = Zero /\ EvaluateCombo(predictAsks, polymarketAsks, shares).executable
        THEN shares ELSE best
  IN FoldLeft(First, Zero, PairedBreakpoints(predictAsks, polymarketAsks))

\* The largest of them whose quote is executable, whatever the smaller ones say.
ProfitableDepth(predictAsks, polymarketAsks) ==
  LET Deeper(best, shares) ==
        IF EvaluateCombo(predictAsks, polymarketAsks, shares).executable
        THEN shares ELSE best
  IN FoldLeft(Deeper, Zero, PairedBreakpoints(predictAsks, polymarketAsks))

\* Each budget over the price per share that the quote of the whole depth has.
Candidates(depth, quote, balance, collateral) ==
  {depth, Div(Mul(balance, TradeFraction), quote.predict.price),
   Div(collateral, quote.polymarket.price)}
    \cup {Div(cap, quote.netCost) : cap \in TradeCaps}

\* estimateBuy throws when the budgets leave no share to buy.
SizeCombo(predictAsks, polymarketAsks, balance, collateral) ==
  LET Judged(quote) == [result |-> IF quote.executable THEN "sized" ELSE "rejected",
                        quote  |-> quote]
      Sized(shares) == IF shares = Zero THEN [result |-> "threw"]
                       ELSE Judged(EvaluateCombo(predictAsks, polymarketAsks, shares))
      Within(depth) ==
        IF depth = Zero THEN [result |-> "rejected"]
        ELSE Sized(Least(Candidates(depth, EvaluateCombo(predictAsks, polymarketAsks, depth),
                                    balance, collateral)))
  IN Within(ProfitableDepth(predictAsks, polymarketAsks))
=============================================================================
