----------------------------- MODULE PythonSizing -----------------------------
(***************************************************************************)
(* The reference implementation of sizing: QuoteEvaluator                  *)
(* .size_buy_complement (src/src/predictfun/risk.py) with fees.py and the  *)
(* order book of models.py. A level is <<price, size>>, a book the         *)
(* sequence of its asks.                                                   *)
(***************************************************************************)
EXTENDS RiskConfig, Sequences, SequencesExt

sorted_asks(asks) == StablyByPrice(asks)

\* The shares on offer in the levels before the i-th.
shares_before(asks, i) ==
  FoldLeft(LAMBDA sum, level : Add(sum, level[2]), Zero, SubSeq(asks, 1, i - 1))

\* What estimate_buy takes of the i-th level: what is left of the order, up to
\* the size of the level.
taken(asks, i, shares) ==
  LET Take(left) == IF Less(left, Zero) THEN Zero ELSE Smaller(left, asks[i][2])
  IN Take(Sub(shares, shares_before(asks, i)))

filled_shares(asks, shares) ==
  Smaller(shares, shares_before(asks, Len(asks) + 1))

gross_cost(asks, shares) ==
  FoldLeft(LAMBDA cost, i : Add(cost, Mul(asks[i][1], taken(asks, i, shares))), Zero,
           [i \in DOMAIN asks |-> i])

binary_market_taker_fee(shares, price, rate) ==
  Mul(Mul(shares, Smaller(price, Sub(One, price))), rate)

reserve_bps(amount, rate) == Mul(amount, rate)

\* LegQuote, of the shares an order of this size gets.
leg_quote(asks, shares, fee_rate, slippage) ==
  LET price(filled, gross) == IF filled = Zero THEN Zero ELSE Div(gross, filled)
      quote(filled, gross) ==
        [filled     |-> filled,
         gross_cost |-> gross,
         fee        |-> binary_market_taker_fee(filled, price(filled, gross), fee_rate),
         slippage   |-> reserve_bps(gross, slippage),
         latency    |-> reserve_bps(gross, LatencyBuffer),
         complete   |-> filled = shares]
  IN quote(filled_shares(asks, shares), gross_cost(asks, shares))

total_cost(leg) == Add(Add(leg.gross_cost, leg.fee), Add(leg.slippage, leg.latency))

effective_price(leg) == IF leg.filled = Zero THEN Zero ELSE Div(total_cost(leg), leg.filled)

evaluate_buy_complement(predict_asks, poly_asks, shares) ==
  LET judge(predict, poly, net_cost, net_profit) ==
        [shares |-> shares, predict_leg |-> predict, polymarket_leg |-> poly,
         net_cost_per_share |-> net_cost, net_profit |-> net_profit,
         executable |-> /\ predict.complete /\ poly.complete
                        /\ ~Less(predict.gross_cost, MinPredictOrder)
                        /\ Less(net_cost, One)
                        /\ Less(MinNetProfit, net_profit)]
      cost(predict, poly, variable) ==
        judge(predict, poly, Div(variable, shares), Sub(Sub(shares, variable), FixedCosts))
      legs(predict, poly) ==
        cost(predict, poly, Add(Add(total_cost(predict), total_cost(poly)),
                                Mul(PerShareCost, shares)))
  IN legs(leg_quote(predict_asks, shares, PredictFee, PredictSlippage),
          leg_quote(poly_asks, shares, PolymarketFee, PolymarketSlippage))

\* The walk over both books stops at each size where a level of either is used
\* up, as long as both have shares left.
paired_depth_breakpoints(predict_asks, poly_asks) ==
  LET ends(asks) == {shares_before(asks, i) : i \in 2..(Len(asks) + 1)}
  IN {s \in ends(predict_asks) \cup ends(poly_asks) :
        /\ Less(Zero, s)
        /\ AtMost(s, shares_before(predict_asks, Len(predict_asks) + 1))
        /\ AtMost(s, shares_before(poly_asks, Len(poly_asks) + 1))}

profitable_orderbook_depth(predict_asks, poly_asks) ==
  LET largest(S) == IF S = {} THEN Zero ELSE CHOOSE s \in S : \A t \in S : AtMost(t, s)
  IN largest({s \in paired_depth_breakpoints(predict_asks, poly_asks) :
                evaluate_buy_complement(predict_asks, poly_asks, s).executable})

shares_from_notional(notional, price) ==
  IF AtMost(notional, Zero) \/ AtMost(price, Zero) THEN Zero ELSE Div(notional, price)

\* choose_trade passes one of the venue constraints, the smallest order of
\* Polymarket, which refuses a size and never changes one.
size_buy_complement(predict_asks, poly_asks, balance, collateral, min_shares) ==
  LET sizes(depth, quote) ==
        {depth,
         shares_from_notional(Mul(balance, TradeFraction), effective_price(quote.predict_leg)),
         shares_from_notional(collateral, effective_price(quote.polymarket_leg))}
          \cup {shares_from_notional(cap, quote.net_cost_per_share) : cap \in TradeCaps}
      judge(quote) ==
        [result |-> IF quote.executable /\ AtMost(min_shares, quote.shares)
                    THEN "sized" ELSE "rejected",
         quote  |-> quote]
      size(shares) ==
        IF shares = Zero THEN [result |-> "rejected"]
        ELSE judge(evaluate_buy_complement(predict_asks, poly_asks, shares))
      within(depth) ==
        IF depth = Zero THEN [result |-> "rejected"]
        ELSE size(Least(sizes(depth, evaluate_buy_complement(predict_asks, poly_asks, depth))))
  IN within(profitable_orderbook_depth(predict_asks, poly_asks))
=============================================================================
