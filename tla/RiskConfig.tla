------------------------------- MODULE RiskConfig -------------------------------
(***************************************************************************)
(* What both programs are configured with for sizing: RiskConfig of        *)
(* src/src/arb/engine.ts and of src/src/predictfun/risk.py, and the fee    *)
(* rates. Amounts and rates are fractions, a rate is a fraction where the  *)
(* code counts basis points. requirePositiveAfterAllBuffers is on, as it   *)
(* is by default.                                                          *)
(***************************************************************************)
EXTENDS Fractions, FiniteSets, Sequences

CONSTANTS
  MinNetProfit,       \* minNetProfitUsd
  MinPredictOrder,    \* minPredictOrderUsdt
  PredictSlippage, PolymarketSlippage, LatencyBuffer,
  TradeFraction,      \* predictMaxTradeFraction
  PerShareCost,       \* gasOrFixedCostPerShare with roundingBufferPerShare
  FixedCosts,         \* fixedCostsUsd
  TradeCaps,          \* perTradeMaxUsd: at most one amount
  PredictFee, PolymarketFee   \* the fee rates of the venues

\* Rates of fees and reserves are not negative (src/src/predictfun/fees.py:45 and 57,
\* src/src/config/schema.ts:168), and no venue's fee is more than all it is charged on.
RiskAssumption ==
  /\ {MinNetProfit, MinPredictOrder, FixedCosts} \subseteq Fraction
  /\ {PredictSlippage, PolymarketSlippage, LatencyBuffer, PerShareCost} \subseteq Amount
  /\ {TradeFraction} \cup TradeCaps \subseteq Amount
  /\ {PredictFee, PolymarketFee} \subseteq {rate \in Amount : AtMost(rate, One)}
  /\ \A cap, other \in TradeCaps : cap = other

ASSUME RiskAssumption

\* The levels <<price, size>> of a book by price, those of one price as they came:
\* what the stable sorts of both programs do. (Joined to nothing, it is a sequence that
\* TLC works out once.)
StablyByPrice(levels) ==
  LET Before(i, j) == \/ Less(levels[i][1], levels[j][1])
                      \/ levels[i][1] = levels[j][1] /\ i < j
      Ahead(i) == {j \in DOMAIN levels : Before(j, i)}
  IN << >> \o [k \in DOMAIN levels |->
                 levels[CHOOSE i \in DOMAIN levels : Cardinality(Ahead(i)) = k - 1]]
=============================================================================
