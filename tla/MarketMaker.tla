------------------------------ MODULE MarketMaker ------------------------------
(***************************************************************************)
(* SimpleMarketMakerStrategy (src/src/strategy/simple-market-maker.ts) and *)
(* the inventory of whoever follows its quotes: each evaluation replaces   *)
(* the quotes of the last, and the market fills what is quoted in any      *)
(* parts and any order between two evaluations.                            *)
(*                                                                         *)
(* Prices are in thousandths of a dollar.  External: the market with its   *)
(* fills, the Monte Carlo estimate.  Abstracted: malformed numbers, which  *)
(* throw and are answered like a rejection; texts and diagnostics.         *)
(***************************************************************************)
EXTENDS Integers, FiniteSetsExt

CONSTANTS Probability,    \* estimates of the model
          BestYes,        \* best bid and ask of YES: pairs
          Uncertainty,    \* widening of the spread by confidence interval and buffers
          DepthUsd,       \* depths of the market
          BaseSpread, MinSpread, QuoteMaxSpread, MinEdge, QuoteMinDepth, SkewFactor,
          MaxOrder, MaxInventory,
          MaxHeld         \* bound: dollars of one outcome held

ASSUME MakerAssumption ==
  /\ Probability \subseteq 0..1000
  /\ BestYes \subseteq (0..1000) \X (0..1000)
  /\ Uncertainty \subseteq Nat
  /\ DepthUsd \subseteq Nat
  /\ {BaseSpread, MinSpread, QuoteMaxSpread, QuoteMinDepth, SkewFactor, MaxOrder, MaxInventory}
       \subseteq Nat \ {0}
  /\ {MinEdge, MaxHeld} \subseteq Nat
  /\ SkewFactor % MaxInventory = 0  \* so that the skew is a whole number

VARIABLES inventory,  \* dollars of YES and of NO bought
          quotes,     \* what is left of the quotes of the last evaluation
          prices,     \* bids of the last evaluation that was not rejected
          basis       \* what it computed them from: quoteCenter, quoteSpread, netYesUsd

makerVars == <<inventory, quotes, prices, basis>>

NoBasis == <<>>

NetYes == inventory.yes - inventory.no

Limit(x, low, high) == IF x < low THEN low ELSE IF x > high THEN high ELSE x
ClampPrice(x) == Limit(x, 1, 999)

NoQuotes == [yes |-> 0, no |-> 0]

\* How far a difference of the outcomes held moves the center.
Skew(net) == net * (SkewFactor \div MaxInventory)

\* Mutant: the sign of the skew is lost, and inventory attracts more of its kind.
SkewedAway(center) == Limit(center + Skew(NetYes), 0, 1000)

Skewed(center) == Limit(center - Skew(NetYes), 0, 1000)

\* Mutant: the outcome that stands at the cap is quoted once more.
BeyondCap == [yes |-> NetYes > MaxInventory, no |-> NetYes < -MaxInventory]

AtCap == [yes |-> NetYes >= MaxInventory, no |-> NetYes <= -MaxInventory]

AskYes(bid, center, spread) == ClampPrice(Max({bid + MinEdge, center + spread \div 2}))

\* The two bids of an evaluation.
Bids(skewed, spread) ==
  LET yes == ClampPrice(skewed - spread \div 2)
  IN [yes |-> yes, no |-> ClampPrice(1000 - AskYes(yes, skewed, spread))]

\* The orders of a signal: none without the locked edge, none beyond a cap.
Quotes(bids, size) ==
  IF 1000 - bids.yes - bids.no < MinEdge THEN NoQuotes
  ELSE [yes |-> IF AtCap.yes THEN 0 ELSE size,
        no  |-> IF AtCap.no THEN 0 ELSE size]

\* validateInputs rejects: the market is too thin, crossed, too wide, stale or too
\* close to its expiry, or the strategy is disabled.
Reject == /\ quotes' = NoQuotes
          /\ UNCHANGED <<inventory, prices, basis>>

\* buildSimpleMarketMakerSignal; the center lies between the estimate and the middle
\* of the observed prices, as the weight of the model has it.
Evaluate ==
  \E probability \in Probability, best \in BestYes, wider \in Uncertainty, depth \in DepthUsd :
    LET mid == (best[1] + best[2]) \div 2 IN
      /\ best[2] > best[1]
      /\ best[2] - best[1] <= QuoteMaxSpread
      /\ depth >= QuoteMinDepth
      /\ \E center \in {probability, mid, (probability + mid) \div 2} :
           LET spread == Limit(BaseSpread + wider, MinSpread, QuoteMaxSpread) IN
             /\ prices' = Bids(Skewed(center), spread)
             /\ quotes' = Quotes(prices', Min({MaxOrder, depth}))
             /\ basis' = [center |-> center, spread |-> spread, net |-> NetYes]
      /\ UNCHANGED inventory

\* The market buys from a quote at its price.
Fill(outcome) ==
  \E x \in 1..quotes[outcome] :
    /\ inventory[outcome] + x <= MaxHeld
    /\ inventory' = [inventory EXCEPT ![outcome] = @ + x]
    /\ quotes' = [quotes EXCEPT ![outcome] = @ - x]
    /\ UNCHANGED <<prices, basis>>

MakerInit == /\ inventory = [yes |-> 0, no |-> 0]
             /\ quotes = NoQuotes
             /\ prices = NoQuotes
             /\ basis = NoBasis

MakerNext == Reject \/ Evaluate \/ Fill("yes") \/ Fill("no")

MakerSpec == MakerInit /\ [][MakerNext]_makerVars

-----------------------------------------------------------------------------
(* Properties *)

\* Whoever follows the quotes holds at most one order more of an outcome than the
\* cap on the difference allows, however the quotes are filled between evaluations
\* (the size of an order is not limited to what is left below the cap).
InventoryIsBounded ==
  /\ NetYes + quotes.yes < MaxInventory + MaxOrder
  /\ NetYes - quotes.no > -(MaxInventory + MaxOrder)

\* Evaluation after evaluation, while the market and the estimate stand still, the
\* quotes lean against what was filled since: the outcome bought is never bid for
\* higher, the other never lower, and neither moves by more than the skew of what was
\* bought, wherever the three clamps and the least edge cut in (lines 121-135).  So a
\* pair bought across requotes gives up no more of the edge than that skew.
RequotesLean ==
  [][basis # NoBasis /\ basis'.center = basis.center /\ basis'.spread = basis.spread =>
       LET bought == basis'.net - basis.net IN
         /\ bought >= 0 => /\ prices.yes - prices'.yes \in 0..Skew(bought)
                           /\ prices'.no - prices.no \in 0..Skew(bought)
         /\ bought <= 0 => /\ prices'.yes - prices.yes \in 0..Skew(-bought)
                           /\ prices.no - prices'.no \in 0..Skew(-bought)
    ]_makerVars
================================================================================
