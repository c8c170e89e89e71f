---------------------------- MODULE ResidualRescue ----------------------------
(***************************************************************************)
(* rescueResidual (src/src/execution/rescue.ts): what is bought when the   *)
(* legs of a hedge filled unequally.  It is asked again after each rescue  *)
(* order, which may fill in part; meanwhile prices move, accounts come and *)
(* go, and a leg that was given up may still fill.                         *)
(*                                                                         *)
(* External: the venues, the rotator's accounts, and the caller, which     *)
(* adds what a rescue order bought to the result of its venue.  Prices are *)
(* in cents; abstracted: ids, order types and texts.                       *)
(***************************************************************************)
EXTENDS Integers, FiniteSetsExt

CONSTANTS Legs,          \* shares of each leg
          NumRescuers,   \* predict accounts, the first being that of the hedge
          Price,         \* limits a rescue order may need
          Planned,       \* limit of the legs
          MaxLoss,       \* rescue_max_loss_usd
          MaxUnhedged,   \* max_unhedged_seconds
          SafeMethod,    \* rescue_safe_method
          PauseOnResidual

Rescuer == 1..NumRescuers
Original == 1

ASSUME RescueAssumption ==
  /\ Legs \in Nat \ {0}
  /\ NumRescuers \in Nat \ {0}
  /\ Price \subseteq Nat
  /\ {Planned, MaxLoss, MaxUnhedged} \subseteq Nat
  /\ SafeMethod \in {"PAUSE_ONLY", "POLYMARKET_OFFSET"}
  /\ PauseOnResidual \in BOOLEAN

VARIABLES bought,    \* shares bought on each venue
          rescue,    \* the last decision, with what is left of its order
          unhedged,  \* seconds since the residual was first seen
          late       \* history: a leg filled after the last decision

rescueVars == <<bought, rescue, unhedged, late>>

Residual == bought.predict - bought.polymarket
ResidualShares == IF Residual < 0 THEN -Residual ELSE Residual

Decision(action, venue, shares, account, pause) ==
  [action |-> action, venue |-> venue, shares |-> shares, account |-> account, pause |-> pause]

NoOrder(action, pause) == Decision(action, "none", 0, Original, pause)

RescueLoss(price) == ResidualShares * Max({0, price - Planned})

\* nextReadyPredictAccount: the first READY one behind the last that was used.
NextReady(ready, lastUsed) ==
  LET others == ready \ {Original}
      behind == {a \in others : a > lastUsed}
  IN IF others = {} THEN Original ELSE IF behind = {} THEN Min(others) ELSE Min(behind)

\* Mutant: the whole leg is bought, not the residual.
BuysLeg(venue, account) ==
  Decision("BUY", venue, Legs, account, FALSE)

Buys(venue, account) ==
  Decision("BUY", venue, ResidualShares, account, FALSE)

\* Mutant: without an account to rescue with, nothing is done.
WithoutAccountIgnored == NoOrder("NONE", FALSE)

WithoutAccount ==
  IF SafeMethod = "POLYMARKET_OFFSET" THEN NoOrder("SAFE_METHOD_REQUIRED", PauseOnResidual)
  ELSE NoOrder("PAUSE", TRUE)

RescueResidual(price, ready, lastUsed) ==
  CASE Residual = 0                       -> NoOrder("NONE", FALSE)
    [] Residual # 0 /\ (unhedged > MaxUnhedged \/ RescueLoss(price) > MaxLoss)
                                          -> NoOrder("PAUSE", TRUE)
    [] OTHER -> IF Residual > 0 THEN Buys("polymarket", Original)
                ELSE IF NextReady(ready, lastUsed) = Original THEN WithoutAccount
                ELSE Buys("predict", NextReady(ready, lastUsed))

\* The caller asks while no rescue order is at work and nothing has paused it.
Decide == \E price \in Price, ready \in SUBSET Rescuer, lastUsed \in Rescuer :
            /\ rescue.shares = 0
            /\ ~rescue.pause
            /\ rescue' = RescueResidual(price, ready, lastUsed)
            /\ late' = FALSE
            /\ UNCHANGED <<bought, unhedged>>

\* The rescue order buys some of its shares, or none, and the rest is given up.
RescueFills == /\ rescue.shares > 0
               /\ \E x \in 0..rescue.shares :
                    bought' = [bought EXCEPT ![rescue.venue] = @ + x]
               /\ rescue' = [rescue EXCEPT !.shares = 0]
               /\ UNCHANGED <<unhedged, late>>

\* A leg that was counted as over buys more of its shares (bound: never more than
\* the shares of a leg).
LegFills(v) == /\ bought[v] < Legs
               /\ bought' = [bought EXCEPT ![v] = @ + 1]
               /\ late' = TRUE
               /\ UNCHANGED <<rescue, unhedged>>

Tick == /\ unhedged <= MaxUnhedged
        /\ unhedged' = unhedged + 1
        /\ UNCHANGED <<bought, rescue, late>>

\* Results are handled, then the next hedge is opened.
NextHedge == /\ rescue.shares = 0
             /\ rescue.pause \/ rescue.action = "NONE"
             /\ bought' \in [{"predict", "polymarket"} -> 0..Legs]
             /\ rescue' = NoOrder("OPEN", FALSE)
             /\ unhedged' = 0
             /\ late' = FALSE

RescueInit == /\ bought \in [{"predict", "polymarket"} -> 0..Legs]
              /\ rescue = NoOrder("OPEN", FALSE)
              /\ unhedged = 0
              /\ late = FALSE

RescueNext == \/ Decide \/ RescueFills \/ Tick \/ NextHedge
              \/ \E v \in {"predict", "polymarket"} : LegFills(v)

RescueSpec == RescueInit /\ [][RescueNext]_rescueVars

-----------------------------------------------------------------------------
(* Properties *)

\* A rescue order never makes the exposure larger or turns it round, unless a leg
\* that was counted as over has filled since the decision: rescueResidual looks at
\* the shares of a result and not at its status.
RescueNarrows ==
  [][rescue.shares > 0 /\ rescue'.shares = 0 /\ ~late =>
       /\ ResidualShares' <= ResidualShares
       /\ Residual > 0 => Residual' >= 0
       /\ Residual < 0 => Residual' <= 0]_rescueVars

\* A rescue order buys on the side that is behind and, on Predict, with another
\* account than the one whose leg failed; an exposure is answered with an order, a
\* pause, or the demand for the configured method (docs/MVP_LIVE_V1.md:48).
ResidualIsAnswered ==
  [][rescue' # rescue /\ rescue'.action \notin {"OPEN"} /\ rescue.shares = 0 /\ Residual # 0 =>
       \/ rescue'.pause
       \/ rescue'.action = "SAFE_METHOD_REQUIRED"
       \/ /\ rescue'.shares = ResidualShares
          /\ rescue'.venue = IF Residual > 0 THEN "polymarket" ELSE "predict"
          /\ rescue'.venue = "predict" => rescue'.account # Original]_rescueVars
================================================================================
