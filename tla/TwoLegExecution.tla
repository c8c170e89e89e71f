---------------------------- MODULE TwoLegExecution ----------------------------
(***************************************************************************)
(* The Python reference implementation: Coordinator.run_once               *)
(* (src/src/predictfun/coordinator.py), the account its RiskManager        *)
(* reserves from the PredictAccountRotator (accounts.py) and               *)
(* TwoLegExecutor.execute (execution.py), which places the legs of a hedge *)
(* one after the other, polls an order that is delayed, gives up polling   *)
(* after poll_timeout_ms, cancels an open second leg and tries a rescue    *)
(* order.                                                                  *)
(*                                                                         *)
(* The process is one thread: what runs beside it is the venues, where an  *)
(* order it has given up on may still fill, and between two runs whoever   *)
(* calls the rotator.                                                      *)
(*                                                                         *)
(* Abstracted: the coordinator's orders are FOK, so an order fills whole   *)
(* or not at all; "open" is live or unmatched; whether an answer carries   *)
(* an exchange_order_id is chosen where the code asks; sizing decides only *)
(* which available account is taken, and the compliance and funding checks *)
(* of ExecutionGuard.validate only whether the plan is refused.            *)
(***************************************************************************)
EXTENDS Naturals

CONSTANTS NumAccounts,  \* how many Predict accounts are configured
          MaxMatches    \* bound: accepted market pairs of one run

\* The rotator's constructor refuses an empty list and more than ten accounts.
ASSUME ExecutionAssumption == NumAccounts \in 1..10 /\ MaxMatches \in Nat

VARIABLES
  accounts,  \* the rotator's records
  run,       \* run_once with the execute it is in
  leg,       \* what the executor was last told of each order of its plan
  order,     \* venue: the orders of the plan
  stray,     \* venue: an order of an earlier plan may still fill on the account
  position,  \* venue: the account has an unsettled position
  told       \* history: the executor was told of a fill behind the position

vars == <<accounts, run, leg, order, stray, position, told>>

Account == 1..NumAccounts
Venue   == {"PREDICT", "POLYMARKET"}
Slot    == {"first", "second", "rescue"}

AccountState == [status : {"AVAILABLE", "RESERVED", "HELD", "PAUSED"},
                 held   : BOOLEAN,     \* held_position is not None
                 orders : BOOLEAN]     \* open_orders > 0

Resting  == {"done", "paused", "threw"}
Engaged  == {"placing", "polling", "cancelling", "settling"}

Run == {r \in [pc      : Resting \cup Engaged \cup {"scanning"},
               left    : 0..MaxMatches,   \* matches still to come
               account : Account,         \* reserved, while engaged
               first   : Venue,           \* venue of the first leg
               at      : Slot,            \* the order being placed or polled
               dry     : BOOLEAN]         \* dry_run
        : r.pc \in Engaged => r.left > 0}

Reports == {"none", "delayed", "open", "matched", "failed"}

AtWork == {"delayed", "open"}

NoOrders == [s \in Slot |-> "none"]

Fresh(orders) == [status |-> "AVAILABLE", held |-> FALSE, orders |-> orders]

IsAvailable(acc) == acc.status = "AVAILABLE" /\ ~acc.held /\ ~acc.orders

Released(acc) == Fresh(FALSE)

MarkedHeld(acc) == [status |-> "HELD", held |-> TRUE, orders |-> FALSE]

\* _execution_order lets the longer expected_delay_ms go first; the second and
\* the rescue order go to the other venue.
VenueOf(s) ==
  IF s = "first" THEN run.first ELSE CHOOSE v \in Venue : v # run.first

OnPredict(s) == VenueOf(s) = "PREDICT"

\* A restart finds the venue's positions, and records that know nothing of them.
Init ==
  /\ accounts \in [Account -> {Fresh(o) : o \in BOOLEAN}]
  /\ run = [pc |-> "done", left |-> 0, account |-> NumAccounts,
            first |-> "POLYMARKET", at |-> "first", dry |-> FALSE]
  /\ leg = NoOrders
  /\ order = NoOrders
  /\ stray = [a \in Account |-> FALSE]
  /\ position \in [Account -> BOOLEAN]
  /\ told = [a \in Account |-> FALSE]

-----------------------------------------------------------------------------
(* run_once *)

Goto(pc) == run' = [run EXCEPT !.pc = pc]

Begin ==
  /\ run.pc \in Resting
  /\ \E n \in 0..MaxMatches, dry \in BOOLEAN :
       run' = [run EXCEPT !.pc = "scanning", !.left = n, !.dry = dry]
  /\ UNCHANGED <<accounts, leg, order, stray, position, told>>

EndRun ==
  /\ run.pc = "scanning" /\ run.left = 0
  /\ Goto("done")
  /\ UNCHANGED <<accounts, leg, order, stray, position, told>>

\* An adapter raises while the books of a match are fetched.
BooksRaise ==
  /\ run.pc = "scanning" /\ run.left > 0
  /\ Goto("threw")
  /\ UNCHANGED <<accounts, leg, order, stray, position, told>>

\* choose_trade finds nothing executable, or the Polymarket account cannot open.
NoTrade ==
  /\ run.pc = "scanning" /\ run.left > 0
  /\ \/ run' = [run EXCEPT !.left = @ - 1]
     \/ Goto("paused")
  /\ UNCHANGED <<accounts, leg, order, stray, position, told>>

\* validate raises, or accepts the plan for a dry or a live execution.
Validated == {"threw", IF run.dry THEN "settling" ELSE "placing"}

\* choose_trade reserves the first available account for which a size is found.
Choose ==
  /\ run.pc = "scanning" /\ run.left > 0
  /\ \E a \in Account, first \in Venue :
       /\ IsAvailable(accounts[a])
       /\ accounts' = [accounts EXCEPT ![a].status = "RESERVED"]
       /\ \E pc \in Validated :
            run' = [run EXCEPT !.pc = pc, !.account = a, !.first = first, !.at = "first"]
  /\ leg' = NoOrders
  /\ order' = NoOrders
  /\ UNCHANGED <<stray, position, told>>

-----------------------------------------------------------------------------
(* execute *)

\* Mutant: only a failed first leg ends the plan.
ResolvedUnlessFailed(s, result) ==
  run' = CASE s = "first" /\ result # "failed" ->
                [run EXCEPT !.pc = "placing", !.at = "second"]
           [] s = "second" /\ result # "matched" -> [run EXCEPT !.pc = "cancelling"]
           [] OTHER -> [run EXCEPT !.pc = "settling"]

\* What execute does once the order s has the result the executor keeps.
Resolved(s, result) ==
  run' = CASE s = "first" /\ result = "matched" ->
                [run EXCEPT !.pc = "placing", !.at = "second"]
           [] s = "second" /\ result # "matched" -> [run EXCEPT !.pc = "cancelling"]
           [] OTHER -> [run EXCEPT !.pc = "settling"]

\* The executor is told the result of order s.
Hears(s, result) ==
  /\ leg' = [leg EXCEPT ![s] = result]
  /\ told' = [told EXCEPT ![run.account] = @ \/ (result = "matched" /\ OnPredict(s))]

\* Order s fills on the venue.
Filled(s) == [position EXCEPT ![run.account] = @ \/ OnPredict(s)]

\* place_order answers; a delayed order with an id is polled.
Place ==
  /\ run.pc = "placing"
  /\ \E result \in Reports \ {"none"} :
       /\ Hears(run.at, result)
       /\ order' = [order EXCEPT ![run.at] = result]
       /\ position' = IF result = "matched" THEN Filled(run.at) ELSE position
       /\ \/ Resolved(run.at, result)
          \/ result = "delayed" /\ Goto("polling")
  /\ UNCHANGED <<accounts, stray>>

\* Mutant: the deadline is set again on every poll.
PollWithoutDeadline ==
  /\ run.pc = "polling"
  /\ order[run.at] # "delayed"
  /\ Hears(run.at, order[run.at])
  /\ Resolved(run.at, order[run.at])
  /\ UNCHANGED <<accounts, order, stray, position>>

\* get_order answers that the order is no longer delayed, or time is up and the
\* delayed result stands.
Poll ==
  /\ run.pc = "polling"
  /\ \/ /\ order[run.at] # "delayed"
        /\ Hears(run.at, order[run.at])
        /\ Resolved(run.at, order[run.at])
     \/ /\ Resolved(run.at, "delayed")
        /\ UNCHANGED <<leg, told>>
  /\ UNCHANGED <<accounts, order, stray, position>>

\* _cancel_open_if_possible leaves a delayed order alone and asks the venue to
\* cancel an open one, which may have filled meanwhile; then the rescue order is
\* placed unless the quote forbids it.
Cancel ==
  /\ run.pc = "cancelling"
  /\ \/ UNCHANGED order
     \/ /\ leg["second"] = "open" /\ order["second"] = "open"
        /\ order' = [order EXCEPT !["second"] = "failed"]
  /\ \/ run' = [run EXCEPT !.pc = "placing", !.at = "rescue"]
     \/ Goto("settling")
  /\ UNCHANGED <<accounts, leg, stray, position, told>>

\* What the plan leaves at work on the account when the run turns away from it.
StrayAfter == [stray EXCEPT ![run.account] =
                 @ \/ \E s \in Slot : OnPredict(s) /\ order[s] \in AtWork]

\* A call to a venue raises; an order that was to be placed may have arrived.
\* Nothing is held or released.
Raise ==
  /\ run.pc \in {"placing", "polling", "cancelling"}
  /\ Goto("threw")
  /\ stray' = IF run.pc = "placing" /\ OnPredict(run.at)
              THEN [stray EXCEPT ![run.account] = TRUE] ELSE StrayAfter
  /\ leg' = NoOrders
  /\ order' = NoOrders
  /\ UNCHANGED <<accounts, position, told>>

\* Mutant: the rescue order is not among the results.
PredictHeldPositionOfLegs == \E s \in {"first", "second"} : leg[s] = "matched" /\ OnPredict(s)

\* _predict_held_position of the report.
PredictHeldPosition == \E s \in Slot : leg[s] = "matched" /\ OnPredict(s)

\* Mutant: a rescued hedge counts as filled.
PauseOpeningUnlessRescued ==
  ~run.dry /\ ~(leg["first"] = "matched" /\ "matched" \in {leg["second"], leg["rescue"]})

\* pause_opening: every live report except that of two filled legs.
PauseOpening == ~run.dry /\ ~(leg["first"] = "matched" /\ leg["second"] = "matched")

\* _settle_predict_account, then the next match or the end of the run.
Settle ==
  /\ run.pc = "settling"
  /\ accounts' = [accounts EXCEPT ![run.account] =
                    IF PredictHeldPosition THEN MarkedHeld(@) ELSE Released(@)]
  /\ run' = IF PauseOpening THEN [run EXCEPT !.pc = "paused"]
            ELSE [run EXCEPT !.pc = "scanning", !.left = @ - 1]
  /\ stray' = StrayAfter
  /\ leg' = NoOrders
  /\ order' = NoOrders
  /\ UNCHANGED <<position, told>>

-----------------------------------------------------------------------------
(* The venues, and whoever calls the rotator between two runs *)

OrderMoves(s) ==
  /\ order[s] \in AtWork
  /\ \E status \in {"open", "matched", "failed"} \ {order[s]} :
       /\ order' = [order EXCEPT ![s] = status]
       /\ position' = IF status = "matched" THEN Filled(s) ELSE position
  /\ UNCHANGED <<accounts, run, leg, stray, told>>

StrayMoves(a) ==
  /\ stray[a]
  /\ stray' \in {stray, [stray EXCEPT ![a] = FALSE]}
  /\ position' \in {position, [position EXCEPT ![a] = TRUE]}
  /\ UNCHANGED <<accounts, run, leg, order, told>>

\* The position of a held account is redeemed and release_after_redeem called.
Redeem(a) ==
  /\ run.pc \in Resting
  /\ accounts[a].held
  /\ accounts' = [accounts EXCEPT ![a] = Released(@)]
  /\ position' = [position EXCEPT ![a] = FALSE]
  /\ told' = [told EXCEPT ![a] = FALSE]
  /\ UNCHANGED <<run, leg, order, stray>>

Pause(a) ==
  /\ run.pc \in Resting
  /\ accounts' = [accounts EXCEPT ![a].status = "PAUSED"]
  /\ UNCHANGED <<run, leg, order, stray, position, told>>

-----------------------------------------------------------------------------
\* run_once once it has begun, as far as no call raises.
RunOnce == EndRun \/ NoTrade \/ Choose \/ Place \/ Poll \/ Cancel \/ Settle

Venues == \/ \E s \in Slot : OrderMoves(s)
          \/ \E a \in Account : StrayMoves(a)

Next == \/ Begin \/ RunOnce \/ BooksRaise \/ Raise \/ Venues
        \/ \E a \in Account : Redeem(a) \/ Pause(a)

\* The thread goes on: the code sets a deadline for polling, and of a call to a
\* venue it is assumed that it returns if it does not raise.
Spec == Init /\ [][Next]_vars /\ WF_vars(RunOnce)

-----------------------------------------------------------------------------
TypeOK ==
  /\ accounts \in [Account -> AccountState]
  /\ run \in Run
  /\ leg \in [Slot -> Reports]
  /\ order \in [Slot -> Reports]
  /\ stray \in [Account -> BOOLEAN]
  /\ position \in [Account -> BOOLEAN]
  /\ told \in [Account -> BOOLEAN]

On(a) == run.pc \in Engaged /\ run.account = a

\* The account of the plan is reserved, and before it is settled the fills the
\* executor was told of are those of its results.
PlanIsKnown ==
  \A a \in Account :
    On(a) => /\ accounts[a].status = "RESERVED" /\ ~accounts[a].held
             /\ told[a] <=> PredictHeldPosition

\* How far the plan is: an order not yet placed is unknown, the second is placed
\* after the first was told to have filled, the rescue after the second was told
\* not to have.
Stage ==
  /\ run.pc = "placing" => leg[run.at] = "none"
  /\ run.pc = "polling" => leg[run.at] = "delayed"
  /\ run.pc = "cancelling" => leg["rescue"] = "none"
  /\ run.pc \in {"placing", "polling"} /\ run.at = "first"
     => leg["second"] = "none" /\ leg["rescue"] = "none"
  /\ run.pc \in {"placing", "polling"} /\ run.at = "second"
     => leg["first"] = "matched" /\ leg["rescue"] = "none"
  /\ run.pc = "cancelling" \/ (run.pc \in {"placing", "polling"} /\ run.at = "rescue")
     => leg["first"] = "matched" /\ leg["second"] \in {"delayed", "open", "failed"}

\* On the venues the second order exists only if the first has filled, and the
\* rescue order only if the second was given up; a result that is final is what
\* the venue has.
LegsInOrder ==
  /\ order["second"] # "none" => order["first"] = "matched"
  /\ order["rescue"] # "none" => leg["second"] \in {"delayed", "open", "failed"}
  /\ \A s \in Slot : IF leg[s] \in AtWork THEN order[s] # "none" ELSE order[s] = leg[s]

\* A fill the executor was told of, in whichever of its orders, keeps the account
\* from being chosen again until the position is redeemed, also when the run ends
\* in an exception after it.
ToldIsNotAvailable ==
  \A a \in Account : told[a] => ~IsAvailable(accounts[a])

\* The inductive invariant.
SoundExecution == TypeOK /\ PlanIsKnown /\ Stage /\ LegsInOrder /\ ToldIsNotAvailable

\* A run goes on to the next match only after a hedge both of whose orders filled
\* on the venues and which left nothing at work and nothing bought twice; every
\* residual ends in a pause (docs/MVP_LIVE_V1.md:48, "never silent continuation").
NoSilentContinuation ==
  [][run.pc = "settling" /\ ~run.dry /\ run'.pc = "scanning"
     => order = [NoOrders EXCEPT !["first"] = "matched", !["second"] = "matched"]]_vars

\* A run ends, however the venues treat its orders: polling gives up.
RunEnds == run.pc \notin Resting ~> run.pc \in Resting
=============================================================================
