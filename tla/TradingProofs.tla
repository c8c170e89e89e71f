----------------------------- MODULE TradingProofs -----------------------------
(* Proofs about the trading path: the Python bot's two legs, for any number  *)
(* of accounts and matches and whatever the venues do with an order; the     *)
(* matching of markets, for whatever honest listings the venues have; and    *)
(* the choice of a trade, for any books, balances and configuration: what it *)
(* may cost, and that both programs make the same one. The last rests on the *)
(* arithmetic of fractions in lowest terms, proved here from Euclid's        *)
(* algorithm up.                                                             *)
EXTENDS TwoLegExecution, MarketMatching, TradeChoice, FiniteSetTheorems,
        WellFoundedInduction, TLAPS

-----------------------------------------------------------------------------
(* Types                                                                     *)

LEMMA InitType == Init => TypeOK
<1> SUFFICES ASSUME Init PROVE TypeOK OBVIOUS
<1>1. accounts \in [Account -> AccountState]
  <2>1. \A o \in BOOLEAN : Fresh(o) \in AccountState BY DEF Fresh, AccountState
  <2> QED BY <2>1 DEF Init
<1>2. run \in Run
  BY ExecutionAssumption DEF Init, Account, Run, Resting, Engaged, Venue, Slot
<1>3. NoOrders \in [Slot -> Reports] BY DEF NoOrders, Reports
<1> QED BY <1>1, <1>2, <1>3 DEF Init, TypeOK

LEMMA HeardType ==
  ASSUME TypeOK, NEW s \in Slot, NEW result \in Reports, Hears(s, result)
  PROVE  leg' \in [Slot -> Reports] /\ told' \in [Account -> BOOLEAN]
BY DEF Hears, TypeOK, OnPredict

LEMMA ResolvedType ==
  ASSUME TypeOK, run.pc \in Engaged, NEW s \in Slot, NEW result \in Reports,
         Resolved(s, result)
  PROVE  run' \in Run
BY DEF Resolved, TypeOK, Run, Resting, Engaged, Slot

LEMMA GotoType ==
  ASSUME TypeOK, NEW pc \in Resting \cup Engaged \cup {"scanning"},
         pc \in Engaged => run.left > 0, Goto(pc)
  PROVE  run' \in Run
BY DEF Goto, TypeOK, Run

LEMMA FilledType ==
  ASSUME TypeOK, NEW s \in Slot
  PROVE  Filled(s) \in [Account -> BOOLEAN]
BY DEF Filled, TypeOK, OnPredict

LEMMA StrayType == TypeOK => StrayAfter \in [Account -> BOOLEAN]
BY DEF StrayAfter, TypeOK, OnPredict

LEMMA TypeStep == TypeOK /\ [Next]_vars => TypeOK'
<1> SUFFICES ASSUME TypeOK, [Next]_vars PROVE TypeOK' OBVIOUS
<1> USE DEF TypeOK
<1>0. /\ run.account \in Account /\ run.at \in Slot /\ run.first \in Venue
      /\ run.dry \in BOOLEAN /\ run.left \in 0..MaxMatches
      /\ run.pc \in Engaged => run.left > 0
      /\ NoOrders \in [Slot -> Reports]
  BY DEF Run, NoOrders, Reports
<1>1. CASE Begin
  BY <1>0, <1>1 DEF Begin, Run, Resting, Engaged
<1>2. CASE EndRun
  BY <1>2, GotoType DEF EndRun, Resting, Engaged
<1>3. CASE BooksRaise
  BY <1>3, GotoType DEF BooksRaise, Resting, Engaged
<1>4. CASE NoTrade
  <2>1. CASE run' = [run EXCEPT !.left = @ - 1]
    <3>1. run.left - 1 \in 0..MaxMatches
      BY <1>0, <1>4, ExecutionAssumption DEF NoTrade
    <3> QED BY <1>4, <2>1, <3>1 DEF NoTrade, Run, Engaged
  <2>2. CASE Goto("paused") BY <1>4, <2>2, GotoType DEF NoTrade, Resting, Engaged
  <2> QED BY <1>4, <2>1, <2>2 DEF NoTrade
<1>5. CASE Choose
  <2>1. PICK a \in Account, first \in Venue :
          /\ accounts' = [accounts EXCEPT ![a].status = "RESERVED"]
          /\ \E pc \in {"threw", IF run.dry THEN "settling" ELSE "placing"} :
               run' = [run EXCEPT !.pc = pc, !.account = a, !.first = first, !.at = "first"]
    BY <1>5 DEF Choose, Validated
  <2>2. accounts' \in [Account -> AccountState] BY <2>1 DEF AccountState
  <2>3. PICK pc \in {"threw", "settling", "placing"} :
          run' = [run EXCEPT !.pc = pc, !.account = a, !.first = first, !.at = "first"]
    BY <2>1
  <2>4. run.left > 0 BY <1>5 DEF Choose, Validated
  <2>5. run' \in Run BY <1>0, <2>3, <2>4 DEF Run, Resting, Engaged, Slot
  <2> QED BY <1>0, <1>5, <2>2, <2>5 DEF Choose, Validated
<1>6. CASE Place
  <2>1. PICK result \in Reports \ {"none"} :
          /\ Hears(run.at, result)
          /\ order' = [order EXCEPT ![run.at] = result]
          /\ position' = IF result = "matched" THEN Filled(run.at) ELSE position
          /\ \/ Resolved(run.at, result)
             \/ result = "delayed" /\ Goto("polling")
    BY <1>6 DEF Place
  <2>2. leg' \in [Slot -> Reports] /\ told' \in [Account -> BOOLEAN]
    BY <1>0, <2>1, HeardType
  <2>3. run' \in Run
    BY <1>0, <1>6, <2>1, ResolvedType, GotoType DEF Place, Engaged
  <2>4. position' \in [Account -> BOOLEAN] BY <1>0, <2>1, FilledType
  <2> QED BY <1>0, <1>6, <2>1, <2>2, <2>3, <2>4 DEF Place
<1>7. CASE Poll
  <2>1. order[run.at] \in Reports BY <1>0
  <2>2. run' \in Run
    BY <1>0, <1>7, <2>1, ResolvedType DEF Poll, Engaged, Reports
  <2>3. leg' \in [Slot -> Reports] /\ told' \in [Account -> BOOLEAN]
    BY <1>0, <1>7, <2>1, HeardType DEF Poll
  <2> QED BY <1>7, <2>2, <2>3 DEF Poll
<1>8. CASE Cancel
  <2>1. run' \in Run BY <1>0, <1>8 DEF Cancel, Goto, Run, Engaged, Slot
  <2>2. order' \in [Slot -> Reports] BY <1>8 DEF Cancel, Reports
  <2> QED BY <1>8, <2>1, <2>2 DEF Cancel
<1>9. CASE Raise
  <2>1. run' \in Run BY <1>9, GotoType DEF Raise, Resting, Engaged
  <2>2. stray' \in [Account -> BOOLEAN] BY <1>9, StrayType DEF Raise
  <2> QED BY <1>0, <1>9, <2>1, <2>2 DEF Raise
<1>10. CASE Settle
  <2>1. accounts' \in [Account -> AccountState]
    BY <1>10 DEF Settle, MarkedHeld, Released, Fresh, AccountState
  <2>2. run.left - 1 \in 0..MaxMatches
    BY <1>0, <1>10, ExecutionAssumption DEF Settle, Engaged
  <2>3. run' \in Run BY <1>0, <1>10, <2>2 DEF Settle, Run, Resting, Engaged
  <2> QED BY <1>0, <1>10, <2>1, <2>3, StrayType DEF Settle
<1>11. ASSUME NEW s \in Slot, OrderMoves(s) PROVE TypeOK'
  <2>1. order' \in [Slot -> Reports] BY <1>11 DEF OrderMoves, Reports
  <2>2. position' \in [Account -> BOOLEAN] BY <1>11, FilledType DEF OrderMoves
  <2> QED BY <1>11, <2>1, <2>2 DEF OrderMoves
<1>12. ASSUME NEW a \in Account, StrayMoves(a) PROVE TypeOK'
  BY <1>12 DEF StrayMoves
<1>13. ASSUME NEW a \in Account, Redeem(a) PROVE TypeOK'
  BY <1>13 DEF Redeem, Released, Fresh, AccountState
<1>14. ASSUME NEW a \in Account, Pause(a) PROVE TypeOK'
  BY <1>14 DEF Pause, AccountState
<1>15. CASE UNCHANGED vars BY <1>15 DEF vars
<1> QED BY <1>1, <1>2, <1>3, <1>4, <1>5, <1>6, <1>7, <1>8, <1>9, <1>10, <1>11,
           <1>12, <1>13, <1>14, <1>15 DEF Next, RunOnce, Venues

(* The variables keep their types.                                           *)
THEOREM TypeCorrect == Spec => []TypeOK
BY InitType, TypeStep, PTL DEF Spec

-----------------------------------------------------------------------------
(* The inductive invariant                                                   *)

Plan == PlanIsKnown /\ Stage /\ LegsInOrder /\ ToldIsNotAvailable

(* Between matches and at the end of a run only the records matter.          *)
LEMMA BetweenMatches ==
  ASSUME SoundExecution, run'.pc \in Resting \cup {"scanning"},
         UNCHANGED <<accounts, leg, order, told>>
  PROVE  Plan'
BY DEF SoundExecution, Plan, PlanIsKnown, On, Stage, LegsInOrder,
       ToldIsNotAvailable, Resting, Engaged

(* choose_trade takes an available account, of which nothing was told.       *)
LEMMA ChooseKeeps == SoundExecution /\ Choose => Plan'
<1> SUFFICES ASSUME SoundExecution, Choose PROVE Plan' OBVIOUS
<1>1. PICK a \in Account, first \in Venue :
        /\ IsAvailable(accounts[a])
        /\ accounts' = [accounts EXCEPT ![a].status = "RESERVED"]
        /\ \E pc \in {"threw", IF run.dry THEN "settling" ELSE "placing"} :
             run' = [run EXCEPT !.pc = pc, !.account = a, !.first = first, !.at = "first"]
  BY DEF Choose, Validated
<1>2. PICK pc \in {"threw", "settling", "placing"} :
        run' = [run EXCEPT !.pc = pc, !.account = a, !.first = first, !.at = "first"]
  BY <1>1
<1>3. run'.account = a /\ run'.at = "first" /\ run'.pc = pc
  BY <1>2 DEF SoundExecution, TypeOK, Run
<1>4. leg' = NoOrders /\ order' = NoOrders /\ told' = told BY DEF Choose, Validated
<1>5. ~told[a] BY <1>1 DEF SoundExecution, ToldIsNotAvailable
<1>6. accounts[a] \in AccountState /\ accounts'[a] = [accounts[a] EXCEPT !.status = "RESERVED"]
  BY <1>1 DEF SoundExecution, TypeOK
<1>7. ~PredictHeldPosition' BY <1>4 DEF PredictHeldPosition, NoOrders
<1>8. PlanIsKnown'
  BY <1>1, <1>3, <1>4, <1>5, <1>6, <1>7
     DEF PlanIsKnown, On, IsAvailable, AccountState
<1>9. Stage' BY <1>3, <1>4 DEF Stage, NoOrders, Slot
<1>10. LegsInOrder' BY <1>4 DEF LegsInOrder, AtWork, NoOrders, Slot
<1>11. ToldIsNotAvailable'
  BY <1>1, <1>4, <1>5 DEF SoundExecution, TypeOK, ToldIsNotAvailable
<1> QED BY <1>8, <1>9, <1>10, <1>11 DEF Plan

(* Where the plan goes once the order s has a result.                        *)
LEMMA Resolution ==
  ASSUME SoundExecution, NEW s \in Slot, NEW result \in Reports, Resolved(s, result)
  PROVE  /\ run'.account = run.account /\ run'.first = run.first
         /\ \/ /\ s = "first" /\ result = "matched"
               /\ run'.pc = "placing" /\ run'.at = "second"
            \/ s = "second" /\ result # "matched" /\ run'.pc = "cancelling"
            \/ run'.pc = "settling"
BY DEF SoundExecution, TypeOK, Run, Resolved, Slot

(* What the executor hears of an order that had no final result is added to  *)
(* what it was told.                                                         *)
LEMMA HearingKeepsPlan ==
  ASSUME SoundExecution, run.pc \in Engaged, run'.pc \in Engaged,
         NEW s \in Slot, NEW result \in Reports, Hears(s, result),
         leg[s] \in {"none", "delayed"},
         run'.account = run.account, run'.first = run.first, UNCHANGED accounts
  PROVE  PlanIsKnown' /\ ToldIsNotAvailable'
<1> DEFINE a == run.account
<1>1. a \in Account /\ On(a) BY DEF SoundExecution, TypeOK, Run, On
<1>2. accounts[a].status = "RESERVED" /\ ~accounts[a].held /\ (told[a] <=> PredictHeldPosition)
  BY <1>1 DEF SoundExecution, PlanIsKnown
<1>3. leg' = [leg EXCEPT ![s] = result]
  BY DEF Hears
<1>4. \A t \in Slot : OnPredict(t)' <=> OnPredict(t) BY DEF OnPredict, VenueOf
<1>5. told'[a] <=> told[a] \/ (result = "matched" /\ OnPredict(s))
  BY <1>1 DEF Hears, SoundExecution, TypeOK, OnPredict
<1>6. \A b \in Account : b # a => told'[b] = told[b]
  BY <1>1 DEF Hears, SoundExecution, TypeOK
<1>7. PredictHeldPosition' <=> PredictHeldPosition \/ (result = "matched" /\ OnPredict(s))
  BY <1>3, <1>4 DEF PredictHeldPosition, SoundExecution, TypeOK
<1>8. PlanIsKnown' BY <1>1, <1>2, <1>5, <1>7 DEF PlanIsKnown, On
<1>9. ToldIsNotAvailable'
  BY <1>1, <1>2, <1>6 DEF SoundExecution, ToldIsNotAvailable, IsAvailable
<1> QED BY <1>8, <1>9

LEMMA PlaceKeeps == SoundExecution /\ Place => Plan'
<1> SUFFICES ASSUME SoundExecution, Place PROVE Plan' OBVIOUS
<1> DEFINE s == run.at
<1>1. PICK result \in Reports \ {"none"} :
        /\ Hears(s, result)
        /\ order' = [order EXCEPT ![s] = result]
        /\ Resolved(s, result) \/ (result = "delayed" /\ Goto("polling"))
  BY DEF Place
<1>2. s \in Slot /\ run.pc = "placing" /\ leg[s] = "none" /\ UNCHANGED accounts
  BY DEF Place, SoundExecution, TypeOK, Run, Stage
<1>3. leg' = [leg EXCEPT ![s] = result] BY <1>1 DEF Hears
<1>4. /\ run'.account = run.account /\ run'.first = run.first
      /\ \/ /\ s = "first" /\ result = "matched"
            /\ run'.pc = "placing" /\ run'.at = "second"
         \/ s = "second" /\ result # "matched" /\ run'.pc = "cancelling"
         \/ run'.pc = "settling"
         \/ run'.pc = "polling" /\ run'.at = s /\ result = "delayed"
  <2>1. CASE Resolved(s, result) BY <1>2, <2>1, Resolution
  <2>2. CASE result = "delayed" /\ Goto("polling")
    BY <2>2 DEF Goto, SoundExecution, TypeOK, Run
  <2> QED BY <1>1, <2>1, <2>2
<1>5. PlanIsKnown' /\ ToldIsNotAvailable'
  BY <1>1, <1>2, <1>4, HearingKeepsPlan DEF Engaged
<1>6. leg \in [Slot -> Reports] /\ order \in [Slot -> Reports]
  BY DEF SoundExecution, TypeOK
<1>7. Stage' BY <1>1, <1>2, <1>3, <1>4, <1>6 DEF SoundExecution, Stage, Slot, Reports
<1>8. LegsInOrder'
  BY <1>1, <1>2, <1>3, <1>6 DEF SoundExecution, Stage, LegsInOrder, AtWork, Slot, Reports
<1> QED BY <1>5, <1>7, <1>8 DEF Plan

LEMMA PollKeeps == SoundExecution /\ Poll => Plan'
<1> SUFFICES ASSUME SoundExecution, Poll PROVE Plan' OBVIOUS
<1> DEFINE s == run.at
<1>1. s \in Slot /\ run.pc = "polling" /\ leg[s] = "delayed" /\ UNCHANGED <<accounts, order>>
  BY DEF Poll, SoundExecution, TypeOK, Run, Stage
<1>2. leg \in [Slot -> Reports] /\ order \in [Slot -> Reports]
  BY DEF SoundExecution, TypeOK
<1>3. CASE order[s] # "delayed" /\ Hears(s, order[s]) /\ Resolved(s, order[s])
  <2> DEFINE result == order[s]
  <2>1. result \in Reports BY <1>1, <1>2
  <2>2. leg' = [leg EXCEPT ![s] = result] BY <1>3 DEF Hears
  <2>3. /\ run'.account = run.account /\ run'.first = run.first
        /\ \/ /\ s = "first" /\ result = "matched"
              /\ run'.pc = "placing" /\ run'.at = "second"
           \/ s = "second" /\ result # "matched" /\ run'.pc = "cancelling"
           \/ run'.pc = "settling"
    BY <1>1, <1>3, <2>1, Resolution
  <2>4. PlanIsKnown' /\ ToldIsNotAvailable'
    BY <1>1, <1>3, <2>1, <2>3, HearingKeepsPlan DEF Engaged
  <2>5. s = "second" => result # "none"
    BY <1>1 DEF SoundExecution, LegsInOrder, AtWork
  <2>6. Stage' BY <1>1, <1>2, <2>2, <2>3, <2>5 DEF SoundExecution, Stage, Slot, Reports
  <2>7. LegsInOrder'
    BY <1>1, <1>2, <2>2, <2>5 DEF SoundExecution, Stage, LegsInOrder, AtWork, Slot, Reports
  <2> QED BY <2>4, <2>6, <2>7 DEF Plan
<1>4. CASE Resolved(s, "delayed") /\ UNCHANGED <<leg, told>>
  <2>1. "delayed" \in Reports BY DEF Reports
  <2>2. /\ run'.account = run.account /\ run'.first = run.first
        /\ \/ s = "second" /\ run'.pc = "cancelling"
           \/ run'.pc = "settling"
    BY <1>1, <1>4, <2>1, Resolution
  <2>3. PredictHeldPosition' <=> PredictHeldPosition
    BY <1>4, <2>2 DEF PredictHeldPosition, OnPredict, VenueOf
  <2>4. PlanIsKnown' /\ ToldIsNotAvailable'
    BY <1>1, <1>4, <2>2, <2>3
       DEF SoundExecution, PlanIsKnown, ToldIsNotAvailable, On, Engaged
  <2>5. Stage' BY <1>1, <1>2, <1>4, <2>2 DEF SoundExecution, Stage, Slot
  <2>6. LegsInOrder' BY <1>1, <1>4 DEF SoundExecution, LegsInOrder
  <2> QED BY <2>4, <2>5, <2>6 DEF Plan
<1> QED BY <1>3, <1>4 DEF Poll

LEMMA CancelKeeps == SoundExecution /\ Cancel => Plan'
<1> SUFFICES ASSUME SoundExecution, Cancel PROVE Plan' OBVIOUS
<1>1. /\ run.pc = "cancelling"
      /\ leg["first"] = "matched" /\ leg["second"] \in {"delayed", "open", "failed"}
      /\ leg["rescue"] = "none" /\ UNCHANGED <<accounts, leg, told>>
  BY DEF Cancel, SoundExecution, Stage
<1>2. /\ run'.account = run.account /\ run'.first = run.first
      /\ \/ run'.pc = "placing" /\ run'.at = "rescue"
         \/ run'.pc = "settling"
  BY DEF Cancel, Goto, SoundExecution, TypeOK, Run
<1>3. \/ order' = order
      \/ leg["second"] = "open" /\ order' = [order EXCEPT !["second"] = "failed"]
  BY DEF Cancel
<1>4. leg \in [Slot -> Reports] /\ order \in [Slot -> Reports]
  BY DEF SoundExecution, TypeOK
<1>5. PredictHeldPosition' <=> PredictHeldPosition
  BY <1>1, <1>2 DEF PredictHeldPosition, OnPredict, VenueOf
<1>6. PlanIsKnown' /\ ToldIsNotAvailable'
  BY <1>1, <1>2, <1>5
     DEF SoundExecution, PlanIsKnown, ToldIsNotAvailable, On, Engaged
<1>7. Stage' BY <1>1, <1>2 DEF Stage
<1>8. LegsInOrder'
  BY <1>1, <1>3, <1>4 DEF SoundExecution, LegsInOrder, AtWork, Slot, Reports
<1> QED BY <1>6, <1>7, <1>8 DEF Plan

(* An exception leaves the account reserved, whatever was told of it.        *)
LEMMA RaiseKeeps == SoundExecution /\ Raise => Plan'
<1> SUFFICES ASSUME SoundExecution, Raise PROVE Plan' OBVIOUS
<1>1. run'.pc = "threw" /\ leg' = NoOrders /\ order' = NoOrders
      /\ UNCHANGED <<accounts, told>>
  BY DEF Raise, Goto, SoundExecution, TypeOK, Run
<1> QED BY <1>1 DEF Plan, SoundExecution, PlanIsKnown, On, Engaged, Stage, LegsInOrder,
                    ToldIsNotAvailable, NoOrders, AtWork, Slot

(* _settle_predict_account holds the account exactly if a fill was told.     *)
LEMMA SettleKeeps == SoundExecution /\ Settle => Plan'
<1> SUFFICES ASSUME SoundExecution, Settle PROVE Plan' OBVIOUS
<1> DEFINE a == run.account
<1>1. a \in Account /\ run.pc = "settling" BY DEF Settle, SoundExecution, TypeOK, Run
<1>2. run'.pc \in {"paused", "scanning"} BY DEF Settle, SoundExecution, TypeOK, Run
<1>3. leg' = NoOrders /\ order' = NoOrders /\ told' = told BY DEF Settle
<1>4. told[a] <=> PredictHeldPosition
  BY <1>1 DEF SoundExecution, PlanIsKnown, On, Engaged
<1>5. \A b \in Account : accounts'[b] = IF b # a THEN accounts[b]
                                        ELSE IF PredictHeldPosition THEN MarkedHeld(accounts[a])
                                        ELSE Released(accounts[a])
  BY <1>1 DEF Settle, SoundExecution, TypeOK
<1>6. ~IsAvailable(MarkedHeld(accounts[a])) BY DEF IsAvailable, MarkedHeld
<1>7. ToldIsNotAvailable'
  <2> SUFFICES ASSUME NEW b \in Account, told[b] PROVE ~IsAvailable(accounts'[b])
    BY <1>3 DEF ToldIsNotAvailable, IsAvailable
  <2>1. CASE b = a BY <1>4, <1>5, <1>6, <2>1
  <2>2. CASE b # a BY <1>5, <2>2 DEF SoundExecution, ToldIsNotAvailable
  <2> QED BY <2>1, <2>2
<1> QED BY <1>2, <1>3, <1>7 DEF Plan, PlanIsKnown, On, Engaged, Stage, LegsInOrder,
                               NoOrders, AtWork, Slot

(* An order at work has no final result yet.                                 *)
LEMMA VenuesKeep ==
  ASSUME SoundExecution, NEW s \in Slot, OrderMoves(s)
  PROVE  Plan'
<1>1. order[s] \in AtWork /\ UNCHANGED <<accounts, run, leg, told>> BY DEF OrderMoves
<1>2. PICK status \in {"open", "matched", "failed"} : order' = [order EXCEPT ![s] = status]
  BY DEF OrderMoves
<1>3. leg \in [Slot -> Reports] /\ order \in [Slot -> Reports]
  BY DEF SoundExecution, TypeOK
<1>4. LegsInOrder'
  BY <1>1, <1>2, <1>3 DEF SoundExecution, LegsInOrder, AtWork, Slot, Reports
<1>5. PredictHeldPosition' <=> PredictHeldPosition
  BY <1>1 DEF PredictHeldPosition, OnPredict, VenueOf
<1> QED BY <1>1, <1>4, <1>5
        DEF SoundExecution, Plan, PlanIsKnown, On, Stage, ToldIsNotAvailable

(* Between two runs.                                                         *)
LEMMA CallersKeep ==
  ASSUME SoundExecution, NEW a \in Account, Redeem(a) \/ Pause(a)
  PROVE  Plan'
<1>1. run.pc \in Resting /\ UNCHANGED <<run, leg, order>> BY DEF Redeem, Pause
<1>2. ToldIsNotAvailable'
  <2>1. CASE Redeem(a)
    BY <2>1 DEF Redeem, SoundExecution, TypeOK, ToldIsNotAvailable
  <2>2. CASE Pause(a)
    <3>1. accounts'[a].status = "PAUSED"
      BY <2>2 DEF Pause, SoundExecution, TypeOK, AccountState
    <3> QED BY <2>2, <3>1
            DEF Pause, SoundExecution, TypeOK, ToldIsNotAvailable, IsAvailable
  <2> QED BY <2>1, <2>2
<1> QED BY <1>1, <1>2
        DEF SoundExecution, Plan, PlanIsKnown, On, Stage, LegsInOrder, Resting, Engaged

LEMMA SoundStep == SoundExecution /\ [Next]_vars => SoundExecution'
<1> SUFFICES ASSUME SoundExecution, [Next]_vars PROVE SoundExecution' OBVIOUS
<1>1. TypeOK' BY TypeStep DEF SoundExecution
<1>2. Plan'
  <2>1. CASE Begin \/ EndRun \/ BooksRaise \/ NoTrade
    <3>1. run'.pc \in Resting \cup {"scanning"} /\ UNCHANGED <<accounts, leg, order, told>>
      BY <2>1 DEF SoundExecution, TypeOK, Run, Begin, EndRun, BooksRaise, NoTrade, Goto, Resting
    <3> QED BY <3>1, BetweenMatches
  <2>2. CASE Choose BY <2>2, ChooseKeeps
  <2>3. CASE Place BY <2>3, PlaceKeeps
  <2>4. CASE Poll BY <2>4, PollKeeps
  <2>5. CASE Cancel BY <2>5, CancelKeeps
  <2>6. CASE Raise BY <2>6, RaiseKeeps
  <2>7. CASE Settle BY <2>7, SettleKeeps
  <2>8. CASE \E s \in Slot : OrderMoves(s) BY <2>8, VenuesKeep
  <2>9. CASE (\E a \in Account : StrayMoves(a)) \/ UNCHANGED vars
    <3>1. UNCHANGED <<accounts, run, leg, order, told>> BY <2>9 DEF StrayMoves, vars
    <3>2. PredictHeldPosition' <=> PredictHeldPosition
      BY <3>1 DEF PredictHeldPosition, OnPredict, VenueOf
    <3> QED BY <3>1, <3>2
            DEF SoundExecution, Plan, PlanIsKnown, On, Stage, LegsInOrder, ToldIsNotAvailable
  <2>10. CASE \E a \in Account : Redeem(a) \/ Pause(a) BY <2>10, CallersKeep
  <2> QED BY <2>1, <2>2, <2>3, <2>4, <2>5, <2>6, <2>7, <2>8, <2>9, <2>10
          DEF Next, RunOnce, Venues
<1> QED BY <1>1, <1>2 DEF SoundExecution, Plan

LEMMA SoundInit == Init => SoundExecution
<1> SUFFICES ASSUME Init PROVE SoundExecution OBVIOUS
<1>1. TypeOK BY InitType
<1>2. run.pc = "done" /\ leg = NoOrders /\ order = NoOrders
      /\ \A a \in Account : ~told[a]
  BY DEF Init
<1> QED BY <1>1, <1>2 DEF SoundExecution, PlanIsKnown, On, Engaged, Stage, LegsInOrder,
                          ToldIsNotAvailable, NoOrders, AtWork, Slot

-----------------------------------------------------------------------------
(* The executor's knowledge, the order of its legs and the records agree.    *)
THEOREM ExecutionIsSound == Spec => []SoundExecution
BY SoundInit, SoundStep, PTL DEF Spec

(* An account the executor was told of a fill on is not chosen again before  *)
(* its position is redeemed.                                                 *)
THEOREM ToldStays == Spec => []ToldIsNotAvailable
<1>1. SoundExecution => ToldIsNotAvailable BY DEF SoundExecution
<1> QED BY <1>1, ExecutionIsSound, PTL

(* A run goes on only after both orders of the hedge filled and nothing else *)
(* was bought or left at work: what it knows is what the venues have.        *)
THEOREM NeverSilent == Spec => NoSilentContinuation
<1> DEFINE Continues ==
      run.pc = "settling" /\ ~run.dry /\ run'.pc = "scanning"
      => order = [NoOrders EXCEPT !["first"] = "matched", !["second"] = "matched"]
<1>1. SoundExecution /\ [Next]_vars => [Continues]_vars
  <2> SUFFICES ASSUME SoundExecution, Next, run.pc = "settling", ~run.dry,
                      run'.pc = "scanning"
               PROVE  order = [NoOrders EXCEPT !["first"] = "matched",
                                              !["second"] = "matched"]
    OBVIOUS
  <2>1. Settle
    BY DEF Next, RunOnce, Venues, Begin, EndRun, BooksRaise, NoTrade, Choose, Validated, Place, Poll,
           Cancel, Raise, OrderMoves, StrayMoves, Redeem, Pause, Resting
  <2>2. leg["first"] = "matched" /\ leg["second"] = "matched"
    BY <2>1 DEF Settle, PauseOpening, SoundExecution, TypeOK, Run
  <2>3. /\ order["first"] = "matched" /\ order["second"] = "matched"
        /\ order["rescue"] = "none"
    BY <2>2 DEF SoundExecution, LegsInOrder, AtWork, Slot
  <2> QED BY <2>3 DEF SoundExecution, TypeOK, NoOrders, Slot
<1> QED BY <1>1, ExecutionIsSound, PTL DEF Spec, NoSilentContinuation

-----------------------------------------------------------------------------
(* A run is short                                                            *)

\* The most steps before the plan at work can be settled.
StepsOfPlan ==
  CASE run.pc = "settling"   -> 0
    [] run.pc = "cancelling" -> 3
    [] run.pc = "polling"    -> IF run.at = "first" THEN 6 ELSE IF run.at = "second" THEN 4 ELSE 1
    [] run.pc = "placing"    -> IF run.at = "first" THEN 7 ELSE IF run.at = "second" THEN 5 ELSE 2

\* The most steps a run can still take: a match, which is counted while its plan is
\* at work, takes nine at most.
StepsLeft == IF run.pc \in Resting THEN 0
             ELSE IF run.pc = "scanning" THEN 9 * run.left + 1
             ELSE 9 * run.left + StepsOfPlan - 7

\* A plan whose order has its result comes nearer to its end.
LEMMA ResolvedIsNearer ==
  ASSUME TypeOK, run.pc \in {"placing", "polling"}, NEW result, Resolved(run.at, result)
  PROVE  StepsLeft' < StepsLeft
<1>1. run.left \in Nat /\ run.at \in Slot BY ExecutionAssumption DEF TypeOK, Run
<1>2. StepsLeft = 9 * run.left + StepsOfPlan - 7 BY DEF StepsLeft, Engaged, Resting
<1>3. /\ run.at = "first"  => StepsOfPlan \in {6, 7}
      /\ run.at = "second" => StepsOfPlan \in {4, 5}
      /\ run.at = "rescue" => StepsOfPlan \in {1, 2}
  BY DEF StepsOfPlan
<1>4. /\ run'.left = run.left
      /\ \/ run.at = "first" /\ run'.pc = "placing" /\ run'.at = "second"
         \/ run.at = "second" /\ run'.pc = "cancelling"
         \/ run'.pc = "settling"
  BY <1>1 DEF Resolved, TypeOK, Run, Slot
<1>5. StepsLeft' = 9 * run.left + StepsOfPlan' - 7
  BY <1>4 DEF StepsLeft, Engaged, Resting
<1>6. \/ run.at = "first" /\ StepsOfPlan' = 5
      \/ run.at = "second" /\ StepsOfPlan' = 3
      \/ StepsOfPlan' = 0
  BY <1>4 DEF StepsOfPlan
<1> QED BY <1>1, <1>2, <1>3, <1>5, <1>6 DEF Slot

\* So does every other step of the run.
LEMMA RunIsNearer ==
  ASSUME TypeOK, RunOnce \/ BooksRaise \/ Raise
  PROVE  StepsLeft' < StepsLeft
<1>0. /\ run.left \in Nat /\ run.at \in Slot
      /\ run.pc \in Engaged => run.left > 0
  BY ExecutionAssumption DEF TypeOK, Run
<1>1. ASSUME run.pc \notin Resting, run'.pc \in Resting PROVE StepsLeft' < StepsLeft
  <2>1. StepsLeft' = 0 BY <1>1 DEF StepsLeft
  <2>2. CASE run.pc = "scanning" BY <1>0, <2>1, <2>2 DEF StepsLeft, Resting
  <2>3. CASE run.pc \in Engaged
    <3>1. StepsOfPlan \in 0..7 BY <2>3 DEF StepsOfPlan, Engaged
    <3>2. StepsLeft = 9 * run.left + StepsOfPlan - 7
      BY <2>3 DEF StepsLeft, Engaged, Resting
    <3> QED BY <1>0, <2>1, <2>3, <3>1, <3>2
  <2> QED BY <1>1, <2>2, <2>3 DEF TypeOK, Run
<1>2. CASE EndRun \/ BooksRaise
  BY <1>1, <1>2 DEF EndRun, BooksRaise, Goto, TypeOK, Run, Resting
<1>3. CASE Raise
  BY <1>1, <1>3 DEF Raise, Goto, TypeOK, Run, Resting
<1>4. CASE NoTrade
  <2>1. CASE Goto("paused")
    BY <1>1, <1>4, <2>1 DEF NoTrade, Goto, TypeOK, Run, Resting
  <2>2. CASE run' = [run EXCEPT !.left = @ - 1]
    <3>1. run'.pc = "scanning" /\ run'.left = run.left - 1
      BY <1>4, <2>2 DEF NoTrade, TypeOK, Run
    <3> QED BY <1>0, <1>4, <3>1 DEF NoTrade, StepsLeft, Resting
  <2> QED BY <1>4, <2>1, <2>2 DEF NoTrade
<1>5. CASE Choose
  <2>1. PICK a \in Account, first \in Venue, pc \in {"threw", "settling", "placing"} :
          run' = [run EXCEPT !.pc = pc, !.account = a, !.first = first, !.at = "first"]
    BY <1>5 DEF Choose, Validated
  <2>2. run'.pc = pc /\ run'.left = run.left /\ run'.at = "first"
    BY <2>1 DEF TypeOK, Run
  <2>3. CASE pc = "threw" BY <1>1, <1>5, <2>2, <2>3 DEF Choose, Resting
  <2>4. CASE pc # "threw"
    <3>1. StepsOfPlan' \in {0, 7} BY <2>2, <2>4 DEF StepsOfPlan
    <3>2. StepsLeft' = 9 * run.left + StepsOfPlan' - 7
      BY <2>2, <2>4 DEF StepsLeft, Engaged, Resting
    <3>3. StepsLeft = 9 * run.left + 1 BY <1>5 DEF Choose, StepsLeft, Resting
    <3> QED BY <1>0, <3>1, <3>2, <3>3
  <2> QED BY <2>3, <2>4
<1>6. CASE Place
  <2>1. PICK result : Resolved(run.at, result) \/ Goto("polling") BY <1>6 DEF Place
  <2>2. CASE Resolved(run.at, result) BY <1>6, <2>2, ResolvedIsNearer DEF Place
  <2>3. CASE Goto("polling")
    <3>1. run'.pc = "polling" /\ run'.left = run.left /\ run'.at = run.at
      BY <2>3 DEF Goto, TypeOK, Run
    <3>2. /\ StepsLeft = 9 * run.left + StepsOfPlan - 7
          /\ StepsLeft' = 9 * run.left + StepsOfPlan' - 7
      BY <1>6, <3>1 DEF Place, StepsLeft, Engaged, Resting
    <3>3. StepsOfPlan \in 0..7 /\ StepsOfPlan' = StepsOfPlan - 1
      BY <1>6, <3>1 DEF Place, StepsOfPlan
    <3> QED BY <1>0, <3>2, <3>3
  <2> QED BY <2>1, <2>2, <2>3
<1>7. CASE Poll BY <1>7, ResolvedIsNearer DEF Poll
<1>8. CASE Cancel
  <2>1. /\ run'.left = run.left
        /\ \/ run'.pc = "placing" /\ run'.at = "rescue"
           \/ run'.pc = "settling"
    BY <1>8 DEF Cancel, Goto, TypeOK, Run
  <2>2. StepsOfPlan = 3 /\ StepsOfPlan' \in {0, 2} BY <1>8, <2>1 DEF Cancel, StepsOfPlan
  <2>3. /\ StepsLeft = 9 * run.left + StepsOfPlan - 7
        /\ StepsLeft' = 9 * run.left + StepsOfPlan' - 7
    BY <1>8, <2>1 DEF Cancel, StepsLeft, Engaged, Resting
  <2> QED BY <1>0, <2>2, <2>3
<1>9. CASE Settle
  <2>1. CASE PauseOpening
    <3>1. run'.pc = "paused" BY <1>9, <2>1 DEF Settle, TypeOK, Run
    <3> QED BY <1>1, <1>9, <3>1 DEF Settle, Resting
  <2>2. CASE ~PauseOpening
    <3>1. run'.pc = "scanning" /\ run'.left = run.left - 1
      BY <1>9, <2>2 DEF Settle, TypeOK, Run
    <3>2. StepsLeft' = 9 * (run.left - 1) + 1 BY <3>1 DEF StepsLeft, Resting
    <3>3. StepsOfPlan = 0 BY <1>9 DEF Settle, StepsOfPlan
    <3>4. StepsLeft = 9 * run.left - 7
      BY <1>0, <1>9, <3>3 DEF Settle, StepsLeft, Engaged, Resting
    <3> QED BY <1>0, <3>2, <3>4
  <2> QED BY <2>1, <2>2
<1> QED BY <1>2, <1>3, <1>4, <1>5, <1>6, <1>7, <1>8, <1>9 DEF RunOnce

(* Once run_once has begun nothing takes it back, whatever the venues do to  *)
(* its orders: every step of the run leaves it fewer to take and no other    *)
(* step touches it. So a run over n matches ends within 9n + 1 steps of its  *)
(* own, provided that it takes them (RunEnds).                               *)
THEOREM RunsAreShort ==
  Spec => /\ []( /\ StepsLeft \in 0..(9 * MaxMatches + 1)
                /\ StepsLeft = 0 <=> run.pc \in Resting )
          /\ [][run.pc \notin Resting => run' = run \/ StepsLeft' < StepsLeft]_vars
<1> DEFINE Bounded == /\ StepsLeft \in 0..(9 * MaxMatches + 1)
                      /\ StepsLeft = 0 <=> run.pc \in Resting
           Nearer  == run.pc \notin Resting => run' = run \/ StepsLeft' < StepsLeft
<1>1. TypeOK => Bounded
  <2> SUFFICES ASSUME TypeOK PROVE Bounded OBVIOUS
  <2>1. /\ run.left \in 0..MaxMatches /\ MaxMatches \in Nat
        /\ run.pc \in Resting \cup Engaged \cup {"scanning"}
        /\ run.pc \in Engaged => run.left > 0
    BY ExecutionAssumption DEF TypeOK, Run
  <2>2. CASE run.pc \in Resting BY <2>1, <2>2 DEF StepsLeft
  <2>3. CASE run.pc = "scanning" BY <2>1, <2>3 DEF StepsLeft, Resting
  <2>4. CASE run.pc \in Engaged
    <3>1. StepsOfPlan \in 0..7 BY <2>4 DEF StepsOfPlan, Engaged
    <3>2. StepsLeft = 9 * run.left + StepsOfPlan - 7 /\ run.pc \notin Resting
      BY <2>4 DEF StepsLeft, Engaged, Resting
    <3> QED BY <2>1, <2>4, <3>1, <3>2
  <2> QED BY <2>1, <2>2, <2>3, <2>4
<1>2. TypeOK /\ [Next]_vars => [Nearer]_vars
  <2> SUFFICES ASSUME TypeOK, Next, run.pc \notin Resting
               PROVE  run' = run \/ StepsLeft' < StepsLeft
    OBVIOUS
  <2>1. CASE RunOnce \/ BooksRaise \/ Raise BY <2>1, RunIsNearer
  <2>2. CASE Begin BY <2>2 DEF Begin
  <2>3. CASE Venues BY <2>3 DEF Venues, OrderMoves, StrayMoves
  <2>4. CASE \E a \in Account : Redeem(a) \/ Pause(a) BY <2>4 DEF Redeem, Pause
  <2> QED BY <2>1, <2>2, <2>3, <2>4 DEF Next
<1> QED BY <1>1, <1>2, TypeCorrect, PTL DEF Spec

-----------------------------------------------------------------------------
(* What the programs read of an honest listing                               *)

LEMMA TextIsSettled ==
  ASSUME NEW m, HonestText(m), NEW explicit, explicit \notin ResolutionSource
  PROVE  /\ normalizeResolutionSource(m.words, explicit) \in ResolutionSource
              => normalizeResolutionSource(m.words, explicit) = m.settles.source
         /\ normalizeUpDownRule(m.words) \in UpDownRule
              => normalizeUpDownRule(m.words) = m.settles.rule
<1> DEFINE source == normalizeResolutionSource(m.words, explicit)
           rule   == normalizeUpDownRule(m.words)
<1>1. source \in ResolutionSource => source = m.settles.source
  <2>1. CASE {"binance", "btc", "usdt"} \subseteq m.words
    <3>1. SourcePhrases("BINANCE_BTC_USDT") \subseteq m.words
      BY <2>1 DEF HonestText, IsText, SourcePhrases
    <3>2. source = "BINANCE_BTC_USDT" BY <2>1 DEF normalizeResolutionSource
    <3> QED BY <3>1, <3>2 DEF HonestText, ResolutionSource
  <2>2. CASE ~({"binance", "btc", "usdt"} \subseteq m.words)
             /\ {"chainlink", "btc", "usd"} \subseteq m.words
    <3>1. SourcePhrases("CHAINLINK_BTC_USD") \subseteq m.words BY <2>2 DEF SourcePhrases
    <3>2. source = "CHAINLINK_BTC_USD" BY <2>2 DEF normalizeResolutionSource
    <3> QED BY <3>1, <3>2 DEF HonestText, ResolutionSource
  <2>3. CASE ~({"binance", "btc", "usdt"} \subseteq m.words)
             /\ ~({"chainlink", "btc", "usd"} \subseteq m.words)
    <3>1. source = "UNKNOWN" BY <2>3 DEF normalizeResolutionSource
    <3> QED BY <3>1 DEF ResolutionSource
  <2> QED BY <2>1, <2>2, <2>3
<1>2. rule \in UpDownRule => rule = m.settles.rule
  <2>1. rule # "UNKNOWN" => {"close", "open", ">"} \subseteq m.words
    BY DEF normalizeUpDownRule, HonestText, IsText
  <2>2. rule # "UNKNOWN" => rule = IF ">=" \in m.words THEN "CLOSE_GTE_OPEN_IS_UP"
                                                     ELSE "CLOSE_GT_OPEN_IS_UP"
    BY DEF normalizeUpDownRule
  <2>3. "UNKNOWN" \notin UpDownRule BY DEF UpDownRule
  <2> QED BY <2>1, <2>2, <2>3 DEF HonestText
<1> QED BY <1>1, <1>2

LEMMA SpecIsSettled ==
  ASSUME NEW m, HonestSpec(m)
  PROVE  LET n == normalizeBinaryMarketSpec(m)
         IN /\ n.source \in ResolutionSource => n.source = m.settles.source
            /\ n.rule \in UpDownRule => n.rule = m.settles.rule
<1> DEFINE spoken == m.words \cup SourcePhrases(m.source)
           source == Stated(m.oracle, normalizeResolutionSource(spoken, m.source))
           rule   == Stated(m.rule, normalizeUpDownRule(m.words))
           n      == normalizeBinaryMarketSpec(m)
<1>1. n.source = Recognised(source, ResolutionSource) /\ n.rule = Recognised(rule, UpDownRule)
  BY DEF normalizeBinaryMarketSpec, normalizeSource, normalizeRule
<1>2. "UNKNOWN" \notin ResolutionSource /\ "UNKNOWN" \notin UpDownRule
      /\ "" \notin ResolutionSource /\ "" \notin UpDownRule
  BY DEF ResolutionSource, UpDownRule
<1>3. HonestText(m) BY DEF HonestSpec
<1>4. source \in ResolutionSource => source = m.settles.source
  <2>1. CASE m.oracle # ""
    BY <2>1 DEF Stated, HonestSpec
  <2>2. CASE m.oracle = "" /\ m.source \in ResolutionSource
    <3>1. source = m.source BY <2>2 DEF Stated, normalizeResolutionSource
    <3> QED BY <2>2, <3>1 DEF HonestSpec
  <2>3. CASE m.oracle = "" /\ m.source \notin ResolutionSource
    <3>1. spoken = m.words BY <2>3 DEF SourcePhrases, ResolutionSource
    <3>2. source = normalizeResolutionSource(m.words, m.source) BY <2>3, <3>1 DEF Stated
    <3> QED BY <1>3, <2>3, <3>2, TextIsSettled
  <2> QED BY <2>1, <2>2, <2>3
<1>5. rule \in UpDownRule => rule = m.settles.rule
  <2>1. CASE m.rule # "" BY <2>1 DEF Stated, HonestSpec
  <2>2. CASE m.rule = ""
    <3>1. rule = normalizeUpDownRule(m.words) BY <2>2 DEF Stated
    <3> QED BY <1>2, <1>3, <3>1, TextIsSettled
  <2> QED BY <2>1, <2>2
<1> HIDE DEF source, rule, n
<1>6. n.source \in ResolutionSource => n.source = m.settles.source
  BY <1>1, <1>2, <1>4 DEF Recognised
<1>7. n.rule \in UpDownRule => n.rule = m.settles.rule
  BY <1>1, <1>2, <1>5 DEF Recognised
<1> QED BY <1>6, <1>7 DEF n

\* What both discoveries read of a raw listing, whatever else they make of it.
LEMMA RawReadings ==
  ASSUME NEW raw
  PROVE  LET p == normalizePredictMarket(raw)
             q == normalizePolymarketMarket(raw)
         IN /\ p.start = raw.start /\ p.end = raw.end /\ p.up
            /\ p.source = normalizeResolutionSource(raw.words, "")
            /\ p.rule = normalizeUpDownRule(raw.words)
            /\ q.start = raw.start /\ q.end = raw.end
            /\ q.up = HasToken(raw.tokens, {"up", "yes"})
            /\ q.source = normalizeResolutionSource(raw.words, "")
            /\ q.rule = normalizeUpDownRule(raw.words)
BY DEF normalizePredictMarket, normalizePolymarketMarket, ReadListing

-----------------------------------------------------------------------------
(* The matching of markets                                                   *)

\* Two listings ask the same question: they settle by the same rule on the same
\* readings of the same window, and their YES is for the same outcome.
SameQuestion(p, q, n, o) ==
  /\ p.settles.source = q.settles.source /\ p.settles.rule = q.settles.rule
  /\ p.resolution = q.resolution
  /\ n.start = o.start /\ n.end = o.end /\ n.up = o.up

\* What the programs have accepted asks the same question, the listings having no
\* part in it but that one may close.
MatchIInv ==
  /\ HonestPair(pair)
  /\ now \in Nat /\ approved \in Time
  /\ accepted \cap {"typescript", "discovery"} # {} =>
       SameQuestion(pair.predict, pair.polymarket, Markets[1], Markets[2])
  /\ "typescript" \in accepted => pair.kind = "specs" /\ "python" \in accepted
  /\ approved # NoTime => approved + MinToClose <= Markets[1].end

LEMMA SameQuestionIsHedge ==
  ASSUME SameQuestion(pair.predict, pair.polymarket, Markets[1], Markets[2])
  PROVE  IsHedge
<1> DEFINE p == pair.predict
           q == pair.polymarket
           n == Markets[1]
           o == Markets[2]
<1>1. Reading(p, n.start) = Reading(q, o.start) /\ Reading(p, n.end) = Reading(q, o.end)
  BY DEF SameQuestion, Reading
<1>2. p.settles.rule = q.settles.rule /\ n.up = o.up BY DEF SameQuestion
<1> HIDE DEF p, q, n, o
<1>3. \A price : YesPays(p, n, price) <=> YesPays(q, o, price) BY <1>1, <1>2 DEF YesPays
<1> QED BY <1>3 DEF IsHedge, p, q, n, o

\* What the hourly matcher sees to.
LEMMA HourlyAgrees ==
  ASSUME NEW n, NEW o, HourlyMatch(n, o)
  PROVE  /\ n.start = o.start /\ n.end = o.end
         /\ n.source = o.source /\ n.source \in ResolutionSource
         /\ n.rule = o.rule /\ n.rule # "UNKNOWN"
         /\ n.end - now \in MinToClose..Lookahead
BY MatchingAssumption DEF HourlyMatch, IsEligible, ToClose

LEMMA RuleIsKnown ==
  ASSUME NEW words
  PROVE  normalizeUpDownRule(words) \in UpDownRule \cup {"UNKNOWN"}
BY DEF normalizeUpDownRule, UpDownRule

LEMMA SpecsAgree ==
  ASSUME NEW p, NEW q, HonestSpec(p), HonestSpec(q),
         HourlyMatch(normalizeBinaryMarketSpec(p), normalizeBinaryMarketSpec(q)),
         StrictMatch(p, q)
  PROVE  SameQuestion(p, q, normalizeBinaryMarketSpec(p), normalizeBinaryMarketSpec(q))
<1> DEFINE n == normalizeBinaryMarketSpec(p)
           o == normalizeBinaryMarketSpec(q)
<1>1. /\ p.direction = q.direction /\ p.resolution = q.resolution
  <2>1. \A f \in StrictTexts : p[f] = q[f] BY DEF StrictMatch
  <2>2. {"direction", "resolution"} \subseteq StrictTexts BY DEF StrictTexts
  <2> QED BY <2>1, <2>2
<1>2. n.up = (p.direction = "up") /\ o.up = (q.direction = "up")
  BY DEF normalizeBinaryMarketSpec
<1>3. n.rule \in UpDownRule \cup {"UNKNOWN"}
  BY DEF normalizeBinaryMarketSpec, normalizeRule, Recognised
<1>4. /\ n.source \in ResolutionSource => n.source = p.settles.source
      /\ o.source \in ResolutionSource => o.source = q.settles.source
      /\ n.rule \in UpDownRule => n.rule = p.settles.rule
      /\ o.rule \in UpDownRule => o.rule = q.settles.rule
  BY SpecIsSettled
<1> HIDE DEF n, o
<1>5. /\ n.start = o.start /\ n.end = o.end
      /\ n.source = o.source /\ n.source \in ResolutionSource
      /\ n.rule = o.rule /\ n.rule # "UNKNOWN"
  BY HourlyAgrees DEF n, o
<1>6. SameQuestion(p, q, n, o) BY <1>1, <1>2, <1>3, <1>4, <1>5 DEF SameQuestion
<1> QED BY <1>6 DEF n, o

LEMMA RawsAgree ==
  ASSUME NEW p, NEW q, HonestText(p), HonestText(q), p.resolution = q.resolution,
         \E i \in DOMAIN q.tokens : q.tokens[i] \in {"up", "yes"},
         HourlyMatch(normalizePredictMarket(p), normalizePolymarketMarket(q))
  PROVE  SameQuestion(p, q, normalizePredictMarket(p), normalizePolymarketMarket(q))
<1> DEFINE n == normalizePredictMarket(p)
           o == normalizePolymarketMarket(q)
<1>1. /\ n.up /\ n.source = normalizeResolutionSource(p.words, "")
      /\ n.rule = normalizeUpDownRule(p.words)
      /\ o.up = HasToken(q.tokens, {"up", "yes"})
      /\ o.source = normalizeResolutionSource(q.words, "")
      /\ o.rule = normalizeUpDownRule(q.words)
  BY RawReadings
<1>2. n.up = TRUE /\ o.up = TRUE
  <2>1. n.up = TRUE BY DEF normalizePredictMarket, ReadListing
  <2> QED BY <1>1, <2>1 DEF HasToken
<1>3. "" \notin ResolutionSource BY DEF ResolutionSource
<1> HIDE DEF n, o
<1>4. /\ n.start = o.start /\ n.end = o.end
      /\ n.source = o.source /\ n.source \in ResolutionSource
      /\ n.rule = o.rule /\ n.rule # "UNKNOWN"
  BY HourlyAgrees DEF n, o
<1>5. n.source = p.settles.source /\ o.source = q.settles.source
  BY <1>1, <1>3, <1>4, TextIsSettled
<1>6. n.rule = p.settles.rule /\ o.rule = q.settles.rule
  BY <1>1, <1>3, <1>4, RuleIsKnown, TextIsSettled
<1>7. SameQuestion(p, q, n, o) BY <1>2, <1>4, <1>5, <1>6 DEF SameQuestion
<1> QED BY <1>7 DEF n, o

LEMMA MatchStarts == MatchInit => MatchIInv
BY PairsAssumption DEF MatchInit, MatchIInv, Time

LEMMA ScanStep == MatchIInv /\ Scan => MatchIInv'
<1> SUFFICES ASSUME MatchIInv, Scan PROVE MatchIInv' OBVIOUS
<1> DEFINE p == pair.predict
           q == pair.polymarket
<1>1. /\ pair.kind = "specs" /\ UNCHANGED <<pair, now, approved>>
      /\ accepted' = {program \in Program : Takes(program, p, q)}
  BY DEF Scan
<1>2. HonestSpec(p) /\ HonestSpec(q) BY <1>1 DEF MatchIInv, HonestPair
<1>3. Markets[1] = normalizeBinaryMarketSpec(p) /\ Markets[2] = normalizeBinaryMarketSpec(q)
  BY <1>1 DEF Markets
<1>4. Markets' = Markets BY <1>1 DEF Markets
<1>5. "discovery" \notin accepted' BY <1>1 DEF Program
<1>6. "typescript" \in accepted' =>
        /\ HourlyMatch(normalizeBinaryMarketSpec(p), normalizeBinaryMarketSpec(q))
        /\ StrictMatch(p, q)
  BY <1>1 DEF Takes
<1>7. ASSUME "typescript" \in accepted' PROVE "python" \in accepted'
  <2>1. StrictMatch(p, q) BY <1>6, <1>7
  <2>2. match(p, q)
    <3>1. /\ {f \in StrictTexts : p[f] = "" \/ q[f] = "" \/ p[f] # q[f]} = {}
          /\ {f \in StrictTimes : NoTime \in {p[f], q[f]} \/ p[f] # q[f]} = {}
          /\ p.binary /\ q.binary /\ p.asset = "btc" /\ q.asset = "btc"
      BY <2>1 DEF StrictMatch
    <3> QED BY <3>1 DEF match
  <2> QED BY <1>1, <2>2 DEF Takes, Program
<1>8. "typescript" \in accepted' => SameQuestion(p, q, Markets[1], Markets[2])
  BY <1>2, <1>3, <1>6, SpecsAgree
<1> QED BY <1>1, <1>4, <1>5, <1>7, <1>8 DEF MatchIInv

LEMMA DiscoverStep == MatchIInv /\ Discover => MatchIInv'
<1> SUFFICES ASSUME MatchIInv, Discover PROVE MatchIInv' OBVIOUS
<1> DEFINE p == pair.predict
           q == pair.polymarket
           n == normalizePredictMarket(p)
           o == normalizePolymarketMarket(q)
<1>1. /\ pair.kind = "raw" /\ UNCHANGED <<pair, now, approved>>
      /\ accepted' = {program \in {"discovery"} : HourlyMatch(n, o)}
  BY DEF Discover
<1>2. /\ HonestText(p) /\ HonestText(q) /\ p.resolution = q.resolution
      /\ \E i \in DOMAIN q.tokens : q.tokens[i] \in {"up", "yes"}
  BY <1>1 DEF MatchIInv, HonestPair
<1>3. Markets[1] = n /\ Markets[2] = o BY <1>1 DEF Markets
<1>4. Markets' = Markets BY <1>1 DEF Markets
<1>5. "typescript" \notin accepted' BY <1>1
<1>6. "discovery" \in accepted' => SameQuestion(p, q, Markets[1], Markets[2])
  BY <1>1, <1>2, <1>3, RawsAgree
<1> QED BY <1>1, <1>4, <1>5, <1>6 DEF MatchIInv

\* The time of a normalised spec is a number, unless it has none.
LEMMA SpecEndType ==
  ASSUME NEW m \in SpecListing
  PROVE  normalizeBinaryMarketSpec(m).end \in Int
<1>1. m.end \in Time /\ m.eventEnd \in Time BY DEF SpecListing
<1>2. normalizeBinaryMarketSpec(m).end = StatedTime(m.eventEnd, m.end)
  BY DEF normalizeBinaryMarketSpec
<1> QED BY <1>1, <1>2 DEF StatedTime, Time, NoTime

LEMMA ApproveStep == MatchIInv /\ Approve => MatchIInv'
<1> SUFFICES ASSUME MatchIInv, Approve PROVE MatchIInv' OBVIOUS
<1>1. PICK m \in {pair.predict, pair.polymarket}, ages \in SUBSET (0..StaleBook + 1) :
        IsTimely(normalizeBinaryMarketSpec(m), ages) /\ approved' = now
  BY DEF Approve
<1>2. "typescript" \in accepted /\ UNCHANGED <<pair, now, accepted>> BY DEF Approve
<1>3. /\ pair.kind = "specs"
      /\ SameQuestion(pair.predict, pair.polymarket, Markets[1], Markets[2])
  BY <1>2 DEF MatchIInv
<1>4. /\ Markets[1] = normalizeBinaryMarketSpec(pair.predict)
      /\ Markets[2] = normalizeBinaryMarketSpec(pair.polymarket)
  BY <1>3 DEF Markets
<1>5. normalizeBinaryMarketSpec(m).end = Markets[1].end BY <1>3, <1>4 DEF SameQuestion
<1>6. m \in SpecListing BY <1>3 DEF MatchIInv, HonestPair
<1>7. Markets[1].end \in Int BY <1>5, <1>6, SpecEndType
<1>8. Markets[1].end - now \in MinToClose..Lookahead
  BY <1>1, <1>5 DEF IsTimely, IsEligible, ToClose
<1>9. approved' + MinToClose <= Markets[1].end /\ approved' \in Time
  <2>1. now \in Nat /\ MinToClose \in Nat BY MatchingAssumption DEF MatchIInv
  <2> QED BY <1>1, <1>7, <1>8, <2>1 DEF Time
<1>10. Markets' = Markets BY <1>2 DEF Markets
<1> QED BY <1>2, <1>9, <1>10 DEF MatchIInv

\* A listing that closes asks what it asked.
LEMMA ClosingKeeps ==
  ASSUME HonestPair(pair), pair' = [pair EXCEPT !.polymarket.closed = TRUE]
  PROVE  /\ HonestPair(pair)' /\ pair'.kind = pair.kind
         /\ Markets'[1] = Markets[1]
         /\ SameQuestion(pair.predict, pair.polymarket, Markets[1], Markets[2])
              => SameQuestion(pair.predict, pair.polymarket, Markets[1], Markets[2])'
<1> DEFINE p == pair.predict
           q == pair.polymarket
           r == [q EXCEPT !.closed = TRUE]
<1>1. CASE pair.kind = "specs"
  <2>1. /\ pair \in [kind : {"specs"}, predict : SpecListing, polymarket : SpecListing]
        /\ HonestSpec(p) /\ HonestSpec(q)
    BY <1>1 DEF HonestPair
  <2>2. r \in SpecListing BY <2>1 DEF SpecListing
  <2>3. /\ r.words = q.words /\ r.settles = q.settles /\ r.source = q.source
        /\ r.oracle = q.oracle /\ r.rule = q.rule /\ r.resolution = q.resolution
        /\ r.start = q.start /\ r.end = q.end /\ r.eventStart = q.eventStart
        /\ r.eventEnd = q.eventEnd /\ r.direction = q.direction
    BY <2>1 DEF SpecListing
  <2>4. pair' = [pair EXCEPT !.polymarket = r] OBVIOUS
  <2> HIDE DEF r
  <2>5. pair'.predict = p /\ pair'.polymarket = r /\ pair'.kind = "specs"
        /\ pair' \in [kind : {"specs"}, predict : SpecListing, polymarket : SpecListing]
    BY <2>1, <2>2, <2>4
  <2>6. HonestSpec(r) BY <2>1, <2>3 DEF HonestSpec, HonestText
  <2>7. HonestPair(pair)' BY <2>1, <2>5, <2>6 DEF HonestPair
  <2>8. /\ Markets'[1] = normalizeBinaryMarketSpec(p)
        /\ Markets'[2] = normalizeBinaryMarketSpec(r)
        /\ Markets[1] = normalizeBinaryMarketSpec(p)
        /\ Markets[2] = normalizeBinaryMarketSpec(q)
    BY <1>1, <2>5 DEF Markets
  <2>9. LET o == normalizeBinaryMarketSpec(q)
            c == normalizeBinaryMarketSpec(r)
        IN c.start = o.start /\ c.end = o.end /\ c.up = o.up
    BY <2>3 DEF normalizeBinaryMarketSpec
  <2>10. Markets'[1] = Markets[1] BY <2>8
  <2>11. SameQuestion(p, q, Markets[1], Markets[2])
           => SameQuestion(p, r, Markets'[1], Markets'[2])
    BY <2>3, <2>8, <2>9 DEF SameQuestion
  <2> QED BY <1>1, <2>5, <2>7, <2>10, <2>11
<1>2. CASE pair.kind # "specs"
  <2>1. /\ pair \in [kind : {"raw"}, predict : PredictListing, polymarket : PolymarketListing]
        /\ HonestText(p) /\ HonestText(q) /\ p.resolution = q.resolution
        /\ \E i \in DOMAIN q.tokens : q.tokens[i] \in {"up", "yes"}
    BY <1>2 DEF HonestPair
  <2>2. r \in PolymarketListing BY <2>1 DEF PolymarketListing
  <2>3. /\ r.words = q.words /\ r.settles = q.settles /\ r.resolution = q.resolution
        /\ r.start = q.start /\ r.end = q.end /\ r.tokens = q.tokens
    BY <2>1 DEF PolymarketListing
  <2>4. pair' = [pair EXCEPT !.polymarket = r] OBVIOUS
  <2> HIDE DEF r
  <2>5. pair'.predict = p /\ pair'.polymarket = r /\ pair'.kind = "raw" /\ pair.kind = "raw"
        /\ pair' \in [kind : {"raw"}, predict : PredictListing, polymarket : PolymarketListing]
    BY <2>1, <2>2, <2>4
  <2>6. HonestText(r) BY <2>1, <2>3 DEF HonestText
  <2>7. HonestPair(pair)' BY <2>1, <2>3, <2>5, <2>6 DEF HonestPair
  <2>8. /\ Markets'[1] = normalizePredictMarket(p)
        /\ Markets'[2] = normalizePolymarketMarket(r)
        /\ Markets[1] = normalizePredictMarket(p)
        /\ Markets[2] = normalizePolymarketMarket(q)
    BY <1>2, <2>5 DEF Markets
  <2>9. LET o == normalizePolymarketMarket(q)
            c == normalizePolymarketMarket(r)
        IN c.start = o.start /\ c.end = o.end /\ c.up = o.up
    BY <2>3, RawReadings
  <2> QED BY <2>3, <2>5, <2>7, <2>8, <2>9 DEF SameQuestion
<1> QED BY <1>1, <1>2

LEMMA MatchStep == MatchIInv /\ [MatchNext]_matchVars => MatchIInv'
<1> SUFFICES ASSUME MatchIInv, [MatchNext]_matchVars PROVE MatchIInv' OBVIOUS
<1>1. CASE TimePasses
  <2>1. now' \in Nat /\ UNCHANGED <<accepted, approved>> BY <1>1 DEF TimePasses, MatchIInv
  <2>2. CASE pair' = pair
    <3>1. Markets' = Markets BY <2>2 DEF Markets
    <3> QED BY <2>1, <2>2, <3>1 DEF MatchIInv
  <2>3. CASE pair' = [pair EXCEPT !.polymarket.closed = TRUE]
    BY <2>1, <2>3, ClosingKeeps DEF MatchIInv
  <2> QED BY <1>1, <2>2, <2>3 DEF TimePasses
<1>2. CASE UNCHANGED matchVars
  <2>1. Markets' = Markets BY <1>2 DEF Markets, matchVars
  <2> QED BY <1>2, <2>1 DEF MatchIInv, matchVars
<1> QED BY <1>1, <1>2, ScanStep, DiscoverStep, ApproveStep DEF MatchNext

\* Whatever honest listings the venues have: what the TypeScript scan or the discovery
\* takes for two sides of a question pays one dollar, whatever the prices do; the
\* reference takes what the scan takes; and a trade let through had its time left
\* (hourly-btc-market-matcher.ts:26-74, strictMatcher.ts:11-62, matching.py:36-77).
THEOREM HedgesPayOne == MatchSpec => []HedgePaysOne
<1>1. MatchIInv => HedgePaysOne BY SameQuestionIsHedge DEF MatchIInv, HedgePaysOne
<1> QED BY <1>1, MatchStarts, MatchStep, PTL DEF MatchSpec

-----------------------------------------------------------------------------
(* Numbers: the least of a set, counting up, and Euclid's algorithm          *)

\* Every set of numbers has a least one.
LEMMA LeastNatural ==
  ASSUME NEW T, T \subseteq Nat, T # {}
  PROVE  \E x \in T : \A y \in T : x <= y
<1>1. \E x \in T : \A y \in T : ~(<<y, x>> \in OpToRel(<, Nat))
  BY NatLessThanWellFounded, WFMin
<1>2. PICK x \in T : \A y \in T : ~(<<y, x>> \in OpToRel(<, Nat)) BY <1>1
<1>3. \A y \in T : ~(y < x) BY <1>2 DEF OpToRel
<1> QED BY <1>3

\* A set of numbers that counts on from 0 holds them all.
LEMMA CountUp ==
  ASSUME NEW S, 0 \in S, \A k \in Nat : k \in S => k + 1 \in S
  PROVE  Nat \subseteq S
<1> SUFFICES ASSUME Nat \ S # {} PROVE FALSE OBVIOUS
<1>1. PICK k \in Nat \ S : \A y \in Nat \ S : k <= y BY LeastNatural
<1>2. k # 0 /\ k - 1 \in Nat /\ k - 1 \in S BY <1>1
<1>3. (k - 1) + 1 \in S BY <1>2
<1> QED BY <1>1, <1>3

Upto(n) == Nat \X (0..n)

\* One step of Euclid's algorithm, and what it leads to.
Step(p) == <<p[2], p[1] % p[2]>>

Descends(g, n) == \A p \in Upto(n) : g[p] = IF p[2] = 0 THEN p[1] ELSE g[Step(p)]

Solves(g, n) == g \in [Upto(n) -> Nat] /\ Descends(g, n)

\* Division with a remainder.
LEMMA Modulus ==
  ASSUME NEW a \in Int, NEW b \in Nat, b # 0
  PROVE  /\ a % b \in 0..(b - 1) /\ a \div b \in Int
         /\ a = (b * (a \div b)) + (a % b)
         /\ a >= 0 => a \div b >= 0
OBVIOUS

LEMMA StepDown ==
  ASSUME NEW n \in Nat, NEW p \in Upto(n), p[2] # 0
  PROVE  /\ p[2] - 1 \in Nat
         /\ Step(p) \in Upto(p[2] - 1) /\ Step(p) \in Upto(n)
         /\ Step(p)[2] \in Nat /\ Step(p)[2] < p[2]
<1>1. p[1] \in Int /\ p[2] \in Nat /\ p[2] # 0 /\ p[2] <= n BY DEF Upto
<1>2. p[1] % p[2] \in 0..(p[2] - 1) BY ONLY <1>1, Modulus
<1> QED BY <1>1, <1>2 DEF Upto, Step

\* A function follows Euclid's algorithm up to any second argument.
LEMMA SolutionExists == ASSUME NEW n \in Nat PROVE \E g : Solves(g, n)
<1> DEFINE S == {k \in Nat : \E g : Solves(g, k)}
<1>1. 0 \in S
  <2> DEFINE g == [p \in Upto(0) |-> p[1]]
  <2>1. \A p \in Upto(0) : p[2] = 0 /\ p[1] \in Nat BY DEF Upto
  <2>2. Solves(g, 0) BY <2>1 DEF Solves, Descends
  <2> QED BY <2>2
<1>2. ASSUME NEW k \in Nat, k \in S PROVE k + 1 \in S
  <2>1. PICK g : Solves(g, k) BY <1>2
  <2> DEFINE h == [p \in Upto(k + 1) |-> IF p[2] = 0 THEN p[1] ELSE g[Step(p)]]
  <2>2. \A p \in Upto(k + 1) : /\ p[1] \in Nat /\ p[2] \in Nat
                               /\ p[2] # 0 => Step(p) \in Upto(k) /\ Step(p) \in Upto(k + 1)
    <3> SUFFICES ASSUME NEW p \in Upto(k + 1)
                 PROVE  /\ p[1] \in Nat /\ p[2] \in Nat
                        /\ p[2] # 0 => Step(p) \in Upto(k) /\ Step(p) \in Upto(k + 1)
      OBVIOUS
    <3>1. p[1] \in Nat /\ p[2] \in 0..(k + 1) BY DEF Upto
    <3>2. ASSUME p[2] # 0 PROVE Step(p) \in Upto(k) /\ Step(p) \in Upto(k + 1)
      <4>1. Step(p) \in Upto(p[2] - 1) /\ Step(p) \in Upto(k + 1) BY <3>2, StepDown
      <4> QED BY <3>1, <4>1 DEF Upto
    <3> QED BY <3>1, <3>2
  <2>3. h \in [Upto(k + 1) -> Nat] BY <2>1, <2>2 DEF Solves
  <2>4. \A p \in Upto(k) : p \in Upto(k + 1) BY DEF Upto
  <2>5. \A p \in Upto(k) : h[p] = g[p] BY <2>1, <2>4 DEF Solves, Descends
  <2>6. \A p \in Upto(k + 1) : h[p] = IF p[2] = 0 THEN p[1] ELSE h[Step(p)]
    BY <2>2, <2>5
  <2> HIDE DEF h
  <2>7. Solves(h, k + 1) BY <2>3, <2>6 DEF Solves, Descends
  <2> QED BY <2>7
<1> HIDE DEF S
<1>3. Nat \subseteq S BY <1>1, <1>2, CountUp
<1> QED BY <1>3 DEF S

\* Solutions agree where both are defined.
LEMMA SolutionsAgree ==
  ASSUME NEW n \in Nat, NEW g, NEW h, Descends(g, n), Descends(h, n), NEW p \in Upto(n)
  PROVE  g[p] = h[p]
<1> DEFINE bad == {k \in Nat : \E q \in Upto(n) : q[2] = k /\ g[q] # h[q]}
<1>1. bad = {}
  <2> SUFFICES ASSUME bad # {} PROVE FALSE OBVIOUS
  <2>1. PICK k \in bad : \A y \in bad : k <= y BY LeastNatural
  <2>2. PICK q \in Upto(n) : q[2] = k /\ g[q] # h[q] BY <2>1
  <2>3. q[2] # 0 BY <2>2 DEF Descends
  <2>4. Step(q) \in Upto(n) /\ Step(q)[2] \in Nat /\ Step(q)[2] < q[2] BY <2>3, StepDown
  <2>5. g[Step(q)] # h[Step(q)] BY <2>2, <2>3 DEF Descends
  <2>6. Step(q)[2] \in bad BY <2>4, <2>5
  <2>7. k \in Nat BY <2>1
  <2> QED BY <2>1, <2>2, <2>4, <2>6, <2>7
<1> QED BY <1>1 DEF Upto

\* The recursive function gcd is defined everywhere, by Euclid's algorithm.
LEMMA GcdSolves ==
  /\ gcd \in [Nat \X Nat -> Nat]
  /\ \A p \in Nat \X Nat : gcd[p] = IF p[2] = 0 THEN p[1] ELSE gcd[Step(p)]
<1> DEFINE Eq(G) == G = [p \in Nat \X Nat |-> IF p[2] = 0 THEN p[1] ELSE G[Step(p)]]
           sol(n) == CHOOSE g : Solves(g, n)
           G == [p \in Nat \X Nat |-> sol(p[2])[p]]
<1>0. \A n \in Nat : Upto(n) \subseteq Nat \X Nat BY DEF Upto
<1>1. \A n \in Nat : Solves(sol(n), n) BY SolutionExists
<1> HIDE DEF sol
<1>2. \A p \in Nat \X Nat : p \in Upto(p[2]) /\ p[1] \in Nat /\ p[2] \in Nat BY DEF Upto
<1>3. G \in [Nat \X Nat -> Nat] BY <1>1, <1>2 DEF Solves
<1>4. ASSUME NEW p \in Nat \X Nat
      PROVE  G[p] = IF p[2] = 0 THEN p[1] ELSE G[Step(p)]
  <2>1. sol(p[2])[p] = IF p[2] = 0 THEN p[1] ELSE sol(p[2])[Step(p)]
    BY <1>1, <1>2 DEF Solves, Descends
  <2>2. ASSUME p[2] # 0 PROVE sol(p[2])[Step(p)] = G[Step(p)]
    <3> DEFINE q == Step(p)
    <3>1. q \in Upto(p[2]) /\ q[2] \in Nat /\ q[2] < p[2] BY <1>2, <2>2, StepDown
    <3>2. q \in Nat \X Nat /\ q \in Upto(q[2]) BY <3>1, <1>0, <1>2
    <3>3. \A r \in Upto(q[2]) : r \in Upto(p[2]) BY <3>1, <1>2 DEF Upto
    <3> HIDE DEF q
    <3> DEFINE g == sol(p[2])
               h == sol(q[2])
    <3>4. Descends(g, q[2]) /\ Descends(h, q[2])
      BY <1>1, <1>2, <3>1, <3>3 DEF Solves, Descends
    <3> HIDE DEF g, h, q
    <3>5. g[q] = h[q] BY <3>1, <3>2, <3>4, SolutionsAgree
    <3> QED BY <3>2, <3>5 DEF q, g, h
  <2> QED BY <2>1, <2>2
<1> HIDE DEF G
<1>5. Eq(G) BY <1>3, <1>4
<1>6. gcd = CHOOSE g : Eq(g) BY DEF gcd, Step
<1> DEFINE chosen == CHOOSE g : Eq(g)
<1> HIDE DEF Eq
<1>7. Eq(chosen) BY <1>5
<1> HIDE DEF chosen
<1>8. Eq(gcd) BY <1>6, <1>7 DEF chosen
<1>9. /\ gcd = [p \in Nat \X Nat |-> gcd[p]]
      /\ \A p \in Nat \X Nat : gcd[p] = IF p[2] = 0 THEN p[1] ELSE gcd[Step(p)]
  BY <1>8 DEF Eq
<1>10. ASSUME NEW p \in Nat \X Nat PROVE gcd[p] = G[p]
  <2>1. Descends(gcd, p[2]) /\ Descends(G, p[2]) BY <1>0, <1>2, <1>4, <1>9 DEF Descends
  <2> QED BY <1>2, <2>1, SolutionsAgree
<1>11. gcd \in [Nat \X Nat -> Nat] BY <1>3, <1>9, <1>10
<1> QED BY <1>9, <1>11

\* It is a common divisor, and a combination of both numbers.
LEMMA GcdDivides ==
  ASSUME NEW a \in Nat, NEW b \in Nat
  PROVE  \E p \in Nat, q \in Nat, u \in Int, v \in Int :
           LET g == gcd[<<a, b>>]
           IN g \in Nat /\ a = g * p /\ b = g * q /\ g = u * a + v * b
<1> DEFINE Divides_(g, x, y) == \E p \in Nat, q \in Nat, u \in Int, v \in Int :
                             g \in Nat /\ x = g * p /\ y = g * q /\ g = u * x + v * y
           bad == {k \in Nat : \E x \in Nat : ~Divides_(gcd[<<x, k>>], x, k)}
<1>1. bad = {}
  <2> SUFFICES ASSUME bad # {} PROVE FALSE OBVIOUS
  <2>1. PICK k \in bad : \A y \in bad : k <= y BY LeastNatural
  <2>2. k \in Nat /\ \E x \in Nat : ~Divides_(gcd[<<x, k>>], x, k) BY <2>1
  <2>3. PICK x \in Nat : ~Divides_(gcd[<<x, k>>], x, k) BY <2>2
  <2>4. CASE k = 0
    <3>1. gcd[<<x, k>>] = x BY <2>4, GcdSolves
    <3>2. x = x * 1 /\ 0 = x * 0 /\ x = 1 * x + 0 * 0 BY SMT
    <3> HIDE DEF bad
    <3>3. Divides_(x, x, 0) BY <3>2
    <3> QED BY <2>3, <2>4, <3>1, <3>3
  <2>5. CASE k # 0
    <3> DEFINE r == x % k
               d == x \div k
               g == gcd[<<k, r>>]
    <3>1. r \in Nat /\ d \in Nat /\ r < k /\ x = (k * d) + r
      <4>1. k \in Nat /\ k # 0 /\ x \in Int /\ x >= 0 BY <2>2, <2>5
      <4>2. /\ x % k \in 0..(k - 1) /\ x \div k \in Int
            /\ x = (k * (x \div k)) + (x % k)
            /\ x \div k >= 0
        BY ONLY <4>1, Modulus
      <4> HIDE DEF bad
      <4> QED BY <4>1, <4>2
    <3>2. gcd[<<x, k>>] = g
      <4>1. <<x, k>> \in Nat \X Nat /\ <<x, k>>[1] = x /\ <<x, k>>[2] = k BY <2>2
      <4> QED BY <2>5, <4>1, GcdSolves DEF Step
    <3>3. r \notin bad
      <4> HIDE DEF bad, r, d, g
      <4> QED BY <2>1, <2>2, <3>1
    <3>4. Divides_(g, k, r) BY <2>2, <3>1, <3>3
    <3> HIDE DEF r, d, g, bad
    <3>5. PICK p \in Nat, q \in Nat, u \in Int, v \in Int :
            g \in Nat /\ k = g * p /\ r = g * q /\ g = u * k + v * r
      BY <3>4
    <3>6. x = g * (p * d + q)
      <4>1. x = (g * p) * d + g * q BY <3>1, <3>5
      <4>2. (g * p) * d + g * q = g * (p * d + q) BY <3>1, <3>5
      <4> QED BY <4>1, <4>2
    <3>7. g = v * x + (u - v * d) * k
      <4>1. v * x = v * (k * d + r) BY <3>1
      <4>2. k * d = d * k BY <2>2, <3>1
      <4>3. v * (d * k + r) = v * (d * k) + v * r BY <2>2, <3>1, <3>5
      <4>4. v * (d * k) = (v * d) * k BY <2>2, <3>1, <3>5
      <4> DEFINE w == v * d
      <4>5. w \in Int BY <3>1, <3>5
      <4> HIDE DEF w
      <4>6. (u - w) * k = u * k - w * k BY <2>2, <3>5, <4>5
      <4> DEFINE uk == u * k
                 wk == w * k
                 vr == v * r
      <4>7. uk \in Int /\ wk \in Int /\ vr \in Int BY <2>2, <3>1, <3>5, <4>5
      <4>8. v * x + (u - w) * k = (wk + vr) + (uk - wk)
        BY <4>1, <4>2, <4>3, <4>4, <4>6 DEF w
      <4> HIDE DEF uk, wk, vr
      <4>9. (wk + vr) + (uk - wk) = uk + vr BY <4>7
      <4> QED BY <3>5, <4>8, <4>9 DEF w, uk, vr
    <3>8. p * d + q \in Nat /\ u - v * d \in Int BY <3>1, <3>5
    <3>9. Divides_(g, x, k) BY <3>5, <3>6, <3>7, <3>8
    <3> QED BY <2>3, <3>2, <3>9
  <2> QED BY <2>4, <2>5
<1>2. Divides_(gcd[<<a, b>>], a, b) BY <1>1
<1> QED BY <1>2

-----------------------------------------------------------------------------
(* Fractions                                                                 *)

\* Two numbers that combine to one have no common divisor.
Coprime(a, b) == \E u \in Int, v \in Int : u * a + v * b = 1

LEMMA ByDivisor ==
  ASSUME NEW g \in Nat \ {0}, NEW k \in Int
  PROVE  (g * k) \div g = k
<1> DEFINE n == g * k
           q == n \div g
           r == n % g
<1>1. n \in Int OBVIOUS
<1>2. /\ r \in 0..(g - 1) /\ q \in Int
      /\ n = (g * q) + r
  BY <1>1, Modulus
<1> HIDE DEF q, r
<1>3. g * (k - q) = r BY <1>2
<1>4. k - q = 0
  <2>1. CASE k - q >= 1
    <3>1. g * (k - q) >= g BY <2>1, <1>2
    <3> QED BY <1>2, <1>3, <3>1
  <2>2. CASE k - q <= -1
    <3>1. g * (k - q) <= -g BY <2>2, <1>2
    <3> QED BY <1>2, <1>3, <3>1
  <2> QED BY <2>1, <2>2, <1>2
<1> QED BY <1>2, <1>4 DEF q

\* What a fraction is made of: both parts divided by their greatest common divisor.
IsReduced(n, d, g, a, b) ==
  /\ Frac(n, d) = <<a, b>>
  /\ n = g * a /\ d = g * b
  /\ Coprime(a, b)

\* Frac reduces both of its numbers by their greatest common divisor.
LEMMA FracParts ==
  ASSUME NEW n \in Int, NEW d \in Nat \ {0}
  PROVE  \E g \in Nat \ {0}, a \in Int, b \in Nat \ {0} : IsReduced(n, d, g, a, b)
<1> DEFINE m == IF n < 0 THEN -n ELSE n
           g == gcd[<<m, d>>]
<1>1. m \in Nat OBVIOUS
<1> HIDE DEF m
<1>2. PICK p \in Nat, q \in Nat, u \in Int, v \in Int :
        g \in Nat /\ m = g * p /\ d = g * q /\ g = u * m + v * d
  BY <1>1, GcdDivides
<1>3. Frac(n, d) = <<n \div g, d \div g>> BY DEF Frac, Reduced, m
<1> DEFINE a == IF n < 0 THEN -p ELSE p
           w == IF n < 0 THEN -u ELSE u
<1> USE DEF m
<1>4. a \in Int /\ w \in Int OBVIOUS
<1>5. n = g * a
  <2> HIDE DEF g
  <2>1. CASE n < 0
    <3>1. n = -(g * p) BY <2>1, <1>2
    <3>2. -(g * p) = g * (-p) BY <1>2
    <3> QED BY <2>1, <3>1, <3>2
  <2>2. CASE ~(n < 0) BY <2>2, <1>2
  <2> QED BY <2>1, <2>2
<1>6. g = w * n + v * d
  <2> HIDE DEF g
  <2>1. CASE n < 0
    <3>1. u * m = w * n BY <2>1
    <3> QED BY <1>2, <3>1
  <2>2. CASE ~(n < 0) BY <2>2, <1>2
  <2> QED BY <2>1, <2>2
<1> HIDE DEF a, w, m, g
<1>7. g \in Nat \ {0} /\ q \in Nat \ {0}
  <2>1. g # 0 BY <1>2
  <2>2. q # 0 BY <1>2
  <2> QED BY <1>2, <2>1, <2>2
<1>8. Frac(n, d) = <<a, q>> BY <1>2, <1>3, <1>4, <1>5, <1>7, ByDivisor
<1>9. w * a + v * q = 1
  <2>1. g = g * (w * a + v * q)
    <3>1. g = w * (g * a) + v * (g * q) BY <1>2, <1>5, <1>6
    <3>2. w * (g * a) + v * (g * q) = g * (w * a + v * q) BY <1>2, <1>4, <1>7
    <3> QED BY <3>1, <3>2
  <2> DEFINE k == w * a + v * q
  <2>2. k \in Int BY <1>2, <1>4
  <2> HIDE DEF k
  <2>3. g = g * k BY <2>1 DEF k
  <2>4. g * (k - 1) = 0 BY <2>2, <2>3, <1>7
  <2>5. k - 1 = 0 BY <2>2, <2>4, <1>7
  <2> QED BY <2>2, <2>5 DEF k
<1> QED BY <1>2, <1>4, <1>5, <1>7, <1>8, <1>9 DEF Coprime, IsReduced

\* Fractions in lowest terms are equal when they are worth the same.
LEMMA LowestTerms ==
  ASSUME NEW a \in Int, NEW b \in Nat \ {0}, Coprime(a, b),
         NEW c \in Int, NEW d \in Nat \ {0}, Coprime(c, d),
         a * d = c * b
  PROVE  a = c /\ b = d
<1>1. PICK u \in Int, v \in Int : u * a + v * b = 1 BY DEF Coprime
<1>2. PICK w \in Int, x \in Int : w * c + x * d = 1 BY DEF Coprime
<1> DEFINE k == u * c + v * d
           l == w * a + x * b
<1>3. d = b * k
  <2>1. d = d * (u * a + v * b) BY <1>1
  <2>2. d * (u * a + v * b) = u * (a * d) + v * b * d BY <1>1
  <2>3. u * (c * b) + v * b * d = b * (u * c + v * d) BY <1>1
  <2> QED BY <2>1, <2>2, <2>3
<1>4. b = d * l
  <2>1. b = b * (w * c + x * d) BY <1>2
  <2>2. b * (w * c + x * d) = w * (c * b) + x * b * d BY <1>2
  <2>3. w * (a * d) + x * b * d = d * (w * a + x * b) BY <1>2
  <2> QED BY <2>1, <2>2, <2>3
<1>5. k \in Int /\ l \in Int BY <1>1, <1>2
<1> HIDE DEF k, l
<1>6. k >= 1 /\ l >= 1
  <2>1. k >= 1
    <3>1. ~(k <= 0) BY <1>3, <1>5
    <3> QED BY <3>1, <1>5
  <2>2. l >= 1
    <3>1. ~(l <= 0) BY <1>4, <1>5
    <3> QED BY <3>1, <1>5
  <2> QED BY <2>1, <2>2
<1>7. d >= b
  <2>1. b * (k - 1) >= 0 BY <1>5, <1>6
  <2>2. b * k = b * (k - 1) + b BY <1>5
  <2> QED BY <1>3, <1>5, <2>1, <2>2
<1>8. b >= d
  <2>1. d * (l - 1) >= 0 BY <1>5, <1>6
  <2>2. d * l = d * (l - 1) + d BY <1>5
  <2> QED BY <1>4, <1>5, <2>1, <2>2
<1>9. b = d BY <1>7, <1>8
<1>10. b * (a - c) = 0 BY <1>9
<1>11. a - c = 0 BY <1>10
<1> QED BY <1>9, <1>11

\* Two ratios reduce to the same fraction exactly if they are the same.
LEMMA FracSame ==
  ASSUME NEW n \in Int, NEW d \in Nat \ {0}, NEW m \in Int, NEW e \in Nat \ {0}
  PROVE  Frac(n, d) = Frac(m, e) <=> n * e = m * d
<1>01. PICK g \in Nat \ {0}, a \in Int, b \in Nat \ {0} : IsReduced(n, d, g, a, b)
  BY FracParts
<1>02. PICK h \in Nat \ {0}, p \in Int, q \in Nat \ {0} : IsReduced(m, e, h, p, q)
  BY FracParts
<1>1. Frac(n, d) = <<a, b>> /\ n = g * a /\ d = g * b /\ Coprime(a, b) BY <1>01 DEF IsReduced
<1>2. Frac(m, e) = <<p, q>> /\ m = h * p /\ e = h * q /\ Coprime(p, q) BY <1>02 DEF IsReduced
<1>3. n * e = (g * h) * (a * q) /\ m * d = (g * h) * (p * b)
  <2>1. (g * a) * (h * q) = (g * h) * (a * q) BY <1>1, <1>2
  <2>2. (h * p) * (g * b) = (g * h) * (p * b) BY <1>1, <1>2
  <2> QED BY <1>1, <1>2, <2>1, <2>2
<1>4. n * e = m * d <=> a * q = p * b
  <2> DEFINE k == g * h
             s == a * q
             t == p * b
  <2>1. k \in Int /\ k > 0 /\ s \in Int /\ t \in Int BY <1>1, <1>2
  <2> HIDE DEF k, s, t
  <2>2. k * s = k * t <=> k * (s - t) = 0 BY <2>1
  <2>3. k * (s - t) = 0 <=> s - t = 0 BY <2>1
  <2>4. k * s = k * t <=> s = t BY <2>1, <2>2, <2>3
  <2> QED BY <1>3, <2>4 DEF k, s, t
<1>5. a * q = p * b => a = p /\ b = q BY <1>1, <1>2, LowestTerms
<1>6. <<a, b>> = <<p, q>> <=> a = p /\ b = q OBVIOUS
<1> QED BY <1>1, <1>2, <1>4, <1>5, <1>6

Positive == Nat \ {0}

LEMMA CancelFactor ==
  ASSUME NEW k \in Positive, NEW s \in Int, NEW t \in Int
  PROVE  (k * s = k * t <=> s = t) /\ (k * s < k * t <=> s < t)
<1>1. ASSUME s < t PROVE k * s < k * t
  <2>1. k * (t - s) > 0 BY <1>1 DEF Positive
  <2> QED BY <2>1 DEF Positive
<1>2. ASSUME t < s PROVE k * t < k * s
  <2>1. k * (s - t) > 0 BY <1>2 DEF Positive
  <2> QED BY <2>1 DEF Positive
<1>3. k * s \in Int /\ k * t \in Int BY DEF Positive
<1> QED BY <1>1, <1>2, <1>3

\* a over b is as much as c over d.
SameRatio(a, b, c, d) == a * d = c * b

LEMMA RatioThrough ==
  ASSUME NEW a \in Int, NEW b \in Int, NEW c \in Int, NEW d \in Positive,
         NEW e \in Int, NEW f \in Int, SameRatio(a, b, c, d), SameRatio(c, d, e, f)
  PROVE  SameRatio(a, b, e, f)
<1> USE DEF SameRatio
<1>1. d * (a * f) = (a * d) * f BY DEF Positive
<1>2. (c * b) * f = (c * f) * b BY DEF Positive
<1>3. (e * d) * b = d * (e * b) BY DEF Positive
<1>4. d * (a * f) = d * (e * b) BY <1>1, <1>2, <1>3
<1>5. a * f \in Int /\ e * b \in Int OBVIOUS
<1> QED BY ONLY <1>4, <1>5, CancelFactor

LEMMA FracType ==
  ASSUME NEW n \in Int, NEW d \in Positive
  PROVE  /\ Frac(n, d) \in Fraction
         /\ Frac(n, d)[1] * d = n * Frac(n, d)[2]
<1>1. PICK g \in Nat \ {0}, a \in Int, b \in Nat \ {0} : IsReduced(n, d, g, a, b)
  BY FracParts DEF Positive
<1>2. Frac(n, d) = <<a, b>> /\ n = g * a /\ d = g * b BY <1>1 DEF IsReduced
<1>3. a * d = n * b
  <2>1. a * (g * b) = (g * a) * b BY <1>1
  <2> QED BY <1>2, <2>1
<1>4. Frac(a, b) = Frac(n, d) BY <1>3, FracSame DEF Positive
<1> QED BY <1>2, <1>3, <1>4 DEF Fraction

LEMMA FractionType ==
  ASSUME NEW x \in Fraction
  PROVE  /\ x[1] \in Int /\ x[2] \in Positive
         /\ x = <<x[1], x[2]>>
         /\ Frac(x[1], x[2]) = x
         /\ Coprime(x[1], x[2])
<1>1. x[1] \in Int /\ x[2] \in Nat \ {0} /\ Frac(x[1], x[2]) = x /\ x = <<x[1], x[2]>>
  BY DEF Fraction
<1>2. PICK g \in Nat \ {0}, a \in Int, b \in Nat \ {0} : IsReduced(x[1], x[2], g, a, b)
  BY <1>1, FracParts
<1>3. x = <<a, b>> /\ Coprime(a, b) BY <1>1, <1>2 DEF IsReduced
<1>4. a = x[1] /\ b = x[2] BY <1>3
<1> QED BY <1>1, <1>3, <1>4 DEF Positive

LEMMA PositiveProduct ==
  ASSUME NEW k \in Positive, NEW l \in Positive
  PROVE  k * l \in Positive
BY DEF Positive

LEMMA Scaled ==
  ASSUME NEW n \in Int, NEW d \in Positive, NEW k \in Positive
  PROVE  Frac(k * n, k * d) = Frac(n, d)
<1>1. (k * n) * d = n * (k * d) BY DEF Positive
<1>2. k * n \in Int /\ k * d \in Positive BY PositiveProduct DEF Positive
<1> QED BY <1>1, <1>2, FracSame DEF Positive

LEMMA CoprimeBothWays ==
  ASSUME NEW a \in Int, NEW b \in Int, Coprime(a, b)
  PROVE  Coprime(b, a)
<1>1. PICK u \in Int, v \in Int : u * a + v * b = 1 BY DEF Coprime
<1>2. v * b + u * a = 1 BY <1>1
<1> QED BY <1>1, <1>2 DEF Coprime

\* Products, sums and the order, in the lowest terms the module computes them in,
LEMMA MulIs ==
  ASSUME NEW x \in Fraction, NEW y \in Fraction
  PROVE  Mul(x, y) = Frac(x[1] * y[1], x[2] * y[2])
BY DEF Mul

LEMMA AddIs ==
  ASSUME NEW x \in Fraction, NEW y \in Fraction
  PROVE  /\ Add(x, y) = Frac(x[1] * y[2] + y[1] * x[2], x[2] * y[2])
         /\ Less(x, y) <=> x[1] * y[2] < y[1] * x[2]
BY DEF Add, Less

\* What the operators make of fractions that need not be in lowest terms.
LEMMA Arithmetic ==
  ASSUME NEW n \in Int, NEW d \in Positive, NEW m \in Int, NEW e \in Positive
  PROVE  /\ Mul(Frac(n, d), Frac(m, e)) = Frac(n * m, d * e)
         /\ Add(Frac(n, d), Frac(m, e)) = Frac(n * e + m * d, d * e)
         /\ Less(Frac(n, d), Frac(m, e)) <=> n * e < m * d
<1>1. PICK g \in Nat \ {0}, x1 \in Int, x2 \in Nat \ {0} : IsReduced(n, d, g, x1, x2)
  BY FracParts DEF Positive
<1>2. PICK h \in Nat \ {0}, y1 \in Int, y2 \in Nat \ {0} : IsReduced(m, e, h, y1, y2)
  BY FracParts DEF Positive
<1>3. /\ Frac(n, d) = <<x1, x2>> /\ n = g * x1 /\ d = g * x2 /\ Coprime(x1, x2)
      /\ Frac(m, e) = <<y1, y2>> /\ m = h * y1 /\ e = h * y2 /\ Coprime(y1, y2)
  BY <1>1, <1>2 DEF IsReduced
<1>30. /\ Frac(n, d)[1] = x1 /\ Frac(n, d)[2] = x2
       /\ Frac(m, e)[1] = y1 /\ Frac(m, e)[2] = y2
  BY <1>3
<1>4. Frac(n, d) \in Fraction /\ Frac(m, e) \in Fraction BY FracType
<1> DEFINE k == g * h
<1>5. k \in Positive /\ x2 * y2 \in Positive BY <1>1, <1>2, PositiveProduct DEF Positive
<1>6. /\ n * m = k * (x1 * y1) /\ d * e = k * (x2 * y2)
      /\ n * e = k * (x1 * y2) /\ m * d = k * (y1 * x2)
  <2>1. (g * x1) * (h * y1) = (g * h) * (x1 * y1) BY <1>1, <1>2
  <2>2. (g * x2) * (h * y2) = (g * h) * (x2 * y2) BY <1>1, <1>2
  <2>3. (g * x1) * (h * y2) = (g * h) * (x1 * y2) BY <1>1, <1>2
  <2>4. (h * y1) * (g * x2) = (g * h) * (y1 * x2) BY <1>1, <1>2
  <2> QED BY <1>3, <2>1, <2>2, <2>3, <2>4
<1> HIDE DEF k
<1>7. x1 * y1 \in Int /\ x1 * y2 \in Int /\ y1 * x2 \in Int /\ x1 * y2 + y1 * x2 \in Int
  BY <1>1, <1>2
<1>8. n * e + m * d = k * (x1 * y2 + y1 * x2) BY <1>5, <1>6, <1>7 DEF Positive
<1>9. Mul(Frac(n, d), Frac(m, e)) = Frac(n * m, d * e)
  <2>1. Mul(Frac(n, d), Frac(m, e)) = Frac(x1 * y1, x2 * y2) BY <1>4, <1>30, MulIs
  <2>2. Frac(k * (x1 * y1), k * (x2 * y2)) = Frac(x1 * y1, x2 * y2) BY <1>5, <1>7, Scaled
  <2> QED BY <1>6, <2>1, <2>2
<1>10. Add(Frac(n, d), Frac(m, e)) = Frac(n * e + m * d, d * e)
  <2>1. Add(Frac(n, d), Frac(m, e)) = Frac(x1 * y2 + y1 * x2, x2 * y2) BY <1>4, <1>30, AddIs
  <2>2. Frac(k * (x1 * y2 + y1 * x2), k * (x2 * y2)) = Frac(x1 * y2 + y1 * x2, x2 * y2)
    BY <1>5, <1>7, Scaled
  <2> QED BY <1>6, <1>8, <2>1, <2>2
<1>11. Less(Frac(n, d), Frac(m, e)) <=> n * e < m * d
  <2>1. k * (x1 * y2) < k * (y1 * x2) <=> x1 * y2 < y1 * x2 BY ONLY <1>5, <1>7, CancelFactor
  <2> QED BY <1>3, <1>4, <1>6, <2>1, AddIs
<1> QED BY <1>9, <1>10, <1>11

\* The negative of a fraction, and one turned over.
LEMMA Turned ==
  ASSUME NEW n \in Int, NEW d \in Positive, NEW m \in Int, NEW e \in Positive
  PROVE  /\ -n \in Int /\ <<-Frac(n, d)[1], Frac(n, d)[2]>> = Frac(-n, d)
         /\ m > 0 => /\ m \in Positive /\ d * m \in Positive
                     /\ <<Frac(m, e)[2], Frac(m, e)[1]>> = Frac(e, m)
<1>1. PICK g \in Nat \ {0}, x1 \in Int, x2 \in Nat \ {0} : IsReduced(n, d, g, x1, x2)
  BY FracParts DEF Positive
<1>2. PICK h \in Nat \ {0}, y1 \in Int, y2 \in Nat \ {0} : IsReduced(m, e, h, y1, y2)
  BY FracParts DEF Positive
<1>3. /\ Frac(n, d) = <<x1, x2>> /\ n = g * x1 /\ d = g * x2 /\ Coprime(x1, x2)
      /\ Frac(m, e) = <<y1, y2>> /\ m = h * y1 /\ e = h * y2 /\ Coprime(y1, y2)
  BY <1>1, <1>2 DEF IsReduced
<1>12. <<-x1, x2>> = Frac(-n, d)
  <2>1. Coprime(-x1, x2)
    <3>1. PICK u \in Int, v \in Int : u * x1 + v * x2 = 1 BY <1>3 DEF Coprime
    <3>2. (-u) * (-x1) + v * x2 = 1 /\ -u \in Int BY <1>1, <3>1
    <3> QED BY <3>1, <3>2 DEF Coprime
  <2>2. PICK l \in Nat \ {0}, p \in Int, q \in Nat \ {0} : IsReduced(-n, d, l, p, q)
    <3>1. -n \in Int /\ d \in Nat \ {0} BY DEF Positive
    <3> QED BY <3>1, FracParts
  <2>3. Frac(-n, d) = <<p, q>> /\ -n = l * p /\ d = l * q /\ Coprime(p, q)
    BY <2>2 DEF IsReduced
  <2>4. (-x1) * q = p * x2
    <3> DEFINE o == -x1
               c == -n
    <3>1. o * d = c * x2
      <4>1. (-x1) * (g * x2) = (-(g * x1)) * x2 BY <1>1
      <4> QED BY <1>3, <4>1
    <3>2. c * q = p * d
      <4>1. (l * p) * q = p * (l * q) BY <2>2
      <4> QED BY <2>3, <4>1
    <3>3. o \in Int /\ c \in Int /\ x2 \in Int /\ q \in Int BY <1>1, <2>2
    <3>4. x2 \in Int /\ d \in Positive /\ p \in Int BY <1>1, <2>2
    <3> HIDE DEF o, c
    <3>5. SameRatio(o, x2, c, d) /\ SameRatio(c, d, p, q) BY <3>1, <3>2 DEF SameRatio
    <3>6. SameRatio(o, x2, p, q) BY <3>3, <3>4, <3>5, RatioThrough
    <3> QED BY <3>6 DEF o, SameRatio
  <2>5. -x1 \in Int BY <1>1
  <2>6. -x1 = p /\ x2 = q BY ONLY <1>1, <2>1, <2>2, <2>3, <2>4, <2>5, LowestTerms
  <2> QED BY <2>3, <2>6
<1>13. ASSUME m > 0
       PROVE  m \in Positive /\ d * m \in Positive /\ <<y2, y1>> = Frac(e, m)
  <2>1. m \in Positive /\ d * m \in Positive BY <1>13, PositiveProduct DEF Positive
  <2>2. y1 \in Nat \ {0}
    <3>1. ~(y1 <= 0) BY <1>2, <1>3, <1>13
    <3> QED BY <1>2, <3>1
  <2>3. PICK l \in Nat \ {0}, p \in Int, q \in Nat \ {0} : IsReduced(e, m, l, p, q)
    <3>1. e \in Int /\ m \in Nat \ {0} BY <2>1 DEF Positive
    <3> QED BY <3>1, FracParts
  <2>4. Frac(e, m) = <<p, q>> /\ e = l * p /\ m = l * q /\ Coprime(p, q)
    BY <2>3 DEF IsReduced
  <2>5. y2 * q = p * y1
    <3>1. y2 * m = e * y1
      <4>1. y2 * (h * y1) = (h * y2) * y1 BY <1>2
      <4> QED BY <1>3, <4>1
    <3>2. e * q = p * m
      <4>1. (l * p) * q = p * (l * q) BY <2>3
      <4> QED BY <2>4, <4>1
    <3>3. y2 \in Int /\ y1 \in Int /\ e \in Int /\ q \in Int BY <1>2, <2>3 DEF Positive
    <3>4. SameRatio(y2, y1, e, m) /\ SameRatio(e, m, p, q) BY <3>1, <3>2 DEF SameRatio
    <3>5. SameRatio(y2, y1, p, q) BY <2>1, <2>3, <3>3, <3>4, RatioThrough
    <3> QED BY <3>5 DEF SameRatio
  <2>6. Coprime(y2, y1) BY <1>2, <1>3, CoprimeBothWays
  <2>7. y2 \in Int BY <1>2
  <2>8. y2 = p /\ y1 = q BY ONLY <2>2, <2>3, <2>4, <2>5, <2>6, <2>7, LowestTerms
  <2> QED BY <2>1, <2>4, <2>8
<1> QED BY <1>3, <1>12, <1>13

LEMMA Products ==
  ASSUME NEW n \in Int, NEW d \in Positive, NEW m \in Int, NEW e \in Positive
  PROVE  /\ Mul(Frac(n, d), Frac(m, e)) = Frac(n * m, d * e)
         /\ m > 0 => Div(Frac(n, d), Frac(m, e)) = Frac(n * e, d * m)
<1>1. ASSUME m > 0 PROVE Div(Frac(n, d), Frac(m, e)) = Frac(n * e, d * m)
  <2>1. m \in Positive /\ <<Frac(m, e)[2], Frac(m, e)[1]>> = Frac(e, m) BY <1>1, Turned
  <2>2. e \in Int BY DEF Positive
  <2>3. Mul(Frac(n, d), Frac(e, m)) = Frac(n * e, d * m)
    BY <2>1, <2>2, Arithmetic
  <2> QED BY <2>1, <2>3 DEF Div
<1> QED BY <1>1, Arithmetic

\* Fractions over the same denominator add and compare as numbers do.
LEMMA SameDenominator ==
  ASSUME NEW n \in Int, NEW m \in Int, NEW d \in Positive
  PROVE  /\ Add(Frac(n, d), Frac(m, d)) = Frac(n + m, d)
         /\ Sub(Frac(n, d), Frac(m, d)) = Frac(n - m, d)
         /\ Less(Frac(n, d), Frac(m, d)) <=> n < m
         /\ AtMost(Frac(n, d), Frac(m, d)) <=> n <= m
         /\ Frac(n, d) = Frac(m, d) <=> n = m
<1>1. ASSUME NEW k \in Int PROVE Add(Frac(n, d), Frac(k, d)) = Frac(n + k, d)
  <2>1. n * d + k * d = d * (n + k) BY DEF Positive
  <2>2. Add(Frac(n, d), Frac(k, d)) = Frac(n * d + k * d, d * d) BY Arithmetic
  <2>3. Frac(d * (n + k), d * d) = Frac(n + k, d) BY Scaled
  <2> QED BY <2>1, <2>2, <2>3
<1>2. Sub(Frac(n, d), Frac(m, d)) = Frac(n - m, d)
  <2>1. <<-Frac(m, d)[1], Frac(m, d)[2]>> = Frac(-m, d) BY Turned
  <2>2. -m \in Int /\ n + (-m) = n - m OBVIOUS
  <2> QED BY <1>1, <2>1, <2>2 DEF Sub
<1>3. ASSUME NEW x \in Int, NEW y \in Int PROVE Less(Frac(x, d), Frac(y, d)) <=> x < y
  <2>1. x * d = d * x /\ y * d = d * y BY DEF Positive
  <2>2. Less(Frac(x, d), Frac(y, d)) <=> x * d < y * d BY Arithmetic
  <2> QED BY <2>1, <2>2, CancelFactor
<1>4. Frac(n, d) = Frac(m, d) <=> n = m
  <2>1. n * d = d * n /\ m * d = d * m BY DEF Positive
  <2> QED BY <2>1, FracSame, CancelFactor DEF Positive
<1> QED BY <1>1, <1>2, <1>3, <1>4 DEF AtMost

LEMMA Compared ==
  ASSUME NEW n \in Int, NEW m \in Int, NEW d \in Positive,
         NEW x, NEW y, x = Frac(n, d), y = Frac(m, d)
  PROVE  /\ Less(x, y) <=> n < m
         /\ AtMost(x, y) <=> n <= m
         /\ x = y <=> n = m
BY SameDenominator

\* Any two fractions are over a common denominator; so are three and four.
LEMMA CommonTwo ==
  ASSUME NEW x \in Fraction, NEW y \in Fraction
  PROVE  \E d \in Positive, n \in Int, m \in Int : x = Frac(n, d) /\ y = Frac(m, d)
<1>1. /\ x[1] \in Int /\ x[2] \in Positive /\ Frac(x[1], x[2]) = x
      /\ y[1] \in Int /\ y[2] \in Positive /\ Frac(y[1], y[2]) = y
  BY FractionType
<1>2. Frac(y[2] * x[1], y[2] * x[2]) = x BY <1>1, Scaled
<1>3. Frac(x[2] * y[1], x[2] * y[2]) = y BY <1>1, Scaled
<1>4. /\ x[2] * y[2] = y[2] * x[2] /\ x[2] * y[2] \in Positive
      /\ y[2] * x[1] \in Int /\ x[2] * y[1] \in Int
  BY <1>1, PositiveProduct DEF Positive
<1> QED BY <1>2, <1>3, <1>4

IsOver(d, x, n) == x = Frac(n, d)

LEMMA CommonThree ==
  ASSUME NEW x \in Fraction, NEW y \in Fraction, NEW z \in Fraction
  PROVE  \E d \in Positive, n \in Int, m \in Int, k \in Int :
           IsOver(d, x, n) /\ IsOver(d, y, m) /\ IsOver(d, z, k)
<1>1. PICK d \in Positive, n \in Int, m \in Int : x = Frac(n, d) /\ y = Frac(m, d)
  BY CommonTwo
<1>2. z[1] \in Int /\ z[2] \in Positive /\ Frac(z[1], z[2]) = z BY FractionType
<1> DEFINE e == z[2]
<1> HIDE DEF e
<1>3. e \in Positive /\ Frac(z[1], e) = z BY <1>2 DEF e
<1>4. Frac(e * n, e * d) = x /\ Frac(e * m, e * d) = y BY <1>1, <1>3, Scaled
<1>5. Frac(d * z[1], d * e) = z BY <1>2, <1>3, Scaled
<1>6. /\ d * e = e * d /\ e * d \in Positive
      /\ e * n \in Int /\ e * m \in Int /\ d * z[1] \in Int
  BY <1>2, <1>3, PositiveProduct DEF Positive
<1>7. IsOver(e * d, x, e * n) /\ IsOver(e * d, y, e * m) /\ IsOver(e * d, z, d * z[1])
  BY <1>4, <1>5, <1>6 DEF IsOver
<1> QED BY <1>6, <1>7

LEMMA CommonFour ==
  ASSUME NEW w \in Fraction, NEW x \in Fraction, NEW y \in Fraction, NEW z \in Fraction
  PROVE  \E d \in Positive, l \in Int, n \in Int, m \in Int, k \in Int :
           IsOver(d, w, l) /\ IsOver(d, x, n) /\ IsOver(d, y, m) /\ IsOver(d, z, k)
<1>1. PICK d \in Positive, l \in Int, n \in Int, m \in Int :
        IsOver(d, w, l) /\ IsOver(d, x, n) /\ IsOver(d, y, m)
  BY CommonThree
<1>2. z[1] \in Int /\ z[2] \in Positive /\ Frac(z[1], z[2]) = z BY FractionType
<1> DEFINE e == z[2]
<1> HIDE DEF e
<1>3. e \in Positive /\ Frac(z[1], e) = z BY <1>2 DEF e
<1>4. Frac(e * l, e * d) = w /\ Frac(e * n, e * d) = x /\ Frac(e * m, e * d) = y
  <2>1. w = Frac(l, d) /\ x = Frac(n, d) /\ y = Frac(m, d) BY <1>1 DEF IsOver
  <2> QED BY <1>1, <1>3, <2>1, Scaled
<1>5. Frac(d * z[1], d * e) = z BY <1>2, <1>3, Scaled
<1>6. /\ d * e = e * d /\ e * d \in Positive
      /\ e * l \in Int /\ e * n \in Int /\ e * m \in Int /\ d * z[1] \in Int
  BY <1>2, <1>3, PositiveProduct DEF Positive
<1>7. /\ IsOver(e * d, w, e * l) /\ IsOver(e * d, x, e * n)
      /\ IsOver(e * d, y, e * m) /\ IsOver(e * d, z, d * z[1])
  BY <1>4, <1>5, <1>6 DEF IsOver
<1> QED BY <1>6, <1>7

\* Zero and one over any denominator.
LEMMA Units ==
  /\ Zero \in Fraction /\ One \in Fraction
  /\ \A d \in Positive : Zero = Frac(0, d) /\ One = Frac(d, d)
<1>1. Frac(0, 1) \in Fraction /\ Frac(1, 1) \in Fraction BY FracType DEF Positive
<1>0. 0 \in Int /\ 1 \in Int /\ 1 \in Nat \ {0} OBVIOUS
<1>2. PICK g \in Nat \ {0}, a \in Int, b \in Nat \ {0} : IsReduced(0, 1, g, a, b)
  BY <1>0, FracParts, ZenonT(20)
<1>3. PICK h \in Nat \ {0}, p \in Int, q \in Nat \ {0} : IsReduced(1, 1, h, p, q)
  BY <1>0, FracParts, ZenonT(20)
<1>4. /\ Frac(0, 1) = <<a, b>> /\ 0 = g * a /\ 1 = g * b
      /\ Frac(1, 1) = <<p, q>> /\ 1 = h * p /\ 1 = h * q
  BY <1>2, <1>3 DEF IsReduced
<1>5. a = 0 BY <1>4
<1>6. ASSUME NEW x \in Nat \ {0}, NEW y \in Int, 1 = x * y PROVE y = 1
  <2>1. y >= 1
    <3>1. ~(y <= 0) BY <1>6
    <3> QED BY <3>1
  <2>2. x * (y - 1) >= 0 BY <2>1
  <2>3. x * (y - 1) = 1 - x BY <1>6
  <2>4. x = 1 BY <2>2, <2>3
  <2> QED BY <2>4, <1>6
<1>7. b = 1 /\ p = 1 /\ q = 1 BY <1>2, <1>3, <1>4, <1>6
<1>8. Zero = Frac(0, 1) /\ One = Frac(1, 1) BY <1>4, <1>5, <1>7 DEF Zero, One
<1>9. ASSUME NEW d \in Positive PROVE Frac(0, 1) = Frac(0, d) /\ Frac(1, 1) = Frac(d, d)
  <2>1. d * 0 = 0 /\ d * 1 = d BY DEF Positive
  <2>2. Frac(d * 0, d * 1) = Frac(0, 1) /\ Frac(d * 1, d * 1) = Frac(1, 1)
    BY Scaled DEF Positive
  <2> QED BY <2>1, <2>2
<1> QED BY <1>1, <1>8, <1>9

\* AtMost is a total order.
LEMMA OrderLaws ==
  ASSUME NEW x \in Fraction, NEW y \in Fraction
  PROVE  /\ AtMost(x, x)
         /\ AtMost(x, y) \/ AtMost(y, x)
         /\ AtMost(x, y) /\ AtMost(y, x) => x = y
         /\ Less(x, y) <=> ~AtMost(y, x)
         /\ Less(x, y) => AtMost(x, y) /\ x # y
         /\ AtMost(x, y) /\ x # y => Less(x, y)
<1>1. PICK d \in Positive, n \in Int, m \in Int : x = Frac(n, d) /\ y = Frac(m, d)
  BY CommonTwo
<1>2. (AtMost(x, y) <=> n <= m) /\ (Less(x, y) <=> n < m) /\ (x = y <=> n = m)
  BY <1>1, Compared
<1>3. AtMost(y, x) <=> m <= n BY <1>1, Compared
<1>4. AtMost(x, x) BY <1>1, Compared
<1> QED BY <1>2, <1>3, <1>4

LEMMA OrderThrough ==
  ASSUME NEW x \in Fraction, NEW y \in Fraction, NEW z \in Fraction, AtMost(x, y)
  PROVE  /\ AtMost(y, z) => AtMost(x, z)
         /\ Less(y, z) => Less(x, z)
<1>01. PICK d \in Positive, n \in Int, m \in Int, k \in Int :
         IsOver(d, x, n) /\ IsOver(d, y, m) /\ IsOver(d, z, k)
  BY CommonThree
<1>1. x = Frac(n, d) /\ y = Frac(m, d) /\ z = Frac(k, d) BY <1>01 DEF IsOver
<1>2. /\ n <= m /\ (AtMost(y, z) <=> m <= k) /\ (AtMost(x, z) <=> n <= k)
      /\ (Less(y, z) <=> m < k) /\ (Less(x, z) <=> n < k)
  BY <1>1, SameDenominator
<1> QED BY <1>2

\* Sums and differences.
LEMMA SumLaws ==
  ASSUME NEW x \in Fraction, NEW y \in Fraction
  PROVE  /\ Add(x, y) \in Fraction /\ Sub(x, y) \in Fraction
         /\ Add(x, y) = Add(y, x)
         /\ Add(x, Zero) = x /\ Sub(x, Zero) = x /\ Sub(x, x) = Zero
         /\ Add(Sub(x, y), y) = x
         /\ AtMost(Zero, y) => AtMost(x, Add(x, y)) /\ AtMost(Sub(x, y), x)
         /\ Less(Zero, y) => Less(x, Add(x, y))
         /\ AtMost(y, x) => AtMost(Zero, Sub(x, y))
         /\ Less(y, x) => Less(Zero, Sub(x, y))
<1>1. PICK d \in Positive, n \in Int, m \in Int : x = Frac(n, d) /\ y = Frac(m, d)
  BY CommonTwo
<1>2. Zero = Frac(0, d) BY Units
<1>3. /\ n + m \in Int /\ n - m \in Int /\ n + m = m + n /\ n + 0 = n /\ n - 0 = n /\ n - n = 0
      /\ (n - m) + m = n
  OBVIOUS
<1>4. /\ Add(x, y) = Frac(n + m, d) /\ Sub(x, y) = Frac(n - m, d) /\ Add(y, x) = Frac(m + n, d)
      /\ Add(x, Zero) = Frac(n + 0, d) /\ Sub(x, Zero) = Frac(n - 0, d)
      /\ Sub(x, x) = Frac(n - n, d)
  BY <1>1, <1>2, SameDenominator
<1>5. Add(Sub(x, y), y) = Frac((n - m) + m, d) BY <1>1, <1>3, <1>4, SameDenominator
<1>6. /\ AtMost(Zero, y) <=> 0 <= m
      /\ AtMost(x, Add(x, y)) <=> n <= n + m
      /\ AtMost(Sub(x, y), x) <=> n - m <= n
      /\ Less(Zero, y) <=> 0 < m
      /\ Less(x, Add(x, y)) <=> n < n + m
      /\ AtMost(y, x) <=> m <= n
      /\ AtMost(Zero, Sub(x, y)) <=> 0 <= n - m
      /\ Less(y, x) <=> m < n
      /\ Less(Zero, Sub(x, y)) <=> 0 < n - m
  <2>1. (AtMost(Zero, y) <=> 0 <= m) /\ (Less(Zero, y) <=> 0 < m) BY <1>1, <1>2, Compared
  <2>2. (AtMost(x, Add(x, y)) <=> n <= n + m) /\ (Less(x, Add(x, y)) <=> n < n + m)
    BY <1>1, <1>3, <1>4, Compared
  <2>3. AtMost(Sub(x, y), x) <=> n - m <= n BY <1>1, <1>3, <1>4, Compared
  <2>4. (AtMost(y, x) <=> m <= n) /\ (Less(y, x) <=> m < n) BY <1>1, Compared
  <2>5. (AtMost(Zero, Sub(x, y)) <=> 0 <= n - m) /\ (Less(Zero, Sub(x, y)) <=> 0 < n - m)
    BY <1>2, <1>3, <1>4, Compared
  <2> QED BY <2>1, <2>2, <2>3, <2>4, <2>5
<1>7. Frac(n + m, d) \in Fraction /\ Frac(n - m, d) \in Fraction BY <1>3, FracType
<1> QED BY <1>1, <1>2, <1>3, <1>4, <1>5, <1>6, <1>7

\* Adding keeps the order.
LEMMA SumKeepsOrder ==
  ASSUME NEW w \in Fraction, NEW x \in Fraction, NEW y \in Fraction, NEW z \in Fraction,
         AtMost(w, x), AtMost(y, z)
  PROVE  AtMost(Add(w, y), Add(x, z))
<1>0. PICK d \in Positive, l \in Int, n \in Int, m \in Int, k \in Int :
        IsOver(d, w, l) /\ IsOver(d, x, n) /\ IsOver(d, y, m) /\ IsOver(d, z, k)
  BY CommonFour
<1>1. w = Frac(l, d) /\ x = Frac(n, d) /\ y = Frac(m, d) /\ z = Frac(k, d)
  BY <1>0 DEF IsOver
<1>2. l <= n /\ m <= k BY <1>1, SameDenominator
<1>3. Add(w, y) = Frac(l + m, d) /\ Add(x, z) = Frac(n + k, d) BY <1>1, SameDenominator
<1>4. l + m \in Int /\ n + k \in Int /\ l + m <= n + k BY <1>2
<1> QED BY <1>3, <1>4, SameDenominator

\* Products and quotients.
LEMMA ProductLaws ==
  ASSUME NEW x \in Fraction, NEW y \in Fraction
  PROVE  /\ Mul(x, y) \in Fraction
         /\ Mul(x, y) = Mul(y, x)
         /\ Mul(Zero, x) = Zero
         /\ AtMost(Zero, x) /\ AtMost(Zero, y) => AtMost(Zero, Mul(x, y))
         /\ Less(Zero, x) /\ Less(Zero, y) => Less(Zero, Mul(x, y))
         /\ Less(Zero, y) => /\ Div(x, y) \in Fraction
                             /\ Mul(Div(x, y), y) = x
                             /\ Div(Mul(x, y), y) = x
<1>1. PICK d \in Positive, n \in Int, m \in Int : x = Frac(n, d) /\ y = Frac(m, d)
  BY CommonTwo
<1>2. d \in Int /\ d * d \in Positive BY PositiveProduct DEF Positive
<1>3. Zero = Frac(0, d) /\ Zero = Frac(0, d * d) BY <1>2, Units
<1>4. n * m \in Int /\ m * n = n * m /\ 0 * n = 0 BY SMT
<1>5. /\ Mul(x, y) = Frac(n * m, d * d) /\ Mul(y, x) = Frac(m * n, d * d)
      /\ Mul(Zero, x) = Frac(0 * n, d * d)
  BY <1>1, <1>3, Products
<1>6. /\ AtMost(Zero, x) <=> 0 <= n
      /\ AtMost(Zero, y) <=> 0 <= m
      /\ AtMost(Zero, Mul(x, y)) <=> 0 <= n * m
      /\ Less(Zero, x) <=> 0 < n
      /\ Less(Zero, y) <=> 0 < m
      /\ Less(Zero, Mul(x, y)) <=> 0 < n * m
  <2>1. (AtMost(Zero, x) <=> 0 <= n) /\ (Less(Zero, x) <=> 0 < n) BY <1>1, <1>3, Compared
  <2>2. (AtMost(Zero, y) <=> 0 <= m) /\ (Less(Zero, y) <=> 0 < m) BY <1>1, <1>3, Compared
  <2> DEFINE k == n * m
             e == d * d
  <2>3. k \in Int /\ e \in Positive /\ Zero = Frac(0, e) /\ Mul(x, y) = Frac(k, e)
    BY <1>2, <1>3, <1>4, <1>5
  <2> HIDE DEF k, e
  <2>4. (AtMost(Zero, Mul(x, y)) <=> 0 <= k) /\ (Less(Zero, Mul(x, y)) <=> 0 < k)
    BY <2>3, Compared
  <2> QED BY <2>1, <2>2, <2>4 DEF k
<1>7. /\ 0 <= n /\ 0 <= m => 0 <= n * m
      /\ 0 < n /\ 0 < m => 0 < n * m
  BY SMT
<1>8. ASSUME m > 0
      PROVE  Div(x, y) \in Fraction /\ Mul(Div(x, y), y) = x /\ Div(Mul(x, y), y) = x
  <2>1. m \in Positive /\ d * m \in Positive /\ (d * m) * d \in Positive /\ (d * d) * m \in Positive
    BY <1>2, <1>8, PositiveProduct DEF Positive
  <2>2. Div(x, y) = Frac(n * d, d * m) BY <1>1, <1>8, Products
  <2>3. n * d \in Int BY <1>2
  <2>4. Mul(Div(x, y), y) = Frac((n * d) * m, (d * m) * d) BY <1>1, <2>1, <2>2, <2>3, Products
  <2>5. Div(Mul(x, y), y) = Frac((n * m) * d, (d * d) * m)
    BY <1>1, <1>2, <1>4, <1>5, <1>8, Products
  <2>6. Frac((m * d) * n, (m * d) * d) = Frac(n, d)
    <3>1. m * d \in Positive BY <1>2, <2>1, PositiveProduct
    <3> QED BY <3>1, Scaled
  <2>7. /\ (n * d) * m = (m * d) * n /\ (d * m) * d = (m * d) * d
        /\ (n * m) * d = (m * d) * n /\ (d * d) * m = (m * d) * d
    BY <1>2
  <2>8. Frac(n * d, d * m) \in Fraction BY <2>1, <2>3, FracType
  <2> QED BY <1>1, <2>2, <2>4, <2>5, <2>6, <2>7, <2>8
<1>9. Frac(n * m, d * d) \in Fraction BY <1>2, <1>4, FracType
<1> QED BY <1>3, <1>4, <1>5, <1>6, <1>7, <1>8, <1>9

\* Multiplying by what is not negative keeps the order.
LEMMA ProductKeepsOrder ==
  ASSUME NEW x \in Fraction, NEW y \in Fraction, NEW z \in Fraction,
         AtMost(x, y), AtMost(Zero, z)
  PROVE  AtMost(Mul(x, z), Mul(y, z)) /\ AtMost(Mul(z, x), Mul(z, y))
<1>01. PICK d \in Positive, n \in Int, m \in Int, k \in Int :
         IsOver(d, x, n) /\ IsOver(d, y, m) /\ IsOver(d, z, k)
  BY CommonThree
<1>1. x = Frac(n, d) /\ y = Frac(m, d) /\ z = Frac(k, d) BY <1>01 DEF IsOver
<1>2. Zero = Frac(0, d) BY Units
<1>3. n <= m /\ 0 <= k BY <1>1, <1>2, Compared
<1> DEFINE a == n * k
           b == m * k
           e == d * d
<1>4. a \in Int /\ b \in Int /\ e \in Positive BY PositiveProduct
<1>5. a <= b
  <2>1. 0 <= k * (m - n) BY <1>3
  <2>2. k * (m - n) = m * k - n * k OBVIOUS
  <2> QED BY <2>1, <2>2
<1>6. Mul(x, z) = Frac(a, e) /\ Mul(y, z) = Frac(b, e) BY <1>1, Products
<1> HIDE DEF a, b, e
<1>7. AtMost(Mul(x, z), Mul(y, z)) BY <1>4, <1>5, <1>6, Compared
<1>8. Mul(x, z) = Mul(z, x) /\ Mul(y, z) = Mul(z, y) BY ProductLaws
<1> QED BY <1>7, <1>8

\* A budget over a price buys what the budget pays for.
LEMMA WithinBudget ==
  ASSUME NEW s \in Fraction, NEW budget \in Fraction, NEW price \in Fraction,
         Less(Zero, price), AtMost(s, Div(budget, price))
  PROVE  AtMost(Mul(s, price), budget)
<1>1. Div(budget, price) \in Fraction /\ Mul(Div(budget, price), price) = budget BY ProductLaws
<1>2. AtMost(Zero, price) BY Units, OrderLaws
<1> QED BY <1>1, <1>2, ProductKeepsOrder

\* The average of what was bought before and now, at no lower price, does not fall:
\* a fill of F for G goes on by a or, no less, by b at the price p.
LEMMA AverageRises ==
  ASSUME NEW F \in Fraction, NEW G \in Fraction, NEW a \in Fraction, NEW b \in Fraction,
         NEW p \in Fraction, AtMost(a, b), AtMost(G, Mul(p, F))
  PROVE  AtMost(Mul(Add(G, Mul(a, p)), Add(F, b)), Mul(Add(G, Mul(b, p)), Add(F, a)))
<1>0. PICK e \in Positive, f \in Int, g \in Int, m \in Int, n \in Int :
        IsOver(e, F, f) /\ IsOver(e, G, g) /\ IsOver(e, a, m) /\ IsOver(e, b, n)
  BY CommonFour
<1>1. F = Frac(f, e) /\ G = Frac(g, e) /\ a = Frac(m, e) /\ b = Frac(n, e)
  BY <1>0 DEF IsOver
<1>2. p[1] \in Int /\ p[2] \in Positive /\ p = Frac(p[1], p[2]) BY FractionType
<1> DEFINE q == p[1]
           d == p[2]
           h == g * d
           k == e * d
<1>3. q \in Int /\ d \in Positive /\ p = Frac(q, d) BY <1>2
<1> HIDE DEF q, d
<1>4. G = Frac(h, k)
  <2>1. Frac(d * g, d * e) = Frac(g, e) BY <1>3, Scaled
  <2>2. d * g = h /\ d * e = k BY <1>3 DEF Positive
  <2> QED BY <1>1, <2>1, <2>2
<1>5. Mul(a, p) = Frac(m * q, k) /\ Mul(b, p) = Frac(n * q, k) /\ Mul(p, F) = Frac(q * f, d * e)
  BY <1>1, <1>3, Products
<1>6. /\ h \in Int /\ k \in Positive /\ m * q \in Int /\ n * q \in Int /\ q * f \in Int
      /\ d * e = k
  BY <1>3, PositiveProduct DEF Positive
<1> HIDE DEF h, k
<1>7. Add(G, Mul(a, p)) = Frac(h + m * q, k) /\ Add(G, Mul(b, p)) = Frac(h + n * q, k)
  <2> DEFINE r == m * q
             s == n * q
  <2>1. r \in Int /\ s \in Int /\ Mul(a, p) = Frac(r, k) /\ Mul(b, p) = Frac(s, k)
    BY <1>5, <1>6
  <2> HIDE DEF r, s
  <2>2. Add(G, Mul(a, p)) = Frac(h + r, k) /\ Add(G, Mul(b, p)) = Frac(h + s, k)
    BY <1>4, <1>6, <2>1, SameDenominator
  <2> QED BY <2>2 DEF r, s
<1>8. Add(F, a) = Frac(f + m, e) /\ Add(F, b) = Frac(f + n, e) BY <1>1, SameDenominator
<1>9. m <= n BY <1>1, Compared
<1>10. h <= q * f BY <1>4, <1>5, <1>6, Compared
<1> DEFINE left  == (h + m * q) * (f + n)
           right == (h + n * q) * (f + m)
<1>11. left <= right
  <2>1. 0 <= (n - m) * (q * f - h) BY <1>6, <1>9, <1>10
  <2>2. right - left = (n - m) * (q * f - h) BY <1>3, <1>6
  <2>3. left \in Int /\ right \in Int BY <1>3, <1>6
  <2> QED BY <2>1, <2>2, <2>3
<1>12. /\ h + m * q \in Int /\ h + n * q \in Int /\ f + m \in Int /\ f + n \in Int
       /\ left \in Int /\ right \in Int /\ k * e \in Positive
  BY <1>3, <1>6, PositiveProduct
<1>13. /\ Mul(Add(G, Mul(a, p)), Add(F, b)) = Frac(left, k * e)
       /\ Mul(Add(G, Mul(b, p)), Add(F, a)) = Frac(right, k * e)
  BY <1>6, <1>7, <1>8, <1>12, Products
<1> HIDE DEF left, right
<1> QED BY <1>11, <1>12, <1>13, Compared

\* What goes on to be bought at a price above the average raises the average.
LEMMA AverageRisesOn ==
  ASSUME NEW F \in Fraction, NEW G \in Fraction, NEW H \in Fraction, NEW K \in Fraction,
         NEW b \in Fraction, NEW p \in Fraction,
         AtMost(Mul(G, H), Mul(K, F)), AtMost(G, Mul(p, F)), AtMost(Zero, b)
  PROVE  AtMost(Mul(G, Add(H, b)), Mul(Add(K, Mul(b, p)), F))
<1>01. PICK e \in Positive, f \in Int, h \in Int, n \in Int :
         IsOver(e, F, f) /\ IsOver(e, H, h) /\ IsOver(e, b, n)
  BY CommonThree
<1>02. PICK c \in Positive, g \in Int, k \in Int, q \in Int :
         IsOver(c, G, g) /\ IsOver(c, K, k) /\ IsOver(c, p, q)
  BY CommonThree
<1>1. F = Frac(f, e) /\ H = Frac(h, e) /\ b = Frac(n, e) BY <1>01 DEF IsOver
<1>2. G = Frac(g, c) /\ K = Frac(k, c) /\ p = Frac(q, c) BY <1>02 DEF IsOver
<1> DEFINE u == c * e
           v == n * q
           w == e * k
           x == g * e
<1>3. Zero = Frac(0, e) BY Units
<1>4. /\ u \in Positive /\ v \in Int /\ w \in Int /\ x \in Int /\ q * f \in Int /\ g * h \in Int
      /\ k * f \in Int
      /\ e * c = u
  BY PositiveProduct DEF Positive
<1>5. /\ Mul(G, H) = Frac(g * h, u) /\ Mul(K, F) = Frac(k * f, u) /\ Mul(p, F) = Frac(q * f, u)
      /\ Mul(b, p) = Frac(v, u)
  <2>1. Mul(b, p) = Frac(n * q, e * c) BY <1>1, <1>2, Products
  <2> QED BY <1>1, <1>2, <1>4, <2>1, Products
<1>6. K = Frac(w, u) /\ G = Frac(x, u)
  <2>1. Frac(e * k, e * c) = K /\ Frac(e * g, e * c) = G BY <1>2, Scaled
  <2>2. e * g = x BY DEF Positive
  <2> QED BY <1>4, <2>1, <2>2
<1> HIDE DEF u, v, w, x
<1>7. g * h <= k * f BY <1>4, <1>5, Compared
<1>8. x <= q * f BY <1>4, <1>5, <1>6, Compared
<1>9. 0 <= n BY <1>1, <1>3, Compared
<1>10. Add(H, b) = Frac(h + n, e) /\ Add(K, Mul(b, p)) = Frac(w + v, u)
  BY <1>1, <1>4, <1>5, <1>6, SameDenominator
<1>11. /\ Mul(G, Add(H, b)) = Frac(x * (h + n), u * e)
       /\ Mul(Add(K, Mul(b, p)), F) = Frac((w + v) * f, u * e)
  <2>1. h + n \in Int /\ w + v \in Int BY <1>4
  <2> QED BY <1>1, <1>4, <1>6, <1>10, <2>1, Products
<1>12. x * (h + n) <= (w + v) * f
  <2>1. x * h = e * (g * h) BY <1>4 DEF x, Positive
  <2>2. w * f = e * (k * f) BY <1>4 DEF w, Positive
  <2>3. e * (g * h) <= e * (k * f)
    <3>1. 0 <= e * (k * f - g * h) BY <1>4, <1>7 DEF Positive
    <3>2. e * (k * f - g * h) = e * (k * f) - e * (g * h) BY <1>4 DEF Positive
    <3> QED BY <1>4, <3>1, <3>2 DEF Positive
  <2>4. x * n <= v * f
    <3>1. 0 <= n * (q * f - x) BY <1>4, <1>8, <1>9
    <3>2. n * (q * f - x) = v * f - x * n BY <1>4 DEF v
    <3>3. v * f \in Int /\ x * n \in Int BY <1>4
    <3> QED BY <3>1, <3>2, <3>3
  <2>5. x * (h + n) = x * h + x * n /\ (w + v) * f = w * f + v * f BY <1>4
  <2> DEFINE A == x * h
             B == x * n
             C == w * f
             D == v * f
  <2>6. A \in Int /\ B \in Int /\ C \in Int /\ D \in Int BY <1>4
  <2>7. A <= C /\ B <= D BY <2>1, <2>2, <2>3, <2>4
  <2> HIDE DEF A, B, C, D
  <2>8. A + B <= C + D BY <2>6, <2>7
  <2> QED BY <2>5, <2>8 DEF A, B, C, D
<1>13. x * (h + n) \in Int /\ (w + v) * f \in Int /\ u * e \in Positive
  BY <1>4, PositiveProduct
<1> QED BY <1>11, <1>12, <1>13, Compared

\* A sum or a product is divided by dividing its parts.
LEMMA QuotientLaws ==
  ASSUME NEW f \in Fraction, Less(Zero, f), NEW x \in Fraction, NEW y \in Fraction
  PROVE  /\ Div(Add(x, y), f) = Add(Div(x, f), Div(y, f))
         /\ Div(Mul(x, y), f) = Mul(Div(x, f), y)
         /\ Less(Zero, x) => Less(Zero, Div(x, f))
<1>01. PICK d \in Positive, n \in Int, m \in Int, k \in Int :
         IsOver(d, x, n) /\ IsOver(d, y, m) /\ IsOver(d, f, k)
  BY CommonThree
<1>1. x = Frac(n, d) /\ y = Frac(m, d) /\ f = Frac(k, d) BY <1>01 DEF IsOver
<1>2. Zero = Frac(0, d) BY Units
<1>3. 0 < k /\ k \in Positive
  <2>1. 0 < k BY <1>1, <1>2, Compared
  <2> QED BY <2>1 DEF Positive
<1> DEFINE e == d * k
           g == e * d
           nd == n * d
           md == m * d
           nm == n * m
<1>4. /\ e \in Positive /\ g \in Positive /\ d \in Int /\ d * d \in Positive
      /\ nd \in Int /\ md \in Int /\ nm \in Int
  BY <1>3, PositiveProduct DEF Positive
<1>5. /\ Div(x, f) = Frac(nd, e) /\ Div(y, f) = Frac(md, e) /\ Mul(x, y) = Frac(nm, d * d)
      /\ Add(x, y) = Frac(n + m, d)
  <2>1. Div(x, f) = Frac(n * d, d * k) BY <1>1, <1>3, Products
  <2>2. Div(y, f) = Frac(m * d, d * k) BY <1>1, <1>3, Products
  <2>3. Mul(x, y) = Frac(n * m, d * d) BY <1>1, Products
  <2>4. Add(x, y) = Frac(n + m, d) BY <1>1, SameDenominator
  <2> QED BY <2>1, <2>2, <2>3, <2>4
<1>6. Div(Add(x, y), f) = Frac((n + m) * d, e)
  BY <1>1, <1>3, <1>5, Products
<1>7. (n + m) * d = nd + md BY <1>4
<1>8. Div(Mul(x, y), f) = Mul(Div(x, f), y)
  <2>1. Div(Mul(x, y), f) = Frac(nm * d, (d * d) * k) BY <1>1, <1>3, <1>4, <1>5, Products
  <2>2. Mul(Div(x, f), y) = Frac(nd * m, e * d) BY <1>1, <1>4, <1>5, Products
  <2>3. nm * d = nd * m /\ (d * d) * k = e * d BY <1>3, <1>4 DEF Positive
  <2> QED BY <2>1, <2>2, <2>3
<1>9. ASSUME Less(Zero, x) PROVE Less(Zero, Div(x, f))
  <2>1. 0 < n BY <1>1, <1>2, <1>9, Compared
  <2>2. 0 < nd BY <2>1 DEF Positive
  <2>3. Zero = Frac(0, e) BY <1>4, Units
  <2> HIDE DEF nd, e
  <2> QED BY <1>4, <1>5, <2>2, <2>3, Compared
<1> HIDE DEF e, nd, md
<1>10. Add(Div(x, f), Div(y, f)) = Frac(nd + md, e) BY <1>4, <1>5, SameDenominator
<1> QED BY <1>6, <1>7, <1>8, <1>9, <1>10

LEMMA QuotientsCompared ==
  ASSUME NEW G \in Fraction, NEW H \in Fraction, NEW s \in Fraction, NEW t \in Fraction,
         Less(Zero, s), Less(Zero, t), AtMost(Mul(G, t), Mul(H, s))
  PROVE  AtMost(Div(G, s), Div(H, t))
<1>01. PICK d \in Positive, g \in Int, h \in Int : G = Frac(g, d) /\ H = Frac(h, d)
  BY CommonTwo
<1>02. PICK e \in Positive, m \in Int, n \in Int : s = Frac(m, e) /\ t = Frac(n, e)
  BY CommonTwo
<1>1. Zero = Frac(0, e) BY Units
<1>2. 0 < m /\ 0 < n BY <1>02, <1>1, Compared
<1>3. Mul(G, t) = Frac(g * n, d * e) /\ Mul(H, s) = Frac(h * m, d * e)
  BY <1>01, <1>02, Products
<1>4. /\ g * n \in Int /\ h * m \in Int /\ d * e \in Positive
      /\ m \in Positive /\ n \in Positive /\ d * m \in Positive /\ d * n \in Positive
      /\ g * e \in Int /\ h * e \in Int
  BY <1>2, PositiveProduct DEF Positive
<1>5. g * n <= h * m
  <2> DEFINE a == g * n
             b == h * m
             c == d * e
  <2>1. /\ a \in Int /\ b \in Int /\ c \in Positive
        /\ Mul(G, t) = Frac(a, c) /\ Mul(H, s) = Frac(b, c)
    BY <1>3, <1>4
  <2> HIDE DEF a, b, c
  <2>2. a <= b BY <2>1, Compared
  <2> QED BY <2>2 DEF a, b
<1>6. Div(G, s) = Frac(g * e, d * m) /\ Div(H, t) = Frac(h * e, d * n)
  BY <1>01, <1>02, <1>2, Products
<1>7. Less(Div(H, t), Div(G, s)) <=> (h * e) * (d * m) < (g * e) * (d * n)
  <2> DEFINE a == g * e
             b == h * e
             u == d * m
             v == d * n
  <2>1. /\ a \in Int /\ b \in Int /\ u \in Positive /\ v \in Positive
        /\ Div(G, s) = Frac(a, u) /\ Div(H, t) = Frac(b, v)
    BY <1>4, <1>6
  <2> HIDE DEF a, b, u, v
  <2>2. Less(Div(H, t), Div(G, s)) <=> b * u < a * v BY <2>1, Arithmetic
  <2> QED BY <2>2 DEF a, b, u, v
<1>8. /\ (h * e) * (d * m) = (d * e) * (h * m)
      /\ (g * e) * (d * n) = (d * e) * (g * n)
  BY <1>2 DEF Positive
<1>9. ~((d * e) * (h * m) < (d * e) * (g * n))
  <2>1. (d * e) * (h * m) < (d * e) * (g * n) <=> h * m < g * n BY <1>4, CancelFactor
  <2> QED BY <1>4, <1>5, <2>1
<1> QED BY <1>7, <1>8, <1>9 DEF AtMost

\* The price of a share with the fee at this rate and the reserves: what a quoted costs
\* a share, if a share costs this much on average before.
Loaded(price, rate, reserve) ==
  Add(Add(price, Mul(Smaller(price, Sub(One, price)), rate)), Mul(price, reserve))

LesserPart(d, n) == IF d - n < n THEN d - n ELSE n

LoadedOver(d, n, e, k, l) ==
  /\ LesserPart(d, n) \in Int /\ n * e + LesserPart(d, n) * k + n * l \in Int
  /\ Loaded(Frac(n, d), Frac(k, e), Frac(l, e))
       = Frac(n * e + LesserPart(d, n) * k + n * l, d * e)

LEMMA LoadedIs ==
  ASSUME NEW d \in Positive, NEW n \in Int, NEW e \in Positive, NEW k \in Int, NEW l \in Int
  PROVE  LoadedOver(d, n, e, k, l)
<1> DEFINE m == LesserPart(d, n)
           ne == n * e
           mk == m * k
           nl == n * l
           de == d * e
<1>1. /\ m \in Int /\ d - n \in Int /\ ne \in Int /\ nl \in Int /\ de \in Positive
      /\ d \in Int
  BY PositiveProduct DEF Positive, LesserPart
<1>2. Sub(One, Frac(n, d)) = Frac(d - n, d) BY <1>1, Units, SameDenominator
<1>3. Smaller(Frac(n, d), Sub(One, Frac(n, d))) = Frac(m, d)
  <2>1. Less(Frac(d - n, d), Frac(n, d)) <=> d - n < n BY <1>1, SameDenominator
  <2> QED BY <1>2, <2>1 DEF Smaller, LesserPart
<1> HIDE DEF m
<1>4. mk \in Int BY <1>1
<1>5. Mul(Frac(m, d), Frac(k, e)) = Frac(mk, de) /\ Mul(Frac(n, d), Frac(l, e)) = Frac(nl, de)
  <2>0. m \in Int /\ d \in Positive /\ k \in Int /\ e \in Positive BY <1>1
  <2>1. Mul(Frac(m, d), Frac(k, e)) = Frac(m * k, d * e) BY ONLY <2>0, Products
  <2>2. Mul(Frac(n, d), Frac(l, e)) = Frac(n * l, d * e) BY <1>1, Products
  <2> QED BY <2>1, <2>2
<1>6. Frac(n, d) = Frac(ne, de)
  <2>1. Frac(e * n, e * d) = Frac(n, d) BY Scaled
  <2>2. e * n = ne /\ e * d = de BY DEF Positive
  <2> QED BY <2>1, <2>2
<1> HIDE DEF mk, ne, nl, de
<1>7. Add(Frac(ne, de), Frac(mk, de)) = Frac(ne + mk, de) BY <1>1, <1>4, SameDenominator
<1>8. Add(Frac(ne + mk, de), Frac(nl, de)) = Frac(ne + mk + nl, de)
  <2> DEFINE u == ne + mk
  <2>1. u \in Int BY <1>1, <1>4
  <2> HIDE DEF u
  <2>2. Add(Frac(u, de), Frac(nl, de)) = Frac(u + nl, de) BY <1>1, <2>1, SameDenominator
  <2> QED BY <2>2 DEF u
<1>9. Loaded(Frac(n, d), Frac(k, e), Frac(l, e)) = Frac(ne + mk + nl, de)
  BY <1>3, <1>5, <1>6, <1>7, <1>8 DEF Loaded
<1>10. ne + mk + nl \in Int BY <1>1, <1>4
<1> QED BY <1>1, <1>9, <1>10 DEF m, mk, ne, nl, de, LoadedOver

\* A fee of at most the whole is not lost by a higher price, although above one half
\* the fee itself falls.
LEMMA LoadedRises ==
  ASSUME NEW a \in Fraction, NEW b \in Fraction, AtMost(a, b),
         NEW rate \in Fraction, AtMost(Zero, rate), AtMost(rate, One),
         NEW reserve \in Fraction, AtMost(Zero, reserve)
  PROVE  /\ Loaded(a, rate, reserve) \in Fraction
         /\ AtMost(Loaded(a, rate, reserve), Loaded(b, rate, reserve))
         /\ Less(Zero, a) => Less(Zero, Loaded(a, rate, reserve))
<1>1. PICK d \in Positive, n \in Int, m \in Int : a = Frac(n, d) /\ b = Frac(m, d)
  BY CommonTwo
<1>2. PICK e \in Positive, k \in Int, l \in Int : rate = Frac(k, e) /\ reserve = Frac(l, e)
  BY CommonTwo
<1>3. Zero = Frac(0, d) /\ Zero = Frac(0, e) /\ One = Frac(e, e) /\ e \in Int /\ d \in Int
  BY Units DEF Positive
<1>4. n <= m /\ 0 <= k /\ k <= e /\ 0 <= l BY <1>1, <1>2, <1>3, Compared
<1> DEFINE p == LesserPart(d, n)
           q == LesserPart(d, m)
           x == n * e + p * k + n * l
           y == m * e + q * k + m * l
<1>5. /\ p \in Int /\ x \in Int /\ Loaded(a, rate, reserve) = Frac(x, d * e)
      /\ q \in Int /\ y \in Int /\ Loaded(b, rate, reserve) = Frac(y, d * e)
  <2>2. LoadedOver(d, n, e, k, l) /\ LoadedOver(d, m, e, k, l) BY LoadedIs
  <2> QED BY <1>1, <1>2, <2>2 DEF LoadedOver
<1>6. p - q <= m - n BY <1>3, <1>4 DEF LesserPart
<1>7. x <= y
  <2> HIDE DEF p, q
  <2>1. (p - q) * k <= (m - n) * e
    <3>1. (p - q) * k <= (m - n) * k
      <4>1. 0 <= ((m - n) - (p - q)) * k BY <1>4, <1>5, <1>6
      <4>2. ((m - n) - (p - q)) * k = (m - n) * k - (p - q) * k BY <1>5
      <4>3. (m - n) * k \in Int /\ (p - q) * k \in Int BY <1>5
      <4> QED BY <4>1, <4>2, <4>3
    <3>2. (m - n) * k <= (m - n) * e
      <4>1. 0 <= (m - n) * (e - k) BY <1>3, <1>4
      <4>2. (m - n) * (e - k) = (m - n) * e - (m - n) * k BY <1>3
      <4>3. (m - n) * k \in Int /\ (m - n) * e \in Int BY <1>3
      <4> QED BY <4>1, <4>2, <4>3
    <3>3. (m - n) * k \in Int /\ (m - n) * e \in Int /\ (p - q) * k \in Int BY <1>3, <1>5
    <3> QED BY <3>1, <3>2, <3>3
  <2>2. 0 <= (m - n) * l BY <1>4
  <2>3. y - x = ((m - n) * e - (p - q) * k) + (m - n) * l BY <1>3, <1>5
  <2> DEFINE u == (m - n) * e
             v == (p - q) * k
             w == (m - n) * l
  <2>4. u \in Int /\ v \in Int /\ w \in Int /\ v <= u /\ 0 <= w /\ y - x = (u - v) + w
    BY <1>3, <1>5, <2>1, <2>2, <2>3
  <2> HIDE DEF x, y, u, v, w
  <2> QED BY <1>5, <2>4
<1>8. ASSUME 0 < n PROVE 0 < x
  <2>1. 0 <= n * l BY <1>4, <1>8
  <2>2. 0 < n * e + p * k
    <3>1. CASE p >= 0
      <4>1. 0 < n * e /\ 0 <= p * k
        <5> HIDE DEF p
        <5> QED BY <3>1, <1>3, <1>4, <1>5, <1>8 DEF Positive
      <4>2. n * e \in Int /\ p * k \in Int
        <5> HIDE DEF p
        <5> QED BY <1>3, <1>5
      <4> QED BY <4>1, <4>2
    <3>2. CASE p < 0
      <4>1. p = d - n BY <3>2, <1>3, <1>8 DEF LesserPart
      <4> HIDE DEF p
      <4>2. 0 <= (-p) * (e - k) BY <3>2, <1>3, <1>4, <1>5
      <4>3. (-p) * (e - k) = p * k - p * e BY <1>3, <1>5
      <4>4. n * e + p * e = d * e BY <4>1, <1>3
      <4>5. 0 < d * e BY DEF Positive
      <4> DEFINE u == n * e
                 v == p * e
                 w == p * k
      <4>6. u \in Int /\ v \in Int /\ w \in Int /\ 0 <= w - v /\ 0 < u + v
        BY <1>3, <1>5, <4>2, <4>3, <4>4, <4>5
      <4> HIDE DEF u, v, w
      <4>7. 0 < u + w BY <4>6
      <4> QED BY <4>7 DEF u, w
    <3> QED BY <3>1, <3>2, <1>5
  <2> DEFINE u == n * e + p * k
             w == n * l
  <2>3. u \in Int /\ w \in Int /\ x = u + w
    <3> HIDE DEF p
    <3> QED BY <1>3, <1>5
  <2>4. 0 < u /\ 0 <= w BY <2>1, <2>2
  <2> HIDE DEF u, w, x
  <2> QED BY <2>3, <2>4
<1> DEFINE de == d * e
<1>9. de \in Positive /\ Zero = Frac(0, de) BY PositiveProduct, Units
<1> HIDE DEF x, y, p, q
<1>10. Loaded(a, rate, reserve) = Frac(x, de) /\ Loaded(b, rate, reserve) = Frac(y, de) BY <1>5
<1>11. Less(Zero, a) <=> 0 < n BY <1>1, <1>3, Compared
<1> HIDE DEF de
<1>12. /\ AtMost(Loaded(a, rate, reserve), Loaded(b, rate, reserve)) <=> x <= y
       /\ Less(Zero, Loaded(a, rate, reserve)) <=> 0 < x
  BY <1>5, <1>9, <1>10, Compared
<1>13. Loaded(a, rate, reserve) \in Fraction BY <1>5, <1>9, <1>10, FracType
<1> QED BY <1>7, <1>8, <1>11, <1>12, <1>13

-----------------------------------------------------------------------------
(* Folds of a sequence: over the sets of its positions, the greatest last    *)

\* The greatest of a set of positions.
LEMMA GreatestIs ==
  ASSUME NEW n \in Nat, NEW S \in SUBSET (1..n), S # {}
  PROVE  Max(S) \in S /\ \A y \in S : y <= Max(S)
<1> DEFINE T == {n - x : x \in S}
<1>1. T \subseteq Nat /\ T # {}
  <2>1. \A x \in S : n - x \in Nat OBVIOUS
  <2>2. PICK x \in S : TRUE OBVIOUS
  <2>3. n - x \in T OBVIOUS
  <2> QED BY <2>1, <2>3
<1> HIDE DEF T
<1>2. PICK t \in T : \A u \in T : t <= u BY <1>1, LeastNatural
<1>3. PICK x \in S : t = n - x BY <1>2 DEF T
<1>4. \A y \in S : n - y \in T BY DEF T
<1>5. \A y \in S : y <= x
  <2> SUFFICES ASSUME NEW y \in S PROVE y <= x OBVIOUS
  <2>1. n - x <= n - y BY <1>2, <1>3, <1>4
  <2>2. x \in Int /\ y \in Int OBVIOUS
  <2> QED BY <2>1, <2>2
<1>6. \E z \in S : \A y \in S : z >= y BY <1>5
<1>7. Max(S) \in S /\ \A y \in S : Max(S) >= y BY <1>6 DEF Max
<1> QED BY <1>7

LEMMA FirstOnes ==
  ASSUME NEW n \in Nat, NEW k \in 1..n
  PROVE  /\ 1..k \in SUBSET (1..n) /\ 1..k # {} /\ Max(1..k) = k
         /\ (1..k) \ {Max(1..k)} = 1..(k - 1)
<1>1. 1..k \in SUBSET (1..n) /\ 1..k # {} /\ k \in 1..k OBVIOUS
<1>2. Max(1..k) \in 1..k /\ k <= Max(1..k) BY <1>1, GreatestIs
<1>3. Max(1..k) = k BY <1>2
<1> QED BY <1>1, <1>3

\* G folds H over the sets of the first n positions, the greatest last.
Folds(G, V, n, base, H) ==
  /\ G \in [SUBSET (1..n) -> V]
  /\ \A S \in SUBSET (1..n) :
       G[S] = IF S = {} THEN base ELSE H[<<G[S \ {Max(S)}], Max(S)>>]

\* There is such a function for every typed step, on the sets of any number of positions.
LEMMA FoldExists ==
  ASSUME NEW n \in Nat, NEW V, NEW base \in V, NEW H \in [V \X (1..n) -> V]
  PROVE  \E G : Folds(G, V, n, base, H)
<1> DEFINE K == {k \in Nat : k <= n => \E G : Folds(G, V, k, base, H)}
<1>1. 0 \in K
  <2> DEFINE G == [S \in SUBSET (1..0) |-> base]
  <2>1. 1..0 = {} OBVIOUS
  <2>2. \A S \in SUBSET (1..0) : S = {} /\ G[S] = base BY <2>1
  <2>3. G \in [SUBSET (1..0) -> V] OBVIOUS
  <2> HIDE DEF G
  <2>4. Folds(G, V, 0, base, H) BY <2>2, <2>3 DEF Folds
  <2> QED BY <2>4
<1>2. ASSUME NEW k \in Nat, k \in K PROVE k + 1 \in K
  <2> SUFFICES ASSUME k + 1 <= n PROVE \E G : Folds(G, V, k + 1, base, H) OBVIOUS
  <2>1. PICK F : Folds(F, V, k, base, H) BY <1>2
  <2> DEFINE l == k + 1
             G == [S \in SUBSET (1..l) |->
                     IF l \in S THEN H[<<F[S \ {l}], l>>] ELSE F[S]]
  <2>2. l \in 1..n /\ 1..k \subseteq 1..l /\ l \in Nat OBVIOUS
  <2>3. \A S \in SUBSET (1..l) : /\ S \ {l} \in SUBSET (1..k)
                                 /\ l \notin S => S \in SUBSET (1..k)
    OBVIOUS
  <2> HIDE DEF l
  <2>4. F \in [SUBSET (1..k) -> V] BY <2>1 DEF Folds
  <2>5. G \in [SUBSET (1..l) -> V]
    <3> SUFFICES ASSUME NEW S \in SUBSET (1..l)
                 PROVE  (IF l \in S THEN H[<<F[S \ {l}], l>>] ELSE F[S]) \in V
      OBVIOUS
    <3>1. l \in S => F[S \ {l}] \in V BY <2>3, <2>4
    <3>2. l \notin S => F[S] \in V BY <2>3, <2>4
    <3>3. l \in S => <<F[S \ {l}], l>> \in V \X (1..n) BY <2>2, <3>1
    <3> QED BY <3>2, <3>3
  <2>6. ASSUME NEW S \in SUBSET (1..l)
        PROVE  G[S] = IF S = {} THEN base ELSE H[<<G[S \ {Max(S)}], Max(S)>>]
    <3>1. CASE S = {}
      <4>1. G[S] = F[S] /\ S \in SUBSET (1..k) BY <3>1
      <4>2. F[S] = base BY <3>1, <4>1, <2>1 DEF Folds
      <4> QED BY <3>1, <4>1, <4>2
    <3>2. CASE S # {} /\ l \in S
      <4>1. Max(S) = l
        <5>1. Max(S) \in S /\ l <= Max(S) BY <3>2, <2>2, GreatestIs
        <5>2. Max(S) \in 1..l BY <5>1
        <5> QED BY <5>1, <5>2, <2>2
      <4>2. G[S] = H[<<F[S \ {l}], l>>] BY <3>2
      <4>3. S \ {l} \in SUBSET (1..l) /\ l \notin S \ {l} OBVIOUS
      <4>4. G[S \ {l}] = F[S \ {l}] BY <4>3
      <4> QED BY <3>2, <4>1, <4>2, <4>4
    <3>3. CASE S # {} /\ l \notin S
      <4>1. S \in SUBSET (1..k) /\ G[S] = F[S] BY <3>3, <2>3
      <4>2. Max(S) \in S BY <3>3, <4>1, GreatestIs
      <4>3. S \ {Max(S)} \in SUBSET (1..l) /\ l \notin S \ {Max(S)} BY <3>3
      <4>4. G[S \ {Max(S)}] = F[S \ {Max(S)}] BY <4>3
      <4>5. F[S] = H[<<F[S \ {Max(S)}], Max(S)>>] BY <4>1, <3>3, <2>1 DEF Folds
      <4> QED BY <3>3, <4>1, <4>4, <4>5
    <3> QED BY <3>1, <3>2, <3>3
  <2> HIDE DEF G
  <2>7. Folds(G, V, l, base, H) BY <2>5, <2>6 DEF Folds
  <2> QED BY <2>7 DEF l
<1> HIDE DEF K
<1>3. Nat \subseteq K BY <1>1, <1>2, CountUp
<1> QED BY <1>3 DEF K

-----------------------------------------------------------------------------
(* What a purchase costs                                                     *)

\* What a level of the asks adds to a purchase.
BuyStep(asks, fill, i) ==
  LET take == Smaller(fill.left, SizeOf(asks[i]))
  IN [left   |-> Sub(fill.left, take),
      filled |-> Add(fill.filled, take),
      gross  |-> Add(fill.gross, Mul(take, PriceOf(asks[i])))]

NoFill(shares) == [left |-> shares, filled |-> Zero, gross |-> Zero]

BuyRun(asks, shares) ==
  CHOOSE path : path = [S \in SUBSET DOMAIN asks |->
    IF S = {} THEN NoFill(shares) ELSE BuyStep(asks, path[S \ {Max(S)}], Max(S))]

LEMMA EstimateIsRun ==
  ASSUME NEW asks, NEW shares
  PROVE EstimateBuy(asks, shares) = BuyRun(asks, shares)[DOMAIN asks]
BY DEF EstimateBuy, FoldLeft, MapThenFoldSet, BuyRun, BuyStep, NoFill

Fill == [left : Fraction, filled : Fraction, gross : Fraction]

LEMMA BuyStepType ==
  ASSUME NEW asks \in Seq(Quoted), NEW fill \in Fill, NEW i \in 1..Len(asks)
  PROVE  BuyStep(asks, fill, i) \in Fill
<1>1. asks[i] \in Quoted OBVIOUS
<1>2. PriceOf(asks[i]) \in Fraction /\ SizeOf(asks[i]) \in Fraction
  BY <1>1 DEF Quoted, PriceOf, SizeOf, Amount, PositiveAmount
<1>3. fill.left \in Fraction /\ fill.filled \in Fraction /\ fill.gross \in Fraction BY DEF Fill
<1> DEFINE take == Smaller(fill.left, SizeOf(asks[i]))
<1>4. take \in Fraction BY <1>2, <1>3 DEF Smaller
<1> HIDE DEF take
<1>5. /\ Sub(fill.left, take) \in Fraction /\ Add(fill.filled, take) \in Fraction
      /\ Mul(take, PriceOf(asks[i])) \in Fraction
  BY <1>2, <1>3, <1>4, SumLaws, ProductLaws
<1>6. Add(fill.gross, Mul(take, PriceOf(asks[i]))) \in Fraction BY <1>3, <1>5, SumLaws
<1> QED BY <1>5, <1>6 DEF BuyStep, Fill, take

\* A purchase goes through the levels one after the other.
Buys(path, asks, shares) ==
  /\ path \in [0..Len(asks) -> Fill]
  /\ path[0] = NoFill(shares)
  /\ \A k \in 1..Len(asks) : path[k] = BuyStep(asks, path[k - 1], k)

\* EstimateBuy is what the last level leaves.
LEMMA EstimateSteps ==
  ASSUME NEW asks \in Seq(Quoted), NEW shares \in Fraction
  PROVE  \E path : Buys(path, asks, shares) /\ EstimateBuy(asks, shares) = path[Len(asks)]
<1> DEFINE n == Len(asks)
           H == [p \in Fill \X (1..n) |-> BuyStep(asks, p[1], p[2])]
           Whole == BuyRun(asks, shares)
<1>0. n \in Nat /\ DOMAIN asks = 1..n OBVIOUS
<1>1. NoFill(shares) \in Fill BY Units DEF NoFill, Fill
<1>2. H \in [Fill \X (1..n) -> Fill] BY BuyStepType
<1>3. PICK G : Folds(G, Fill, n, NoFill(shares), H)
  <2> HIDE DEF H, n
  <2> QED BY <1>0, <1>1, <1>2, FoldExists
<1>4. G = [S \in SUBSET (1..n) |->
             IF S = {} THEN NoFill(shares) ELSE BuyStep(asks, G[S \ {Max(S)}], Max(S))]
  <2>1. G \in [SUBSET (1..n) -> Fill] BY <1>3 DEF Folds
  <2>2. ASSUME NEW S \in SUBSET (1..n), S # {}
        PROVE  G[S] = BuyStep(asks, G[S \ {Max(S)}], Max(S))
    <3>1. Max(S) \in 1..n /\ S \ {Max(S)} \in SUBSET (1..n) BY <1>0, <2>2, GreatestIs
    <3>2. <<G[S \ {Max(S)}], Max(S)>> \in Fill \X (1..n) BY <2>1, <3>1
    <3>3. G[S] = H[<<G[S \ {Max(S)}], Max(S)>>] BY <1>3, <2>2 DEF Folds
    <3> QED BY <3>2, <3>3
  <2>3. G[{}] = NoFill(shares) BY <1>3 DEF Folds
  <2> HIDE DEF H, n
  <2> QED BY <2>1, <2>2, <2>3
<1>5. Whole = [S \in SUBSET (1..n) |->
               IF S = {} THEN NoFill(shares) ELSE BuyStep(asks, Whole[S \ {Max(S)}], Max(S))]
  BY <1>0, <1>4 DEF BuyRun
<1> HIDE DEF Whole, H, n
<1> DEFINE path == [k \in 0..n |-> Whole[1..k]]
<1>6. path[0] = NoFill(shares)
  <2>1. 1..0 = {} /\ 0 \in 0..n /\ {} \in SUBSET (1..n) BY <1>0
  <2> QED BY <1>5, <2>1
<1>7. ASSUME NEW k \in 1..n PROVE path[k] = BuyStep(asks, path[k - 1], k)
  <2>1. /\ 1..k \in SUBSET (1..n) /\ 1..k # {} /\ Max(1..k) = k
        /\ (1..k) \ {Max(1..k)} = 1..(k - 1)
    BY <1>0, FirstOnes
  <2>2. Whole[1..k] = BuyStep(asks, Whole[1..(k - 1)], k) BY <1>5, <2>1
  <2>3. k \in 0..n /\ k - 1 \in 0..n BY <1>0
  <2> QED BY <2>2, <2>3
<1>8. \A k \in 0..n : path[k] \in Fill
  <2> DEFINE K == {k \in Nat : k <= n => path[k] \in Fill}
  <2>1. 0 \in K BY <1>1, <1>6
  <2>2. ASSUME NEW k \in Nat, k \in K PROVE k + 1 \in K
    <3> SUFFICES ASSUME k + 1 <= n PROVE path[k + 1] \in Fill OBVIOUS
    <3>1. k + 1 \in 1..n /\ (k + 1) - 1 = k /\ k <= n BY <1>0
    <3>2. path[k] \in Fill BY <2>2, <3>1
    <3>3. path[k + 1] = BuyStep(asks, path[k], k + 1) BY <1>7, <3>1
    <3> HIDE DEF path
    <3> QED BY <3>1, <3>2, <3>3, BuyStepType DEF n
  <2> HIDE DEF K
  <2>3. Nat \subseteq K BY <2>1, <2>2, CountUp
  <2> SUFFICES ASSUME NEW k \in 0..n PROVE path[k] \in Fill OBVIOUS
  <2>4. k \in Nat /\ k <= n /\ k \in K BY <2>3, <1>0
  <2> HIDE DEF path
  <2> QED BY <2>4 DEF K
<1>9. EstimateBuy(asks, shares) = path[n]
  <2>1. EstimateBuy(asks, shares) = Whole[1..n] BY <1>0, EstimateIsRun DEF Whole
  <2> QED BY <1>0, <2>1
<1>10. path \in [0..n -> Fill] BY <1>8
<1> HIDE DEF path
<1>11. Buys(path, asks, shares) BY <1>6, <1>7, <1>10 DEF Buys, n
<1> QED BY <1>9, <1>11 DEF n

LEMMA Distributes ==
  ASSUME NEW x \in Fraction, NEW y \in Fraction, NEW z \in Fraction
  PROVE  Mul(x, Add(y, z)) = Add(Mul(x, y), Mul(x, z))
<1>1. PICK d \in Positive, n \in Int, m \in Int, k \in Int :
        IsOver(d, x, n) /\ IsOver(d, y, m) /\ IsOver(d, z, k)
  BY CommonThree
<1>2. x = Frac(n, d) /\ y = Frac(m, d) /\ z = Frac(k, d) BY <1>1 DEF IsOver
<1> DEFINE e == d * d
           a == n * m
           b == n * k
<1>3. e \in Positive /\ a \in Int /\ b \in Int BY PositiveProduct
<1>4. Add(y, z) = Frac(m + k, d) BY <1>2, SameDenominator
<1>5. Mul(x, y) = Frac(a, e) /\ Mul(x, z) = Frac(b, e)
  <2>1. Mul(x, y) = Frac(n * m, d * d) BY <1>2, Products
  <2>2. Mul(x, z) = Frac(n * k, d * d) BY <1>2, Products
  <2> QED BY <2>1, <2>2
<1>6. Mul(x, Add(y, z)) = Frac(n * (m + k), d * d)
  <2>1. m + k \in Int OBVIOUS
  <2> QED BY <1>2, <1>4, <2>1, Products
<1>7. n * (m + k) = a + b OBVIOUS
<1> HIDE DEF a, b
<1>8. Add(Mul(x, y), Mul(x, z)) = Frac(a + b, e)
  <2> HIDE DEF e
  <2> QED BY <1>3, <1>5, SameDenominator
<1> QED BY <1>6, <1>7, <1>8

\* What two purchases take of a level of this size, the one no larger than the other.
LEMMA TakesCompared ==
  ASSUME NEW x \in Amount, NEW y \in Amount, NEW size \in Amount, AtMost(x, y),
         NEW a, a = Smaller(x, size), NEW b, b = Smaller(y, size)
  PROVE  /\ a \in Amount /\ b \in Amount /\ AtMost(a, b)
         /\ Sub(x, a) \in Amount /\ Sub(y, b) \in Amount /\ AtMost(Sub(x, a), Sub(y, b))
         /\ Less(Zero, Sub(x, a)) => a = b /\ Less(Zero, x)
         /\ x = Zero => a = Zero
<1>0. x \in Fraction /\ y \in Fraction /\ size \in Fraction BY DEF Amount
<1>1. PICK d \in Positive, n \in Int, m \in Int, k \in Int :
        IsOver(d, x, n) /\ IsOver(d, y, m) /\ IsOver(d, size, k)
  BY <1>0, CommonThree
<1>2. x = Frac(n, d) /\ y = Frac(m, d) /\ size = Frac(k, d) /\ Zero = Frac(0, d)
  BY <1>1, Units DEF IsOver
<1>3. 0 <= n /\ 0 <= m /\ 0 <= k /\ n <= m
  BY <1>2, Compared DEF Amount
<1> DEFINE p == IF k < n THEN k ELSE n
           q == IF k < m THEN k ELSE m
<1>4. a = Frac(p, d) /\ b = Frac(q, d)
  <2>1. (Less(size, x) <=> k < n) /\ (Less(size, y) <=> k < m) BY <1>2, Compared
  <2> QED BY <1>2, <2>1 DEF Smaller
<1>5. /\ p \in Int /\ q \in Int /\ 0 <= p /\ 0 <= q /\ p <= q
      /\ n - p \in Int /\ m - q \in Int /\ 0 <= n - p /\ 0 <= m - q /\ n - p <= m - q
      /\ 0 < n - p => p = q /\ 0 < n
      /\ n = 0 => p = 0
  BY <1>3
<1> HIDE DEF p, q
<1>6. Sub(x, a) = Frac(n - p, d) /\ Sub(y, b) = Frac(m - q, d)
  BY <1>2, <1>4, <1>5, SameDenominator
<1>7. /\ a \in Fraction /\ b \in Fraction /\ Sub(x, a) \in Fraction /\ Sub(y, b) \in Fraction
  BY <1>4, <1>5, <1>6, FracType
<1>8. AtMost(Zero, a) /\ AtMost(Zero, b) /\ AtMost(a, b)
  BY <1>2, <1>4, <1>5, Compared
<1> DEFINE u == n - p
           v == m - q
<1>9. u \in Int /\ v \in Int /\ Sub(x, a) = Frac(u, d) /\ Sub(y, b) = Frac(v, d)
  BY <1>5, <1>6
<1>10. /\ 0 <= u /\ 0 <= v /\ u <= v
       /\ 0 < u => p = q /\ 0 < n
  BY <1>5
<1> HIDE DEF u, v
<1>11. /\ AtMost(Zero, Sub(x, a)) /\ AtMost(Zero, Sub(y, b)) /\ AtMost(Sub(x, a), Sub(y, b))
       /\ Less(Zero, Sub(x, a)) <=> 0 < u
  BY <1>2, <1>9, <1>10, Compared
<1>12. (Less(Zero, x) <=> 0 < n) /\ (x = Zero <=> n = 0) BY <1>2, Compared
<1> QED BY <1>2, <1>4, <1>5, <1>7, <1>8, <1>10, <1>11, <1>12 DEF Amount

\* What was paid is no more than all of it at this price.
PaidUpTo(fill, price) == AtMost(fill.gross, Mul(price, fill.filled))

LEMMA StaysPaidUpTo ==
  ASSUME NEW asks \in Seq(Quoted), NEW fill \in Fill, NEW i \in 1..Len(asks),
         NEW price \in Fraction, AtMost(PriceOf(asks[i]), price),
         fill.left \in Amount, PaidUpTo(fill, price)
  PROVE  PaidUpTo(BuyStep(asks, fill, i), price)
<1> DEFINE take == Smaller(fill.left, SizeOf(asks[i]))
           p == PriceOf(asks[i])
           F == fill.filled
           G == fill.gross
<1>1. p \in Fraction /\ SizeOf(asks[i]) \in Amount /\ F \in Fraction /\ G \in Fraction
  <2>1. asks[i] \in Quoted OBVIOUS
  <2> QED BY <2>1 DEF Quoted, PriceOf, SizeOf, PositiveAmount, Fill
<1>2. AtMost(fill.left, fill.left) BY OrderLaws DEF Fill
<1>3. take \in Amount BY <1>1, <1>2, TakesCompared
<1>4. BuyStep(asks, fill, i).filled = Add(F, take) /\ BuyStep(asks, fill, i).gross = Add(G, Mul(take, p))
  BY DEF BuyStep
<1>5. AtMost(p, price) /\ AtMost(G, Mul(price, F)) BY DEF PaidUpTo
<1> HIDE DEF take, p, F, G
<1>6. take \in Fraction /\ AtMost(Zero, take) BY <1>3 DEF Amount
<1>7. AtMost(Mul(take, p), Mul(take, price)) BY <1>1, <1>5, <1>6, ProductKeepsOrder
<1>8. Mul(take, price) = Mul(price, take) BY <1>6, ProductLaws
<1>9. Mul(price, F) \in Fraction /\ Mul(take, p) \in Fraction /\ Mul(price, take) \in Fraction
  BY <1>1, <1>6, ProductLaws
<1>10. AtMost(Add(G, Mul(take, p)), Add(Mul(price, F), Mul(price, take)))
  BY <1>1, <1>5, <1>7, <1>8, <1>9, SumKeepsOrder
<1>11. Mul(price, Add(F, take)) = Add(Mul(price, F), Mul(price, take)) BY <1>1, <1>6, Distributes
<1> QED BY <1>4, <1>10, <1>11 DEF PaidUpTo

\* Two purchases of the same levels, the one no larger than the other: they are one
\* purchase as long as the smaller has shares left to buy, and its average is no higher.
Compare(small, large) ==
  /\ small \in Fill /\ large \in Fill
  /\ small.left \in Amount /\ large.left \in Amount /\ AtMost(small.left, large.left)
  /\ Less(Zero, small.left) => small.filled = large.filled /\ small.gross = large.gross
  /\ AtMost(Mul(small.gross, large.filled), Mul(large.gross, small.filled))

LEMMA StaysCompared ==
  ASSUME NEW asks \in Seq(Quoted), NEW small, NEW large, NEW i \in 1..Len(asks),
         Compare(small, large), PaidUpTo(small, PriceOf(asks[i]))
  PROVE  Compare(BuyStep(asks, small, i), BuyStep(asks, large, i))
<1> DEFINE size == SizeOf(asks[i])
           p == PriceOf(asks[i])
           a == Smaller(small.left, size)
           b == Smaller(large.left, size)
           F == small.filled
           G == small.gross
           H == large.filled
           K == large.gross
           less == BuyStep(asks, small, i)
           more == BuyStep(asks, large, i)
<1>1. /\ p \in Fraction /\ size \in Amount /\ F \in Fraction /\ G \in Fraction
      /\ H \in Fraction /\ K \in Fraction
      /\ small.left \in Amount /\ large.left \in Amount /\ AtMost(small.left, large.left)
  <2>1. asks[i] \in Quoted OBVIOUS
  <2> QED BY <2>1 DEF Quoted, PriceOf, SizeOf, PositiveAmount, Fill, Compare
<1>2. /\ a \in Amount /\ b \in Amount /\ AtMost(a, b)
      /\ Sub(small.left, a) \in Amount /\ Sub(large.left, b) \in Amount
      /\ AtMost(Sub(small.left, a), Sub(large.left, b))
      /\ Less(Zero, Sub(small.left, a)) => a = b /\ Less(Zero, small.left)
      /\ small.left = Zero => a = Zero
  <2> HIDE DEF size
  <2> QED BY <1>1, TakesCompared
<1>3. /\ less.left = Sub(small.left, a) /\ less.filled = Add(F, a) /\ less.gross = Add(G, Mul(a, p))
      /\ more.left = Sub(large.left, b) /\ more.filled = Add(H, b) /\ more.gross = Add(K, Mul(b, p))
  BY DEF BuyStep
<1>4. less \in Fill /\ more \in Fill BY BuyStepType DEF Compare
<1>5. /\ Less(Zero, small.left) => F = H /\ G = K
      /\ AtMost(Mul(G, H), Mul(K, F)) /\ AtMost(G, Mul(p, F))
  BY DEF Compare, PaidUpTo
<1>6. a \in Fraction /\ b \in Fraction /\ AtMost(Zero, b) BY <1>2 DEF Amount
<1> HIDE DEF size, p, a, b, F, G, H, K, less, more
<1>7. Less(Zero, less.left) => less.filled = more.filled /\ less.gross = more.gross
  BY <1>2, <1>3, <1>5
<1>8. AtMost(Mul(less.gross, more.filled), Mul(more.gross, less.filled))
  <2>1. CASE Less(Zero, small.left)
    <3>1. F = H /\ G = K BY <2>1, <1>5
    <3>2. AtMost(Mul(Add(G, Mul(a, p)), Add(F, b)), Mul(Add(G, Mul(b, p)), Add(F, a)))
      BY <1>1, <1>2, <1>5, <1>6, AverageRises
    <3> QED BY <1>3, <3>1, <3>2
  <2>2. CASE ~Less(Zero, small.left)
    <3>1. small.left = Zero
      <4>1. Zero \in Fraction /\ small.left \in Fraction /\ AtMost(Zero, small.left)
        BY <1>1, Units DEF Amount
      <4> QED BY <2>2, <4>1, OrderLaws
    <3>2. Add(F, a) = F /\ Add(G, Mul(a, p)) = G
      <4>1. a = Zero /\ Mul(Zero, p) = Zero BY <3>1, <1>1, <1>2, ProductLaws
      <4> QED BY <1>1, <4>1, SumLaws
    <3>3. AtMost(Mul(G, Add(H, b)), Mul(Add(K, Mul(b, p)), F))
      BY <1>1, <1>5, <1>6, AverageRisesOn
    <3> QED BY <1>3, <3>2, <3>3
  <2> QED BY <2>1, <2>2
<1> QED BY <1>2, <1>3, <1>4, <1>7, <1>8 DEF Compare, less, more

\* The levels of a book go by price.
ByPrice(asks) ==
  \A i, j \in 1..Len(asks) : i <= j => AtMost(PriceOf(asks[i]), PriceOf(asks[j]))

\* So are the whole purchases, of a book by price.
LEMMA EstimatesCompared ==
  ASSUME NEW asks \in Seq(Quoted), ByPrice(asks),
         NEW s \in Amount, NEW t \in Amount, AtMost(s, t)
  PROVE  Compare(EstimateBuy(asks, s), EstimateBuy(asks, t))
<1>1. s \in Fraction /\ t \in Fraction BY DEF Amount
<1>2. PICK small : Buys(small, asks, s) /\ EstimateBuy(asks, s) = small[Len(asks)]
  BY <1>1, EstimateSteps
<1>3. PICK large : Buys(large, asks, t) /\ EstimateBuy(asks, t) = large[Len(asks)]
  BY <1>1, EstimateSteps
<1> DEFINE n == Len(asks)
           Good(k) == /\ Compare(small[k], large[k])
                      /\ \A i \in 1..n : k < i => PaidUpTo(small[k], PriceOf(asks[i]))
           K == {k \in Nat : k <= n => Good(k)}
<1>4. n \in Nat /\ \A i \in 1..n : PriceOf(asks[i]) \in Fraction
  <2>1. \A i \in 1..n : asks[i] \in Quoted OBVIOUS
  <2> QED BY <2>1 DEF Quoted, PriceOf, PositiveAmount
<1>5. Good(0)
  <2>1. small[0] = NoFill(s) /\ large[0] = NoFill(t) BY <1>2, <1>3 DEF Buys
  <2>2. Zero \in Fraction /\ Mul(Zero, Zero) = Zero /\ AtMost(Zero, Zero)
    BY Units, ProductLaws, OrderLaws
  <2>3. Compare(NoFill(s), NoFill(t)) BY <1>1, <2>2 DEF Compare, NoFill, Fill
  <2>4. ASSUME NEW i \in 1..n PROVE PaidUpTo(NoFill(s), PriceOf(asks[i]))
    <3>1. Mul(PriceOf(asks[i]), Zero) = Zero BY <1>4, <2>2, ProductLaws
    <3> QED BY <2>2, <3>1 DEF PaidUpTo, NoFill
  <2> QED BY <2>1, <2>3, <2>4
<1>6. ASSUME NEW k \in Nat, k < n, Good(k) PROVE Good(k + 1)
  <2> DEFINE l == k + 1
  <2>1. l \in 1..n /\ l - 1 = k BY <1>4, <1>6
  <2>2. small[l] = BuyStep(asks, small[k], l) /\ large[l] = BuyStep(asks, large[k], l)
    BY <1>2, <1>3, <2>1 DEF Buys
  <2>3. PaidUpTo(small[k], PriceOf(asks[l])) BY <1>6, <2>1
  <2> HIDE DEF l
  <2>4. Compare(small[l], large[l]) BY <1>6, <2>1, <2>2, <2>3, StaysCompared
  <2>5. ASSUME NEW i \in 1..n, l < i PROVE PaidUpTo(small[l], PriceOf(asks[i]))
    <3>1. AtMost(PriceOf(asks[l]), PriceOf(asks[i])) BY <2>1, <2>5, <1>4 DEF ByPrice
    <3>2. k < i BY <2>1, <2>5, <1>4
    <3>3. PaidUpTo(small[k], PriceOf(asks[i])) BY <1>6, <3>2
    <3>4. small[k] \in Fill /\ small[k].left \in Amount BY <1>6 DEF Compare
    <3> QED BY <1>4, <2>1, <2>2, <3>1, <3>3, <3>4, StaysPaidUpTo
  <2> QED BY <2>4, <2>5 DEF l
<1> HIDE DEF Good
<1>7. 0 \in K BY <1>5
<1>8. ASSUME NEW k \in Nat, k \in K PROVE k + 1 \in K BY <1>4, <1>6, <1>8
<1> HIDE DEF K
<1>9. Nat \subseteq K BY <1>7, <1>8, CountUp
<1>10. n \in K BY <1>4, <1>9
<1>11. Good(n) BY <1>4, <1>10 DEF K
<1> QED BY <1>2, <1>3, <1>11 DEF Good

\* What is bought costs something.
PaidFor(fill) ==
  /\ fill \in Fill /\ fill.left \in Amount /\ fill.filled \in Amount /\ fill.gross \in Amount
  /\ Less(Zero, fill.filled) => Less(Zero, fill.gross)

LEMMA StaysPaidFor ==
  ASSUME NEW asks \in Seq(Quoted), NEW fill, PaidFor(fill), NEW i \in 1..Len(asks)
  PROVE  PaidFor(BuyStep(asks, fill, i))
<1> DEFINE size == SizeOf(asks[i])
           take == Smaller(fill.left, size)
           p == PriceOf(asks[i])
           F == fill.filled
           G == fill.gross
           next == BuyStep(asks, fill, i)
<1>1. /\ p \in Fraction /\ Less(Zero, p) /\ size \in Amount
      /\ F \in Fraction /\ AtMost(Zero, F) /\ G \in Fraction /\ AtMost(Zero, G)
      /\ Less(Zero, F) => Less(Zero, G)
  <2>1. asks[i] \in Quoted OBVIOUS
  <2> QED BY <2>1 DEF Quoted, PriceOf, SizeOf, PositiveAmount, Amount, PaidFor
<1>2. take \in Amount /\ Sub(fill.left, take) \in Amount
  <2>1. fill.left \in Amount /\ AtMost(fill.left, fill.left) BY OrderLaws DEF PaidFor, Amount
  <2> HIDE DEF size
  <2> QED BY <1>1, <2>1, TakesCompared
<1>3. /\ next.left = Sub(fill.left, take) /\ next.filled = Add(F, take)
      /\ next.gross = Add(G, Mul(take, p))
  BY DEF BuyStep
<1>4. next \in Fill BY BuyStepType DEF PaidFor
<1> HIDE DEF size, take, p, F, G, next
<1>5. take \in Fraction /\ AtMost(Zero, take) /\ Zero \in Fraction BY <1>2, Units DEF Amount
<1> DEFINE c == Mul(take, p)
<1>6. c \in Fraction /\ AtMost(Zero, c) /\ (Less(Zero, take) => Less(Zero, c))
  BY <1>1, <1>5, ProductLaws, OrderLaws
<1> HIDE DEF c
<1>7. Add(F, take) \in Fraction /\ Add(G, c) \in Fraction /\ Add(G, c) = Add(c, G)
  BY <1>1, <1>5, <1>6, SumLaws
<1>8. AtMost(F, Add(F, take)) /\ AtMost(G, Add(G, c)) /\ AtMost(c, Add(G, c))
  <2>1. AtMost(F, Add(F, take)) BY <1>1, <1>5, SumLaws
  <2>2. AtMost(G, Add(G, c)) BY <1>1, <1>6, SumLaws
  <2>3. AtMost(c, Add(c, G)) BY <1>1, <1>6, SumLaws
  <2> QED BY <1>7, <2>1, <2>2, <2>3
<1>9. AtMost(Zero, Add(F, take)) /\ AtMost(Zero, Add(G, c))
  BY <1>1, <1>5, <1>7, <1>8, OrderThrough
<1>10. ASSUME Less(Zero, Add(F, take)) PROVE Less(Zero, Add(G, c))
  <2>1. CASE Less(Zero, F)
    <3>1. Less(Zero, G) BY <2>1, <1>1
    <3>2. AtMost(Add(G, c), Zero) => AtMost(G, Zero)
      BY <1>1, <1>5, <1>7, <1>8, OrderThrough
    <3> QED BY <3>1, <3>2, <1>1, <1>5, <1>7, OrderLaws
  <2>2. CASE Less(Zero, take)
    <3>1. Less(Zero, c) BY <2>2, <1>6
    <3>2. AtMost(Add(G, c), Zero) => AtMost(c, Zero)
      BY <1>5, <1>6, <1>7, <1>8, OrderThrough
    <3> QED BY <3>1, <3>2, <1>5, <1>6, <1>7, OrderLaws
  <2>3. CASE ~Less(Zero, F) /\ ~Less(Zero, take)
    <3>1. F = Zero /\ take = Zero BY <2>3, <1>1, <1>5, OrderLaws
    <3>2. Add(F, take) = Zero BY <3>1, <1>5, SumLaws
    <3> QED BY <1>10, <3>2, <1>5, OrderLaws
  <2> QED BY <2>1, <2>2, <2>3
<1> QED BY <1>2, <1>3, <1>4, <1>7, <1>9, <1>10 DEF PaidFor, Amount, next, c

LEMMA EstimateIsPaidFor ==
  ASSUME NEW asks \in Seq(Quoted), NEW s \in Amount
  PROVE  PaidFor(EstimateBuy(asks, s))
<1>1. s \in Fraction BY DEF Amount
<1>2. PICK path : Buys(path, asks, s) /\ EstimateBuy(asks, s) = path[Len(asks)]
  BY <1>1, EstimateSteps
<1> DEFINE n == Len(asks)
           K == {k \in Nat : k <= n => PaidFor(path[k])}
<1>3. n \in Nat OBVIOUS
<1>4. 0 \in K
  <2>1. Zero \in Fraction /\ AtMost(Zero, Zero) /\ ~Less(Zero, Zero) BY Units, OrderLaws
  <2>2. path[0] = NoFill(s) BY <1>2 DEF Buys
  <2>3. PaidFor(NoFill(s)) BY <1>1, <2>1 DEF PaidFor, NoFill, Fill, Amount
  <2> QED BY <2>2, <2>3
<1>5. ASSUME NEW k \in Nat, k \in K PROVE k + 1 \in K
  <2> SUFFICES ASSUME k + 1 <= n PROVE PaidFor(path[k + 1]) OBVIOUS
  <2>1. k + 1 \in 1..n /\ (k + 1) - 1 = k /\ PaidFor(path[k]) BY <1>3, <1>5
  <2>2. path[k + 1] = BuyStep(asks, path[k], k + 1) BY <1>2, <2>1 DEF Buys
  <2> QED BY <2>1, <2>2, StaysPaidFor
<1> HIDE DEF K
<1>6. Nat \subseteq K BY <1>4, <1>5, CountUp
<1>7. n \in K BY <1>3, <1>6
<1> QED BY <1>2, <1>3, <1>7 DEF K

Rate == {rate \in Amount : AtMost(rate, One)}

\* The price a share of a quoted that gets all its shares: the average with the fee and
\* the reserves on it.
LEMMA LegPrice ==
  ASSUME NEW asks \in Seq(Quoted), NEW shares \in PositiveAmount, NEW fee \in Rate,
         NEW slippage \in Amount, LegQuote(asks, shares, fee, slippage).complete
  PROVE  LET quoted == LegQuote(asks, shares, fee, slippage)
             average == Div(EstimateBuy(asks, shares).gross, shares)
         IN /\ EstimateBuy(asks, shares).filled = shares
            /\ average \in Fraction /\ Less(Zero, average)
            /\ quoted.price = Loaded(average, fee, Add(slippage, LatencyBuffer))
            /\ quoted.price \in Fraction /\ Less(Zero, quoted.price)
            /\ quoted.total \in Fraction /\ quoted.total = Mul(quoted.price, shares)
<1> DEFINE fill == EstimateBuy(asks, shares)
           quoted == LegQuote(asks, shares, fee, slippage)
           total == TotalCost(fill, fee, slippage)
           g == fill.gross
           average == Div(g, shares)
           least == Smaller(average, Sub(One, average))
           reserve == Add(slippage, LatencyBuffer)
<1>1. /\ quoted.complete = (fill.filled = shares) /\ quoted.total = total
      /\ quoted.price = IF fill.filled = Zero THEN Zero ELSE Div(total, fill.filled)
  BY DEF LegQuote
<1>2. fill.filled = shares BY <1>1
<1>3. shares \in Fraction /\ Less(Zero, shares) /\ shares # Zero
  BY Units, OrderLaws DEF PositiveAmount
<1>4. shares \in Amount BY <1>3, Units, OrderLaws DEF Amount
<1>5. PaidFor(fill) BY <1>4, EstimateIsPaidFor
<1>6. g \in Fraction /\ Less(Zero, g) BY <1>2, <1>3, <1>5 DEF PaidFor, Amount
<1>7. /\ fee \in Fraction /\ AtMost(Zero, fee) /\ AtMost(fee, One)
      /\ slippage \in Fraction /\ AtMost(Zero, slippage)
      /\ LatencyBuffer \in Fraction /\ AtMost(Zero, LatencyBuffer)
  BY RiskAssumption DEF RiskAssumption, Rate, Amount
<1>8. AveragePrice(fill) = average BY <1>2, <1>3 DEF AveragePrice
<1>9. total = Add(Add(g, Mul(Mul(shares, least), fee)), Mul(g, reserve))
  BY <1>2, <1>8 DEF TotalCost, BinaryTakerFee
<1>10. average \in Fraction /\ Less(Zero, average)
  BY <1>3, <1>6, ProductLaws, QuotientLaws
<1>11. reserve \in Fraction /\ AtMost(Zero, reserve)
  <2>1. reserve \in Fraction /\ AtMost(slippage, reserve) BY <1>7, SumLaws
  <2>2. Zero \in Fraction BY Units
  <2> QED BY <1>7, <2>1, <2>2, OrderThrough
<1>12. least \in Fraction
  <2>1. Sub(One, average) \in Fraction BY <1>10, Units, SumLaws
  <2> QED BY <1>10, <2>1 DEF Smaller
<1>13. quoted.price = Div(total, shares) BY <1>1, <1>2, <1>3
<1> HIDE DEF fill, quoted, total, g, average, least, reserve
<1> DEFINE m == Mul(shares, least)
           charged == Mul(m, fee)
           reserved == Mul(g, reserve)
<1>14. m \in Fraction /\ charged \in Fraction /\ reserved \in Fraction
  <2>1. m \in Fraction BY <1>3, <1>12, ProductLaws
  <2> QED BY <2>1, <1>6, <1>7, <1>11, ProductLaws
<1>15. Add(g, charged) \in Fraction /\ total \in Fraction
  <2>1. Add(g, charged) \in Fraction BY <1>6, <1>14, SumLaws
  <2> QED BY <2>1, <1>9, <1>14, SumLaws
<1>16. Div(total, shares)
         = Add(Add(Div(g, shares), Div(charged, shares)), Div(reserved, shares))
  <2> HIDE DEF charged, reserved
  <2>1. Div(Add(g, charged), shares) = Add(Div(g, shares), Div(charged, shares))
    BY <1>3, <1>6, <1>14, QuotientLaws
  <2>2. Div(Add(Add(g, charged), reserved), shares)
          = Add(Div(Add(g, charged), shares), Div(reserved, shares))
    BY <1>3, <1>14, <1>15, QuotientLaws
  <2> QED BY <1>9, <2>1, <2>2 DEF charged, reserved
<1>17. Div(charged, shares) = Mul(least, fee)
  <2>1. Div(charged, shares) = Mul(Div(m, shares), fee) BY <1>3, <1>7, <1>14, QuotientLaws
  <2>2. m = Mul(least, shares) BY <1>3, <1>12, ProductLaws
  <2>3. Div(Mul(least, shares), shares) = least BY <1>3, <1>12, ProductLaws
  <2> QED BY <2>1, <2>2, <2>3
<1>18. Div(reserved, shares) = Mul(average, reserve)
  BY <1>3, <1>6, <1>11, QuotientLaws DEF average
<1>19. quoted.price = Loaded(average, fee, reserve)
  BY <1>13, <1>16, <1>17, <1>18 DEF Loaded, least, average
<1>20. AtMost(average, average) BY <1>10, OrderLaws
<1>21. quoted.price \in Fraction /\ Less(Zero, quoted.price)
  BY <1>7, <1>10, <1>11, <1>19, <1>20, LoadedRises
<1>22. total = Mul(quoted.price, shares) BY <1>3, <1>13, <1>15, ProductLaws
<1> QED BY <1>1, <1>2, <1>10, <1>15, <1>19, <1>21, <1>22 DEF fill, quoted, average, reserve, g

\* A share of the smaller purchase costs no more than one of the larger.
LEMMA LegsCompared ==
  ASSUME NEW asks \in Seq(Quoted), ByPrice(asks), NEW fee \in Rate, NEW slippage \in Amount,
         NEW s \in PositiveAmount, NEW t \in PositiveAmount, AtMost(s, t),
         LegQuote(asks, s, fee, slippage).complete, LegQuote(asks, t, fee, slippage).complete
  PROVE  AtMost(LegQuote(asks, s, fee, slippage).price, LegQuote(asks, t, fee, slippage).price)
<1> DEFINE G == EstimateBuy(asks, s).gross
           H == EstimateBuy(asks, t).gross
           a == Div(G, s)
           b == Div(H, t)
           reserve == Add(slippage, LatencyBuffer)
<1>1. /\ EstimateBuy(asks, s).filled = s /\ a \in Fraction
      /\ LegQuote(asks, s, fee, slippage).price = Loaded(a, fee, reserve)
  BY LegPrice
<1>2. /\ EstimateBuy(asks, t).filled = t /\ b \in Fraction
      /\ LegQuote(asks, t, fee, slippage).price = Loaded(b, fee, reserve)
  BY LegPrice
<1>3. /\ s \in Fraction /\ Less(Zero, s) /\ s \in Amount
      /\ t \in Fraction /\ Less(Zero, t) /\ t \in Amount
  BY Units, OrderLaws DEF PositiveAmount, Amount
<1>4. Compare(EstimateBuy(asks, s), EstimateBuy(asks, t)) BY <1>3, EstimatesCompared
<1>5. G \in Fraction /\ H \in Fraction /\ AtMost(Mul(G, t), Mul(H, s))
  BY <1>1, <1>2, <1>4 DEF Compare, Fill
<1>6. AtMost(a, b)
  <2> HIDE DEF G, H
  <2> QED BY <1>3, <1>5, QuotientsCompared
<1>7. /\ fee \in Fraction /\ AtMost(Zero, fee) /\ AtMost(fee, One)
      /\ slippage \in Fraction /\ AtMost(Zero, slippage)
      /\ LatencyBuffer \in Fraction /\ AtMost(Zero, LatencyBuffer)
  BY RiskAssumption DEF RiskAssumption, Rate, Amount
<1>8. reserve \in Fraction /\ AtMost(Zero, reserve)
  <2>1. reserve \in Fraction /\ AtMost(slippage, reserve) BY <1>7, SumLaws
  <2>2. Zero \in Fraction BY Units
  <2> QED BY <1>7, <2>1, <2>2, OrderThrough
<1> HIDE DEF a, b, reserve
<1>9. AtMost(Loaded(a, fee, reserve), Loaded(b, fee, reserve))
  BY <1>1, <1>2, <1>6, <1>7, <1>8, LoadedRises
<1> QED BY <1>1, <1>2, <1>9

\* The price a share of both legs, when both get all their shares.
LEMMA ComboPrice ==
  ASSUME NEW ours \in Seq(Quoted), NEW theirs \in Seq(Quoted), NEW shares \in PositiveAmount,
         EvaluateCombo(ours, theirs, shares).executable
  PROVE  LET quote == EvaluateCombo(ours, theirs, shares)
         IN /\ quote.shares = shares
            /\ quote.predict = LegQuote(ours, shares, PredictFee, PredictSlippage)
            /\ quote.polymarket = LegQuote(theirs, shares, PolymarketFee, PolymarketSlippage)
            /\ quote.predict.complete /\ quote.polymarket.complete
            /\ quote.predict.price \in Fraction /\ Less(Zero, quote.predict.price)
            /\ quote.predict.total = Mul(quote.predict.price, shares)
            /\ quote.polymarket.price \in Fraction /\ Less(Zero, quote.polymarket.price)
            /\ quote.polymarket.total = Mul(quote.polymarket.price, shares)
            /\ quote.netCost = Add(Add(quote.predict.price, quote.polymarket.price), PerShareCost)
            /\ quote.netCost \in Fraction /\ Less(Zero, quote.netCost)
<1> DEFINE quote == EvaluateCombo(ours, theirs, shares)
           predict == LegQuote(ours, shares, PredictFee, PredictSlippage)
           polymarket == LegQuote(theirs, shares, PolymarketFee, PolymarketSlippage)
<1>1. /\ quote.shares = shares /\ quote.predict = predict /\ quote.polymarket = polymarket
      /\ quote.netCost = Div(Add(Add(predict.total, polymarket.total), Mul(PerShareCost, shares)),
                             shares)
      /\ predict.complete /\ polymarket.complete
  BY DEF EvaluateCombo
<1>2. /\ PredictFee \in Rate /\ PolymarketFee \in Rate
      /\ PredictSlippage \in Amount /\ PolymarketSlippage \in Amount
      /\ PerShareCost \in Fraction /\ AtMost(Zero, PerShareCost)
  BY RiskAssumption DEF RiskAssumption, Rate, Amount
<1>3. /\ predict.price \in Fraction /\ Less(Zero, predict.price)
      /\ predict.total \in Fraction /\ predict.total = Mul(predict.price, shares)
  BY <1>1, <1>2, LegPrice
<1>4. /\ polymarket.price \in Fraction /\ Less(Zero, polymarket.price)
      /\ polymarket.total \in Fraction /\ polymarket.total = Mul(polymarket.price, shares)
  BY <1>1, <1>2, LegPrice
<1> DEFINE x == predict.price
           y == polymarket.price
           u == predict.total
           v == polymarket.total
           w == Mul(PerShareCost, shares)
<1>5. /\ x \in Fraction /\ Less(Zero, x) /\ u \in Fraction /\ u = Mul(x, shares)
      /\ y \in Fraction /\ Less(Zero, y) /\ v \in Fraction /\ v = Mul(y, shares)
      /\ quote.netCost = Div(Add(Add(u, v), w), shares)
  BY <1>1, <1>3, <1>4
<1>6. shares \in Fraction /\ Less(Zero, shares) BY DEF PositiveAmount
<1>7. w \in Fraction BY <1>2, <1>6, ProductLaws
<1> HIDE DEF x, y, u, v, w, quote
<1>8. Add(u, v) \in Fraction BY <1>5, SumLaws
<1>9. quote.netCost = Add(Add(Div(u, shares), Div(v, shares)), Div(w, shares))
  <2>1. Div(Add(Add(u, v), w), shares) = Add(Div(Add(u, v), shares), Div(w, shares))
    BY <1>6, <1>7, <1>8, QuotientLaws
  <2>2. Div(Add(u, v), shares) = Add(Div(u, shares), Div(v, shares))
    BY <1>5, <1>6, QuotientLaws
  <2> QED BY <1>5, <2>1, <2>2
<1>10. Div(u, shares) = x /\ Div(v, shares) = y /\ Div(w, shares) = PerShareCost
  <2>1. Div(u, shares) = x BY <1>5, <1>6, ProductLaws
  <2>2. Div(v, shares) = y BY <1>5, <1>6, ProductLaws
  <2>3. Div(w, shares) = PerShareCost BY <1>2, <1>6, ProductLaws DEF w
  <2> QED BY <2>1, <2>2, <2>3
<1>11. quote.netCost = Add(Add(x, y), PerShareCost) BY <1>9, <1>10
<1>12. Add(x, y) \in Fraction /\ Less(Zero, Add(x, y))
  <2>1. Add(x, y) \in Fraction /\ Less(x, Add(x, y)) BY <1>5, SumLaws
  <2>2. AtMost(Zero, x) /\ Zero \in Fraction BY <1>5, Units, OrderLaws
  <2> QED BY <1>5, <2>1, <2>2, OrderThrough
<1>13. quote.netCost \in Fraction /\ Less(Zero, quote.netCost)
  <2>1. quote.netCost \in Fraction /\ AtMost(Add(x, y), quote.netCost)
    BY <1>2, <1>11, <1>12, SumLaws
  <2>2. Zero \in Fraction BY Units
  <2>3. AtMost(quote.netCost, Zero) => AtMost(Add(x, y), Zero)
    BY <1>12, <2>1, <2>2, OrderThrough
  <2> QED BY <1>12, <2>1, <2>2, <2>3, OrderLaws
<1> QED BY <1>1, <1>3, <1>4, <1>11, <1>13 DEF quote, x, y

\* Fewer shares of both legs cost no more each.
LEMMA CombosCompared ==
  ASSUME NEW ours \in Seq(Quoted), NEW theirs \in Seq(Quoted), ByPrice(ours), ByPrice(theirs),
         NEW s \in PositiveAmount, NEW t \in PositiveAmount, AtMost(s, t),
         EvaluateCombo(ours, theirs, s).executable, EvaluateCombo(ours, theirs, t).executable
  PROVE  LET small == EvaluateCombo(ours, theirs, s)
             large == EvaluateCombo(ours, theirs, t)
         IN /\ AtMost(small.predict.price, large.predict.price)
            /\ AtMost(small.polymarket.price, large.polymarket.price)
            /\ AtMost(small.netCost, large.netCost)
<1> DEFINE small == EvaluateCombo(ours, theirs, s)
           large == EvaluateCombo(ours, theirs, t)
           x == small.predict.price
           y == small.polymarket.price
           u == large.predict.price
           v == large.polymarket.price
<1>0. /\ PredictFee \in Rate /\ PolymarketFee \in Rate
      /\ PredictSlippage \in Amount /\ PolymarketSlippage \in Amount
      /\ PerShareCost \in Fraction
  BY RiskAssumption DEF RiskAssumption, Rate, Amount
<1>1. /\ small.predict = LegQuote(ours, s, PredictFee, PredictSlippage)
      /\ small.polymarket = LegQuote(theirs, s, PolymarketFee, PolymarketSlippage)
      /\ small.predict.complete /\ small.polymarket.complete
      /\ x \in Fraction /\ y \in Fraction
      /\ small.netCost = Add(Add(x, y), PerShareCost)
  BY ComboPrice
<1>2. /\ large.predict = LegQuote(ours, t, PredictFee, PredictSlippage)
      /\ large.polymarket = LegQuote(theirs, t, PolymarketFee, PolymarketSlippage)
      /\ large.predict.complete /\ large.polymarket.complete
      /\ u \in Fraction /\ v \in Fraction
      /\ large.netCost = Add(Add(u, v), PerShareCost)
  BY ComboPrice
<1> HIDE DEF small, large
<1>3. AtMost(x, u) BY <1>0, <1>1, <1>2, LegsCompared
<1>4. AtMost(y, v) BY <1>0, <1>1, <1>2, LegsCompared
<1> HIDE DEF x, y, u, v
<1>5. AtMost(Add(x, y), Add(u, v)) BY <1>1, <1>2, <1>3, <1>4, SumKeepsOrder
<1>6. Add(x, y) \in Fraction /\ Add(u, v) \in Fraction BY <1>1, <1>2, SumLaws
<1>7. AtMost(PerShareCost, PerShareCost) BY <1>0, OrderLaws
<1>8. AtMost(Add(Add(x, y), PerShareCost), Add(Add(u, v), PerShareCost))
  BY <1>0, <1>5, <1>6, <1>7, SumKeepsOrder
<1> QED BY <1>1, <1>2, <1>3, <1>4, <1>8 DEF small, large, x, y, u, v

IsLeast(x, S) == x \in S /\ \A y \in S : AtMost(x, y)

LEMMA LeastOfMore ==
  ASSUME NEW S \in SUBSET Fraction, NEW m, IsLeast(m, S), NEW x \in Fraction
  PROVE  \E l \in S \cup {x} : IsLeast(l, S \cup {x})
<1>1. m \in Fraction /\ m \in S BY DEF IsLeast
<1>2. AtMost(m, m) /\ AtMost(x, x) /\ (AtMost(m, x) \/ AtMost(x, m)) BY <1>1, OrderLaws
<1>3. CASE AtMost(m, x) BY <1>1, <1>3 DEF IsLeast
<1>4. CASE AtMost(x, m)
  <2>1. \A y \in S : AtMost(x, y)
    <3> SUFFICES ASSUME NEW y \in S PROVE AtMost(x, y) OBVIOUS
    <3>1. AtMost(m, y) /\ y \in Fraction BY DEF IsLeast
    <3> QED BY <1>1, <1>4, <3>1, OrderThrough
  <2> QED BY <1>2, <2>1 DEF IsLeast
<1> QED BY <1>2, <1>3, <1>4

\* The least of the candidates exists: there is at most one cap.
LEMMA LeastIsLeast ==
  ASSUME NEW a \in Fraction, NEW b \in Fraction, NEW c \in Fraction,
         NEW T \in SUBSET Fraction, \A x, y \in T : x = y
  PROVE  IsLeast(Least({a, b, c} \cup T), {a, b, c} \cup T)
<1>1. IsLeast(a, {a}) BY OrderLaws DEF IsLeast
<1>2. PICK l : IsLeast(l, {a} \cup {b}) BY <1>1, LeastOfMore
<1>3. PICK m : IsLeast(m, {a, b} \cup {c})
  <2>1. {a} \cup {b} = {a, b} /\ {a, b} \in SUBSET Fraction OBVIOUS
  <2> QED BY <1>2, <2>1, LeastOfMore
<1>4. \E n : IsLeast(n, {a, b, c} \cup T)
  <2>1. {a, b} \cup {c} = {a, b, c} /\ {a, b, c} \in SUBSET Fraction OBVIOUS
  <2>2. CASE T = {}
    <3>1. {a, b, c} \cup T = {a, b, c} BY <2>2
    <3> QED BY <1>3, <2>1, <3>1
  <2>3. CASE T # {}
    <3>1. PICK x \in T : TRUE BY <2>3
    <3>2. {a, b, c} \cup T = {a, b, c} \cup {x} BY <3>1
    <3>3. IsLeast(m, {a, b, c}) /\ x \in Fraction BY <1>3, <2>1, <3>1
    <3>4. PICK n : IsLeast(n, {a, b, c} \cup {x}) BY <2>1, <3>3, LeastOfMore
    <3> QED BY <3>2, <3>4
  <2> QED BY <2>2, <2>3
<1> DEFINE S == {a, b, c} \cup T
<1> HIDE DEF S
<1>5. \E n \in S : \A y \in S : AtMost(n, y) BY <1>4 DEF IsLeast, S
<1>6. Least(S) \in S /\ \A y \in S : AtMost(Least(S), y) BY <1>5 DEF Least
<1> QED BY <1>6 DEF S, IsLeast

LEMMA QuotientIsAmount ==
  ASSUME NEW x \in Amount, NEW f \in Fraction, Less(Zero, f)
  PROVE  Div(x, f) \in Amount
<1>1. x \in Fraction /\ AtMost(Zero, x) /\ Zero \in Fraction BY Units DEF Amount
<1>2. Div(x, f) \in Fraction /\ (Less(Zero, x) => Less(Zero, Div(x, f)))
  BY <1>1, ProductLaws, QuotientLaws
<1>3. CASE Less(Zero, x) BY <1>1, <1>2, <1>3, OrderLaws DEF Amount
<1>4. CASE x = Zero
  <2>1. Mul(Zero, f) = Zero /\ Div(Mul(Zero, f), f) = Zero BY <1>1, ProductLaws
  <2>2. AtMost(Zero, Zero) BY <1>1, OrderLaws
  <2> QED BY <1>1, <1>4, <2>1, <2>2 DEF Amount
<1> QED BY <1>1, <1>3, <1>4, OrderLaws

\* What WithinBudgets says of a trade.
InBudget(quote, balance, collateral) ==
  /\ AtMost(quote.predict.total, Mul(balance, TradeFraction))
  /\ AtMost(quote.polymarket.total, collateral)
  /\ \A cap \in TradeCaps : AtMost(Mul(quote.netCost, quote.shares), cap)

\* A share that costs no more than the one the budget was divided by.
LEMMA PaysFor ==
  ASSUME NEW s \in PositiveAmount, NEW budget \in Fraction,
         NEW price \in Fraction, NEW dearer \in Fraction, Less(Zero, dearer),
         AtMost(price, dearer), AtMost(s, Div(budget, dearer))
  PROVE  AtMost(Mul(price, s), budget)
<1>1. s \in Fraction /\ AtMost(Zero, s) BY Units, OrderLaws DEF PositiveAmount
<1>2. AtMost(Mul(s, dearer), budget) BY <1>1, WithinBudget
<1>3. AtMost(Mul(price, s), Mul(dearer, s)) BY <1>1, ProductKeepsOrder
<1>4. Mul(dearer, s) = Mul(s, dearer) /\ Mul(price, s) \in Fraction /\ Mul(s, dearer) \in Fraction
  BY <1>1, ProductLaws
<1> QED BY <1>2, <1>3, <1>4, OrderThrough

\* The least of the sizes the depth and the budgets allow.
LEMMA LeastIsInBudget ==
  ASSUME NEW ours \in Seq(Quoted), NEW theirs \in Seq(Quoted), ByPrice(ours), ByPrice(theirs),
         NEW balance \in Amount, NEW collateral \in Amount,
         NEW depth \in PositiveAmount, EvaluateCombo(ours, theirs, depth).executable,
         NEW s, s = Least(Candidates(depth, EvaluateCombo(ours, theirs, depth), balance, collateral)),
         s # Zero, EvaluateCombo(ours, theirs, s).executable
  PROVE  InBudget(EvaluateCombo(ours, theirs, s), balance, collateral)
<1> DEFINE large == EvaluateCombo(ours, theirs, depth)
           small == EvaluateCombo(ours, theirs, s)
           budget == Mul(balance, TradeFraction)
           a == Div(budget, large.predict.price)
           b == Div(collateral, large.polymarket.price)
           T == {Div(cap, large.netCost) : cap \in TradeCaps}
<1>1. /\ large.predict.price \in Fraction /\ Less(Zero, large.predict.price)
      /\ large.polymarket.price \in Fraction /\ Less(Zero, large.polymarket.price)
      /\ large.netCost \in Fraction /\ Less(Zero, large.netCost)
  BY ComboPrice
<1>2. /\ TradeFraction \in Amount /\ TradeCaps \subseteq Amount
      /\ \A cap, other \in TradeCaps : cap = other
  BY RiskAssumption DEF RiskAssumption
<1> HIDE DEF large
<1>3. budget \in Amount BY <1>2, ProductLaws DEF Amount
<1>4. a \in Amount /\ b \in Amount /\ T \subseteq Amount
  BY <1>1, <1>2, <1>3, QuotientIsAmount
<1>5. depth \in Amount BY Units, OrderLaws DEF Amount, PositiveAmount
<1>6. \A x, y \in T : x = y BY <1>2
<1>7. s = Least({depth, a, b} \cup T) BY DEF Candidates, large
<1>8. IsLeast(s, {depth, a, b} \cup T)
  <2> HIDE DEF a, b, T
  <2>1. depth \in Fraction /\ a \in Fraction /\ b \in Fraction /\ T \in SUBSET Fraction
    BY <1>4, <1>5 DEF Amount
  <2> QED BY <1>6, <1>7, <2>1, LeastIsLeast
<1>9. /\ s \in Amount /\ AtMost(s, depth) /\ AtMost(s, a) /\ AtMost(s, b)
      /\ \A cap \in TradeCaps : AtMost(s, Div(cap, large.netCost))
  <2>1. \A cap \in TradeCaps : Div(cap, large.netCost) \in T OBVIOUS
  <2> HIDE DEF a, b, T
  <2> QED BY <1>4, <1>5, <1>8, <2>1 DEF IsLeast
<1>10. s \in PositiveAmount BY <1>9, Units, OrderLaws DEF Amount, PositiveAmount
<1>11. /\ AtMost(small.predict.price, large.predict.price)
       /\ AtMost(small.polymarket.price, large.polymarket.price)
       /\ AtMost(small.netCost, large.netCost)
  BY <1>9, <1>10, CombosCompared DEF large
<1>12. /\ small.shares = s
       /\ small.predict.price \in Fraction /\ small.predict.total = Mul(small.predict.price, s)
       /\ small.polymarket.price \in Fraction
       /\ small.polymarket.total = Mul(small.polymarket.price, s)
       /\ small.netCost \in Fraction
  BY <1>10, ComboPrice
<1> HIDE DEF small, budget
<1>13. AtMost(small.predict.total, budget)
  <2>1. budget \in Fraction BY <1>3 DEF Amount
  <2> QED BY <1>1, <1>9, <1>10, <1>11, <1>12, <2>1, PaysFor
<1>14. AtMost(small.polymarket.total, collateral)
  <2>1. collateral \in Fraction BY DEF Amount
  <2> QED BY <1>1, <1>9, <1>10, <1>11, <1>12, <2>1, PaysFor
<1>15. ASSUME NEW cap \in TradeCaps PROVE AtMost(Mul(small.netCost, small.shares), cap)
  <2>1. cap \in Fraction BY <1>2 DEF Amount
  <2> QED BY <1>1, <1>9, <1>10, <1>11, <1>12, <2>1, PaysFor
<1> QED BY <1>13, <1>14, <1>15 DEF InBudget, small, budget

-----------------------------------------------------------------------------
(* The depth that is worth its price                                         *)

\* Where the walk over both books stands.
SizeAt(asks, i) == IF i \in DOMAIN asks THEN SizeOf(asks[i]) ELSE Zero

Walking == [i : Nat \ {0}, j : Nat \ {0}, predict : Amount, polymarket : Amount,
            sum : Amount, points : Seq(PositiveAmount)]

WalkStart(ours, theirs) ==
  [i |-> 1, j |-> 1, predict |-> SizeAt(ours, 1), polymarket |-> SizeAt(theirs, 1),
   sum |-> Zero, points |-> << >>]

WalkOn(ours, theirs, at, take) ==
  LET sum == Add(at.sum, take)
      predictDone    == take = at.predict
      polymarketDone == take = at.polymarket
  IN [i |-> IF predictDone THEN at.i + 1 ELSE at.i,
      j |-> IF polymarketDone THEN at.j + 1 ELSE at.j,
      predict |-> IF predictDone THEN SizeAt(ours, at.i + 1) ELSE Sub(at.predict, take),
      polymarket |-> IF polymarketDone THEN SizeAt(theirs, at.j + 1)
                     ELSE Sub(at.polymarket, take),
      sum |-> sum,
      points |-> IF take = Zero THEN at.points ELSE Append(at.points, sum)]

WalkStep(ours, theirs, at, k) ==
  IF at.i > Len(ours) \/ at.j > Len(theirs) THEN at
  ELSE WalkOn(ours, theirs, at, Smaller(at.predict, at.polymarket))

Steps(ours, theirs) == [k \in 1..(Len(ours) + Len(theirs)) |-> k]

WalkRun(ours, theirs) ==
  CHOOSE path : path = [S \in SUBSET DOMAIN Steps(ours, theirs) |->
    IF S = {} THEN WalkStart(ours, theirs)
    ELSE WalkStep(ours, theirs, path[S \ {Max(S)}], Steps(ours, theirs)[Max(S)])]

LEMMA PointsAreWalked ==
  ASSUME NEW ours, NEW theirs
  PROVE  PairedBreakpoints(ours, theirs)
           = WalkRun(ours, theirs)[DOMAIN Steps(ours, theirs)].points
BY DEF PairedBreakpoints, FoldLeft, MapThenFoldSet, WalkRun, WalkStep, WalkOn, WalkStart,
       SizeAt, Steps

LEMMA SizeIsAmount ==
  ASSUME NEW asks \in Seq(Quoted), NEW i
  PROVE  SizeAt(asks, i) \in Amount
<1>1. Zero \in Amount BY Units, OrderLaws DEF Amount
<1>2. ASSUME i \in DOMAIN asks PROVE SizeOf(asks[i]) \in Amount
  <2>1. asks[i] \in Quoted BY <1>2
  <2> QED BY <2>1 DEF Quoted, SizeOf
<1> QED BY <1>1, <1>2 DEF SizeAt

LEMMA WalkStays ==
  ASSUME NEW ours \in Seq(Quoted), NEW theirs \in Seq(Quoted), NEW at \in Walking, NEW k
  PROVE  WalkStep(ours, theirs, at, k) \in Walking
<1> DEFINE take == Smaller(at.predict, at.polymarket)
           sum == Add(at.sum, take)
<1>1. /\ at.i \in Nat \ {0} /\ at.j \in Nat \ {0} /\ at.predict \in Amount
      /\ at.polymarket \in Amount /\ at.sum \in Amount /\ at.points \in Seq(PositiveAmount)
  BY DEF Walking
<1>2. at.i + 1 \in Nat \ {0} /\ at.j + 1 \in Nat \ {0} BY <1>1
<1>3. /\ SizeAt(ours, at.i + 1) \in Amount /\ SizeAt(theirs, at.j + 1) \in Amount
  BY SizeIsAmount
<1>4. take \in Amount /\ AtMost(take, at.predict) /\ AtMost(take, at.polymarket)
  BY <1>1, OrderLaws DEF Smaller, Amount
<1> HIDE DEF take
<1>5. Sub(at.predict, take) \in Amount /\ Sub(at.polymarket, take) \in Amount
  BY <1>1, <1>4, SumLaws DEF Amount
<1>6. sum \in Fraction /\ AtMost(at.sum, sum) /\ (take # Zero => Less(Zero, sum))
  <2>1. at.sum \in Fraction /\ take \in Fraction /\ AtMost(Zero, take) /\ AtMost(Zero, at.sum)
    BY <1>1, <1>4 DEF Amount
  <2>2. sum \in Fraction /\ AtMost(at.sum, sum) BY <2>1, SumLaws
  <2>3. ASSUME take # Zero PROVE Less(Zero, sum)
    <3>1. Less(Zero, take) BY <2>1, <2>3, Units, OrderLaws
    <3>2. Less(at.sum, sum) BY <2>1, <3>1, SumLaws
    <3> QED BY <2>1, <2>2, <3>2, Units, OrderThrough
  <2> QED BY <2>2, <2>3
<1> HIDE DEF sum
<1>7. sum \in Amount /\ (take # Zero => sum \in PositiveAmount)
  BY <1>1, <1>6, Units, OrderThrough DEF Amount, PositiveAmount
<1>8. take # Zero => Append(at.points, sum) \in Seq(PositiveAmount) BY <1>1, <1>7
<1>9. WalkOn(ours, theirs, at, take) \in Walking
  BY <1>1, <1>2, <1>3, <1>5, <1>7, <1>8 DEF WalkOn, Walking, sum
<1> QED BY <1>9 DEF WalkStep, take

\* A walk, a step at a time.
Walks(path, ours, theirs) ==
  /\ path \in [0..(Len(ours) + Len(theirs)) -> Walking]
  /\ path[0] = WalkStart(ours, theirs)
  /\ \A k \in 1..(Len(ours) + Len(theirs)) : path[k] = WalkStep(ours, theirs, path[k - 1], k)

\* The walk goes a step at a time, and its points are those it ends with.
LEMMA WalkSteps ==
  ASSUME NEW ours \in Seq(Quoted), NEW theirs \in Seq(Quoted)
  PROVE  \E path : /\ Walks(path, ours, theirs)
                   /\ PairedBreakpoints(ours, theirs) = path[Len(ours) + Len(theirs)].points
<1> DEFINE n == Len(ours) + Len(theirs)
           base == WalkStart(ours, theirs)
           steps == Steps(ours, theirs)
           Next_(at, k) == WalkStep(ours, theirs, at, steps[k])
           H == [p \in Walking \X (1..n) |-> Next_(p[1], p[2])]
           Whole == WalkRun(ours, theirs)
<1>1. n \in Nat /\ DOMAIN steps = 1..n /\ \A k \in 1..n : steps[k] = k BY DEF Steps
<1>2. base \in Walking
  <2>1. Zero \in Amount BY Units, OrderLaws DEF Amount
  <2> QED BY <2>1, SizeIsAmount DEF WalkStart, Walking
<1> HIDE DEF n, base, steps
<1>3. \A at \in Walking, k \in 1..n : Next_(at, k) \in Walking BY WalkStays
<1>4. PICK G : Folds(G, Walking, n, base, H)
  <2>1. H \in [Walking \X (1..n) -> Walking] BY <1>3
  <2> HIDE DEF H
  <2> QED BY <1>1, <1>2, <2>1, FoldExists
<1>5. G = [S \in SUBSET (1..n) |-> IF S = {} THEN base ELSE Next_(G[S \ {Max(S)}], Max(S))]
  <2>1. G \in [SUBSET (1..n) -> Walking] BY <1>4 DEF Folds
  <2>2. ASSUME NEW S \in SUBSET (1..n), S # {}
        PROVE  G[S] = Next_(G[S \ {Max(S)}], Max(S))
    <3>1. Max(S) \in 1..n /\ S \ {Max(S)} \in SUBSET (1..n) BY <1>1, <2>2, GreatestIs
    <3>2. <<G[S \ {Max(S)}], Max(S)>> \in Walking \X (1..n) BY <2>1, <3>1
    <3>3. G[S] = H[<<G[S \ {Max(S)}], Max(S)>>] BY <1>4, <2>2 DEF Folds
    <3> QED BY <3>2, <3>3
  <2>3. G[{}] = base BY <1>4 DEF Folds
  <2> HIDE DEF H, Next_
  <2> QED BY <2>1, <2>2, <2>3
<1>6. Whole = [S \in SUBSET (1..n) |-> IF S = {} THEN base ELSE Next_(Whole[S \ {Max(S)}], Max(S))]
  BY <1>1, <1>5 DEF WalkRun, base, steps
<1> HIDE DEF Whole, H, Next_
<1> DEFINE path == [k \in 0..n |-> Whole[1..k]]
           K == {k \in Nat : k <= n => Whole[1..k] \in Walking}
<1>7. path[0] = base /\ 0 \in K
  <2>1. 1..0 = {} /\ 0 \in 0..n /\ {} \in SUBSET (1..n) BY <1>1
  <2>2. Whole[{}] = base BY <1>6, <2>1
  <2> QED BY <1>2, <2>1, <2>2
<1>8. ASSUME NEW l \in 1..n PROVE path[l] = Next_(path[l - 1], l)
  <2>1. l \in 0..n /\ l - 1 \in 0..n BY <1>1
  <2>2. /\ 1..l \in SUBSET (1..n) /\ 1..l # {} /\ Max(1..l) = l
        /\ (1..l) \ {Max(1..l)} = 1..(l - 1)
    BY <1>1, FirstOnes
  <2>3. Whole[1..l] = Next_(Whole[1..(l - 1)], l) BY <1>6, <2>2
  <2> QED BY <2>1, <2>3
<1>9. ASSUME NEW k \in Nat, k \in K PROVE k + 1 \in K
  <2> SUFFICES ASSUME k + 1 <= n PROVE Whole[1..(k + 1)] \in Walking OBVIOUS
  <2>1. k + 1 \in 1..n /\ (k + 1) - 1 = k /\ k \in 0..n /\ k + 1 \in 0..n /\ Whole[1..k] \in Walking
    BY <1>1, <1>9
  <2>2. path[k + 1] = Next_(path[k], k + 1) BY <1>8, <2>1
  <2>3. path[k + 1] = Whole[1..(k + 1)] /\ path[k] = Whole[1..k] BY <2>1
  <2> QED BY <1>3, <2>1, <2>2, <2>3
<1> HIDE DEF K
<1>10. Nat \subseteq K BY <1>7, <1>9, CountUp
<1>11. path \in [0..n -> Walking]
  <2> SUFFICES ASSUME NEW k \in 0..n PROVE Whole[1..k] \in Walking OBVIOUS
  <2>1. k \in K /\ k <= n BY <1>1, <1>10
  <2> QED BY <2>1 DEF K
<1>12. PairedBreakpoints(ours, theirs) = path[n].points
  <2>1. path[n] = Whole[1..n] BY <1>1
  <2> QED BY <1>1, <2>1, PointsAreWalked DEF Whole, steps
<1> HIDE DEF path
<1>13. \A k \in 1..n : path[k] = WalkStep(ours, theirs, path[k - 1], k)
  BY <1>1, <1>8 DEF Next_
<1>14. Walks(path, ours, theirs) BY <1>7, <1>11, <1>13 DEF Walks, n, base
<1> QED BY <1>12, <1>14 DEF n

\* The walk stops at sizes above zero only.
LEMMA PointsArePositive ==
  ASSUME NEW ours \in Seq(Quoted), NEW theirs \in Seq(Quoted)
  PROVE  PairedBreakpoints(ours, theirs) \in Seq(PositiveAmount)
<1> DEFINE n == Len(ours) + Len(theirs)
<1>1. PICK path : Walks(path, ours, theirs) /\ PairedBreakpoints(ours, theirs) = path[n].points
  BY WalkSteps
<1>2. n \in 0..n OBVIOUS
<1>3. path[n] \in Walking BY <1>1, <1>2 DEF Walks
<1> QED BY <1>1, <1>3 DEF Walking

\* The deepest of the points that is worth its price, and whether there is any.
Worth(ours, theirs) ==
  {x \in PositiveAmount : EvaluateCombo(ours, theirs, x).executable}

DeeperStep(ours, theirs, best, shares) ==
  IF EvaluateCombo(ours, theirs, shares).executable THEN shares ELSE best

DepthRun(ours, theirs, points) ==
  CHOOSE path : path = [S \in SUBSET DOMAIN points |->
    IF S = {} THEN Zero
    ELSE DeeperStep(ours, theirs, path[S \ {Max(S)}], points[Max(S)])]

LEMMA DepthIsRun ==
  ASSUME NEW ours, NEW theirs
  PROVE  ProfitableDepth(ours, theirs)
           = DepthRun(ours, theirs, PairedBreakpoints(ours, theirs))
               [DOMAIN PairedBreakpoints(ours, theirs)]
BY DEF ProfitableDepth, FoldLeft, MapThenFoldSet, DepthRun, DeeperStep

\* The depth after each of the points.
Deepens(path, ours, theirs, points) ==
  /\ path \in [0..Len(points) -> {Zero} \cup Worth(ours, theirs)]
  /\ path[0] = Zero
  /\ \A k \in 1..Len(points) : path[k] = DeeperStep(ours, theirs, path[k - 1], points[k])

\* The depth goes up a point at a time: it is zero or one that is worth its price.
LEMMA DepthSteps ==
  ASSUME NEW ours \in Seq(Quoted), NEW theirs \in Seq(Quoted)
  PROVE  LET points == PairedBreakpoints(ours, theirs)
         IN \E path : /\ Deepens(path, ours, theirs, points)
                      /\ ProfitableDepth(ours, theirs) = path[Len(points)]
<1> DEFINE points == PairedBreakpoints(ours, theirs)
           n == Len(points)
           V == {Zero} \cup Worth(ours, theirs)
           Next_(best, k) == DeeperStep(ours, theirs, best, points[k])
           H == [p \in V \X (1..n) |-> Next_(p[1], p[2])]
           Whole == DepthRun(ours, theirs, points)
<1>1. points \in Seq(PositiveAmount) BY PointsArePositive
<1> HIDE DEF points
<1>2. n \in Nat /\ DOMAIN points = 1..n BY <1>1
<1>3. \A best \in V, k \in 1..n : Next_(best, k) \in V
  BY <1>1 DEF DeeperStep, Worth
<1> HIDE DEF n, Next_
<1>4. PICK G : Folds(G, V, n, Zero, H)
  <2>1. H \in [V \X (1..n) -> V] BY <1>3
  <2>2. Zero \in V OBVIOUS
  <2> HIDE DEF H, V
  <2> QED BY <1>2, <2>1, <2>2, FoldExists
<1> HIDE DEF V
<1>5. G = [S \in SUBSET (1..n) |-> IF S = {} THEN Zero ELSE Next_(G[S \ {Max(S)}], Max(S))]
  <2>1. G \in [SUBSET (1..n) -> V] BY <1>4 DEF Folds
  <2>2. ASSUME NEW S \in SUBSET (1..n), S # {}
        PROVE  G[S] = Next_(G[S \ {Max(S)}], Max(S))
    <3>1. Max(S) \in 1..n /\ S \ {Max(S)} \in SUBSET (1..n) BY <1>2, <2>2, GreatestIs
    <3>2. <<G[S \ {Max(S)}], Max(S)>> \in V \X (1..n) BY <2>1, <3>1
    <3>3. G[S] = H[<<G[S \ {Max(S)}], Max(S)>>] BY <1>4, <2>2 DEF Folds
    <3> QED BY <3>2, <3>3
  <2>3. G[{}] = Zero BY <1>4 DEF Folds
  <2> HIDE DEF H, Next_
  <2> QED BY <2>1, <2>2, <2>3
<1>6. Whole = [S \in SUBSET (1..n) |-> IF S = {} THEN Zero ELSE Next_(Whole[S \ {Max(S)}], Max(S))]
  BY <1>2, <1>5 DEF DepthRun, Next_
<1> HIDE DEF Whole, H, Next_
<1> DEFINE path == [k \in 0..n |-> Whole[1..k]]
           K == {k \in Nat : k <= n => Whole[1..k] \in V}
<1>7. path[0] = Zero /\ 0 \in K
  <2>1. 1..0 = {} /\ 0 \in 0..n /\ {} \in SUBSET (1..n) BY <1>2
  <2>2. Zero \in V BY DEF V
  <2>3. Whole[{}] = Zero BY <1>6, <2>1
  <2> QED BY <2>1, <2>2, <2>3
<1>8. ASSUME NEW l \in 1..n PROVE path[l] = Next_(path[l - 1], l)
  <2>1. l \in 0..n /\ l - 1 \in 0..n BY <1>2
  <2>2. /\ 1..l \in SUBSET (1..n) /\ 1..l # {} /\ Max(1..l) = l
        /\ (1..l) \ {Max(1..l)} = 1..(l - 1)
    BY <1>2, FirstOnes
  <2>3. Whole[1..l] = Next_(Whole[1..(l - 1)], l) BY <1>6, <2>2
  <2> QED BY <2>1, <2>3
<1>9. ASSUME NEW k \in Nat, k \in K PROVE k + 1 \in K
  <2> SUFFICES ASSUME k + 1 <= n PROVE Whole[1..(k + 1)] \in V OBVIOUS
  <2>1. k + 1 \in 1..n /\ (k + 1) - 1 = k /\ k \in 0..n /\ k + 1 \in 0..n /\ Whole[1..k] \in V
    BY <1>2, <1>9
  <2>2. path[k + 1] = Next_(path[k], k + 1) BY <1>8, <2>1
  <2>3. path[k + 1] = Whole[1..(k + 1)] /\ path[k] = Whole[1..k] BY <2>1
  <2> QED BY <1>3, <2>1, <2>2, <2>3
<1> HIDE DEF K
<1>10. Nat \subseteq K BY <1>7, <1>9, CountUp
<1>11. path \in [0..n -> V]
  <2> SUFFICES ASSUME NEW k \in 0..n PROVE Whole[1..k] \in V OBVIOUS
  <2>1. k \in K /\ k <= n BY <1>2, <1>10
  <2> QED BY <2>1 DEF K
<1>12. ProfitableDepth(ours, theirs) = path[n]
  <2>1. path[n] = Whole[1..n] BY <1>2
  <2> QED BY <1>2, <2>1, DepthIsRun DEF Whole, points
<1> HIDE DEF path
<1>13. \A k \in 1..n : path[k] = DeeperStep(ours, theirs, path[k - 1], points[k])
  BY <1>8 DEF Next_
<1>14. Deepens(path, ours, theirs, points) BY <1>7, <1>11, <1>13 DEF Deepens, n, V
<1> QED BY <1>12, <1>14 DEF n, points

\* The depth is zero or one of the points, and executable.
LEMMA DepthIsWorth ==
  ASSUME NEW ours \in Seq(Quoted), NEW theirs \in Seq(Quoted)
  PROVE  ProfitableDepth(ours, theirs) \in {Zero} \cup Worth(ours, theirs)
<1> DEFINE points == PairedBreakpoints(ours, theirs)
<1>1. PICK path : /\ Deepens(path, ours, theirs, points)
                  /\ ProfitableDepth(ours, theirs) = path[Len(points)]
  BY DepthSteps
<1>2. Len(points) \in 0..Len(points) BY PointsArePositive
<1> HIDE DEF points
<1> QED BY <1>1, <1>2 DEF Deepens

-----------------------------------------------------------------------------
(* The books are sorted by price                                             *)

\* The order of the sorts, the levels ahead of one, and how many those are.
SortsBefore(levels, i, j) ==
  \/ Less(levels[i][1], levels[j][1])
  \/ levels[i][1] = levels[j][1] /\ i < j

SortsAhead(levels, i) == {j \in DOMAIN levels : SortsBefore(levels, j, i)}

\* It is a strict total order that goes by price.
LEMMA SortOrder ==
  ASSUME NEW levels \in Seq(Quoted), NEW i \in 1..Len(levels), NEW j \in 1..Len(levels)
  PROVE  /\ ~SortsBefore(levels, i, i)
         /\ i # j => SortsBefore(levels, i, j) \/ SortsBefore(levels, j, i)
         /\ SortsBefore(levels, i, j) => AtMost(levels[i][1], levels[j][1])
         /\ \A k \in 1..Len(levels) :
              SortsBefore(levels, k, i) /\ SortsBefore(levels, i, j) => SortsBefore(levels, k, j)
<1>1. \A k \in 1..Len(levels) : levels[k][1] \in Fraction
  <2>1. \A k \in 1..Len(levels) : levels[k] \in Quoted OBVIOUS
  <2> QED BY <2>1 DEF Quoted, PositiveAmount
<1> DEFINE x == levels[i][1]
           y == levels[j][1]
<1>2. x \in Fraction /\ y \in Fraction /\ i \in Int /\ j \in Int BY <1>1
<1>3. ~Less(x, x) BY <1>2, OrderLaws
<1>4. Less(x, y) \/ Less(y, x) \/ x = y BY <1>2, OrderLaws
<1>5. Less(x, y) \/ x = y => AtMost(x, y) BY <1>2, OrderLaws
<1>6. ASSUME NEW k \in 1..Len(levels), SortsBefore(levels, k, i), SortsBefore(levels, i, j)
      PROVE  SortsBefore(levels, k, j)
  <2> DEFINE w == levels[k][1]
  <2>1. w \in Fraction /\ k \in Int BY <1>1
  <2>2. (Less(w, x) \/ (w = x /\ k < i)) /\ (Less(x, y) \/ (x = y /\ i < j))
    BY <1>6 DEF SortsBefore
  <2>3. Less(w, x) /\ Less(x, y) => Less(w, y) BY <1>2, <2>1, OrderLaws, OrderThrough
  <2>4. k < i /\ i < j => k < j BY <1>2, <2>1
  <2> QED BY <2>2, <2>3, <2>4 DEF SortsBefore
<1> QED BY <1>2, <1>3, <1>4, <1>5, <1>6 DEF SortsBefore

LEMMA SortRanks ==
  ASSUME NEW levels \in Seq(Quoted), NEW i \in 1..Len(levels), NEW j \in 1..Len(levels)
  PROVE  /\ Cardinality(SortsAhead(levels, i)) + 1 \in 1..Len(levels)
         /\ SortsBefore(levels, i, j) =>
              Cardinality(SortsAhead(levels, i)) < Cardinality(SortsAhead(levels, j))
<1> DEFINE n == Len(levels)
           A == SortsAhead(levels, i)
           B == SortsAhead(levels, j)
<1>1. n \in Nat /\ DOMAIN levels = 1..n /\ 1 <= n OBVIOUS
<1>2. IsFiniteSet(1..n) /\ Cardinality(1..n) = n
  <2> HIDE DEF n
  <2> QED BY <1>1, FS_Interval
<1>3. A \subseteq 1..n /\ B \subseteq 1..n /\ i \notin A BY <1>1, SortOrder DEF SortsAhead
<1>4. IsFiniteSet(A) /\ IsFiniteSet(B) BY <1>2, <1>3, FS_Subset
<1>5. Cardinality(A) \in Nat /\ Cardinality(B) \in Nat BY <1>4, FS_CardinalityType
<1> HIDE DEF A, B
<1>6. IsFiniteSet(A \cup {i}) /\ Cardinality(A \cup {i}) = Cardinality(A) + 1
  BY <1>3, <1>4, FS_AddElement
<1>7. A \cup {i} \in SUBSET (1..n) BY <1>3
<1>8. Cardinality(A) + 1 <= n
  <2>1. Cardinality(A \cup {i}) <= Cardinality(1..n) BY <1>2, <1>7, FS_Subset
  <2> QED BY <1>2, <1>6, <2>1
<1>9. ASSUME SortsBefore(levels, i, j) PROVE Cardinality(A) < Cardinality(B)
  <2>1. A \cup {i} \in SUBSET B
    <3>1. \A k \in A : k \in 1..n /\ SortsBefore(levels, k, i) BY <1>1 DEF A, SortsAhead
    <3>2. \A k \in A : SortsBefore(levels, k, j) BY <1>9, <3>1, SortOrder
    <3> QED BY <1>1, <1>9, <3>1, <3>2 DEF B, SortsAhead
  <2>2. Cardinality(A \cup {i}) <= Cardinality(B) BY <1>4, <2>1, FS_Subset
  <2> QED BY <1>5, <1>6, <2>2
<1> QED BY <1>1, <1>5, <1>8, <1>9 DEF A, B

\* There is a level for every place.
LEMMA SortRanksCover ==
  ASSUME NEW levels \in Seq(Quoted), NEW k \in 1..Len(levels)
  PROVE  \E i \in DOMAIN levels : Cardinality(SortsAhead(levels, i)) = k - 1
<1> DEFINE n == Len(levels)
           f == [i \in 1..n |-> Cardinality(SortsAhead(levels, i)) + 1]
<1>1. n \in Nat /\ DOMAIN levels = 1..n OBVIOUS
<1>2. IsFiniteSet(1..n) BY <1>1, FS_Interval
<1>3. \A i \in 1..n : Cardinality(SortsAhead(levels, i)) + 1 \in 1..n BY SortRanks
<1>4. \A i, j \in 1..n : SortsBefore(levels, i, j) =>
        Cardinality(SortsAhead(levels, i)) < Cardinality(SortsAhead(levels, j))
  BY SortRanks
<1>5. \A i \in 1..n : Cardinality(SortsAhead(levels, i)) \in Nat
  <2> SUFFICES ASSUME NEW i \in 1..n PROVE Cardinality(SortsAhead(levels, i)) \in Nat OBVIOUS
  <2>1. SortsAhead(levels, i) \in SUBSET (1..n) BY <1>1 DEF SortsAhead
  <2> QED BY <1>2, <2>1, FS_Subset, FS_CardinalityType
<1>6. f \in [1..n -> 1..n] BY <1>3
<1>7. ASSUME NEW i \in 1..n, NEW j \in 1..n, f[i] = f[j] PROVE i = j
  <2>1. Cardinality(SortsAhead(levels, i)) = Cardinality(SortsAhead(levels, j))
    BY <1>5, <1>7
  <2>2. ~SortsBefore(levels, i, j) /\ ~SortsBefore(levels, j, i) BY <1>4, <1>5, <2>1
  <2> QED BY <2>2, SortOrder
<1>8. f \in Injection(1..n, 1..n)
  <2> HIDE DEF f
  <2> QED BY <1>6, <1>7 DEF Injection, IsInjective
<1>9. f \in Surjection(1..n, 1..n) BY <1>2, <1>8, FS_Injection
<1>10. PICK i \in 1..n : f[i] = k
  <2> HIDE DEF f
  <2> QED BY <1>9 DEF Surjection
<1>11. Cardinality(SortsAhead(levels, i)) = k - 1 BY <1>5, <1>10
<1> QED BY <1>1, <1>11

LEMMA SortedAreByPrice ==
  ASSUME NEW asks \in Seq(Quoted)
  PROVE  SortedAsks(asks) \in Seq(Quoted) /\ ByPrice(SortedAsks(asks))
<1> DEFINE n == Len(asks)
           at(k) == CHOOSE i \in DOMAIN asks : Cardinality(SortsAhead(asks, i)) = k - 1
           sorted == SortedAsks(asks)
<1>1. n \in Nat /\ DOMAIN asks = 1..n OBVIOUS
<1> DEFINE placed == [k \in 1..n |-> asks[at(k)]]
<1>0. sorted = << >> \o placed
  BY <1>1 DEF SortedAsks, StablyByPrice, SortsAhead, SortsBefore
<1>3. \A k \in 1..n : at(k) \in 1..n /\ Cardinality(SortsAhead(asks, at(k))) = k - 1
  BY <1>1, SortRanksCover
<1>2. sorted = [k \in 1..n |-> asks[at(k)]]
  <2>1. placed \in Seq(Quoted)
    <3> HIDE DEF at
    <3> QED BY <1>1, <1>3
  <2> HIDE DEF placed, sorted
  <2>2. << >> \o placed = placed BY <2>1
  <2> QED BY <1>0, <2>2 DEF placed
<1> HIDE DEF at, sorted
<1>4. \A k \in 1..n : asks[at(k)] \in Quoted BY <1>3
<1>5. sorted \in Seq(Quoted) /\ Len(sorted) = n BY <1>1, <1>2, <1>4
<1>6. ASSUME NEW k \in 1..n, NEW l \in 1..n, k <= l
      PROVE  AtMost(PriceOf(sorted[k]), PriceOf(sorted[l]))
  <2>1. sorted[k][1] \in Fraction
    <3>1. sorted[k] \in Quoted BY <1>2, <1>4
    <3> QED BY <3>1 DEF Quoted, PositiveAmount
  <2>2. CASE k = l BY <2>1, <2>2, OrderLaws DEF PriceOf
  <2>3. CASE k < l
    <3>1. ~SortsBefore(asks, at(l), at(k))
      <4>1. ~(Cardinality(SortsAhead(asks, at(l))) < Cardinality(SortsAhead(asks, at(k))))
        BY <1>3, <2>3
      <4> QED BY <1>3, <4>1, SortRanks
    <3>2. at(k) # at(l)
      <4>1. k - 1 # l - 1 BY <2>3
      <4> QED BY <1>3, <4>1
    <3>3. SortsBefore(asks, at(k), at(l)) BY <1>3, <3>1, <3>2, SortOrder
    <3>4. AtMost(asks[at(k)][1], asks[at(l)][1]) BY <1>3, <3>3, SortOrder
    <3> QED BY <1>2, <3>4 DEF PriceOf
  <2>4. k = l \/ k < l BY <1>6
  <2> QED BY <2>2, <2>3, <2>4
<1> QED BY <1>5, <1>6 DEF ByPrice, sorted

-----------------------------------------------------------------------------
(* Both programs buy the same of a book                                      *)

\* What f has at the first positions, added up: as a path, and as a fold leaves it.
Sums(path, n, f) ==
  /\ path \in [0..n -> Fraction]
  /\ path[0] = Zero
  /\ \A k \in 1..n : path[k] = Add(path[k - 1], f[k])

SumsUpSets(W, n, f) ==
  W = [S \in SUBSET (1..n) |-> IF S = {} THEN Zero ELSE Add(W[S \ {Max(S)}], f[Max(S)])]

\* Sums exist, and a path of them leads where the fold does.
LEMMA SumExists ==
  ASSUME NEW n \in Nat, NEW f \in [1..n -> Fraction]
  PROVE  \E W : SumsUpSets(W, n, f)
<1> DEFINE H == [p \in Fraction \X (1..n) |-> Add(p[1], f[p[2]])]
<1>1. H \in [Fraction \X (1..n) -> Fraction]
  <2> SUFFICES ASSUME NEW p \in Fraction \X (1..n) PROVE Add(p[1], f[p[2]]) \in Fraction
    OBVIOUS
  <2>1. p[1] \in Fraction /\ f[p[2]] \in Fraction OBVIOUS
  <2> QED BY <2>1, SumLaws
<1>2. PICK G : Folds(G, Fraction, n, Zero, H)
  <2> HIDE DEF H
  <2> QED BY <1>1, Units, FoldExists
<1>3. G \in [SUBSET (1..n) -> Fraction] BY <1>2 DEF Folds
<1>4. ASSUME NEW S \in SUBSET (1..n), S # {}
      PROVE  G[S] = Add(G[S \ {Max(S)}], f[Max(S)])
  <2>1. Max(S) \in 1..n /\ S \ {Max(S)} \in SUBSET (1..n) BY <1>4, GreatestIs
  <2>2. <<G[S \ {Max(S)}], Max(S)>> \in Fraction \X (1..n) BY <1>3, <2>1
  <2>3. G[S] = H[<<G[S \ {Max(S)}], Max(S)>>] BY <1>2, <1>4 DEF Folds
  <2> QED BY <2>2, <2>3
<1>5. G[{}] = Zero BY <1>2 DEF Folds
<1> HIDE DEF H
<1>6. SumsUpSets(G, n, f) BY <1>3, <1>4, <1>5 DEF SumsUpSets
<1> QED BY <1>6

LEMMA SumSteps ==
  ASSUME NEW n \in Nat, NEW f \in [1..n -> Fraction], NEW W, SumsUpSets(W, n, f)
  PROVE  \E path : Sums(path, n, f) /\ path[n] = W[1..n]
<1> DEFINE path == [k \in 0..n |-> W[1..k]]
<1>1. path[0] = Zero
  <2>1. 1..0 = {} /\ 0 \in 0..n /\ {} \in SUBSET (1..n) OBVIOUS
  <2> QED BY <2>1 DEF SumsUpSets
<1>2. ASSUME NEW k \in 1..n PROVE path[k] = Add(path[k - 1], f[k])
  <2>1. /\ 1..k \in SUBSET (1..n) /\ 1..k # {} /\ Max(1..k) = k
        /\ (1..k) \ {Max(1..k)} = 1..(k - 1)
    BY FirstOnes
  <2>2. W[1..k] = Add(W[1..(k - 1)], f[k]) BY <2>1 DEF SumsUpSets
  <2>3. k \in 0..n /\ k - 1 \in 0..n OBVIOUS
  <2> QED BY <2>2, <2>3
<1>3. path[n] = W[1..n] /\ DOMAIN path = 0..n /\ path = [k \in 0..n |-> path[k]] OBVIOUS
<1> HIDE DEF path
<1> DEFINE K == {k \in Nat : k <= n => path[k] \in Fraction}
<1>4. 0 \in K BY <1>1, Units
<1>5. ASSUME NEW k \in Nat, k \in K PROVE k + 1 \in K
  <2> SUFFICES ASSUME k + 1 <= n PROVE path[k + 1] \in Fraction OBVIOUS
  <2>1. k + 1 \in 1..n /\ (k + 1) - 1 = k /\ path[k] \in Fraction BY <1>5
  <2>2. path[k + 1] = Add(path[k], f[k + 1]) BY <1>2, <2>1
  <2>3. f[k + 1] \in Fraction BY <2>1
  <2> QED BY <2>1, <2>2, <2>3, SumLaws
<1> HIDE DEF K
<1>6. Nat \subseteq K BY <1>4, <1>5, CountUp
<1>7. \A k \in 0..n : path[k] \in Fraction
  <2> SUFFICES ASSUME NEW k \in 0..n PROVE path[k] \in Fraction OBVIOUS
  <2>1. k \in K /\ k <= n BY <1>6
  <2> QED BY <2>1 DEF K
<1>8. Sums(path, n, f) BY <1>1, <1>2, <1>3, <1>7 DEF Sums
<1> QED BY <1>3, <1>8

\* What agrees at the first positions has the same sum there.
SameFirst(m, f, g) == \A k \in 1..m : f[k] = g[k]
SameAt(m, p, q) == p[m] = q[m]

LEMMA SumsAgree ==
  ASSUME NEW n \in Nat, NEW m \in Nat, m <= n, NEW f, NEW g, SameFirst(m, f, g),
         NEW p, NEW q, Sums(p, n, f), Sums(q, m, g)
  PROVE  SameAt(m, p, q)
<1> DEFINE K == {k \in Nat : k <= m => p[k] = q[k]}
<1>1. 0 \in K BY DEF Sums
<1>2. ASSUME NEW k \in Nat, k \in K PROVE k + 1 \in K
  <2> SUFFICES ASSUME k + 1 <= m PROVE p[k + 1] = q[k + 1] OBVIOUS
  <2>1. k + 1 \in 1..m /\ k + 1 \in 1..n /\ (k + 1) - 1 = k /\ p[k] = q[k] BY <1>2
  <2> QED BY <2>1 DEF Sums, SameFirst
<1> HIDE DEF K
<1>3. Nat \subseteq K BY <1>1, <1>2, CountUp
<1>4. m \in K BY <1>3
<1> QED BY <1>4 DEF K, SameAt

\* The fold of shares_before, taken apart.
LevelRun(levels) ==
  CHOOSE W : W = [S \in SUBSET DOMAIN levels |->
    IF S = {} THEN Zero ELSE Add(W[S \ {Max(S)}], levels[Max(S)][2])]

LEMMA SharesAreRun ==
  ASSUME NEW asks, NEW i
  PROVE  shares_before(asks, i)
           = LevelRun(SubSeq(asks, 1, i - 1))[DOMAIN SubSeq(asks, 1, i - 1)]
BY DEF shares_before, FoldLeft, MapThenFoldSet, LevelRun

Sizes(asks) == [k \in 1..Len(asks) |-> asks[k][2]]

LEMMA LevelIs ==
  ASSUME NEW asks \in Seq(Quoted), NEW k \in 1..Len(asks)
  PROVE  /\ asks[k][1] \in Fraction /\ Less(Zero, asks[k][1]) /\ Less(asks[k][1], One)
         /\ PriceOf(asks[k]) = asks[k][1] /\ SizeOf(asks[k]) = asks[k][2]
         /\ asks[k][2] \in Amount /\ asks[k][2] \in Fraction /\ AtMost(Zero, asks[k][2])
         /\ Sizes(asks)[k] = asks[k][2]
<1>1. asks[k] \in Quoted OBVIOUS
<1> QED BY <1>1 DEF Quoted, PriceOf, SizeOf, Amount, PositiveAmount, Sizes

LEMMA LevelsAddUp ==
  ASSUME NEW levels \in Seq(Quoted)
  PROVE  \E path : /\ Sums(path, Len(levels), Sizes(levels))
                   /\ path[Len(levels)] = LevelRun(levels)[DOMAIN levels]
<1> DEFINE n == Len(levels)
           f == Sizes(levels)
<1>1. n \in Nat /\ DOMAIN levels = 1..n OBVIOUS
<1>2. f \in [1..n -> Fraction] BY LevelIs DEF Sizes
<1>3. \A k \in 1..n : f[k] = levels[k][2] BY LevelIs
<1> HIDE DEF n, f
<1>4. PICK G : SumsUpSets(G, n, f) BY <1>1, <1>2, SumExists
<1>5. \A S \in SUBSET (1..n) : S # {} => f[Max(S)] = levels[Max(S)][2] BY <1>1, <1>3, GreatestIs
<1>6. G = [S \in SUBSET DOMAIN levels |->
             IF S = {} THEN Zero ELSE Add(G[S \ {Max(S)}], levels[Max(S)][2])]
  BY <1>1, <1>4, <1>5 DEF SumsUpSets
<1> DEFINE W == LevelRun(levels)
<1>7. W = [S \in SUBSET DOMAIN levels |->
             IF S = {} THEN Zero ELSE Add(W[S \ {Max(S)}], levels[Max(S)][2])]
  BY <1>6 DEF LevelRun
<1> HIDE DEF W
<1>8. SumsUpSets(W, n, f) BY <1>1, <1>5, <1>7 DEF SumsUpSets
<1> QED BY <1>1, <1>2, <1>8, SumSteps DEF n, f, W

\* What is on offer before a level, and from one level to the next.
LEMMA SharesBefore ==
  ASSUME NEW asks \in Seq(Quoted)
  PROVE  /\ shares_before(asks, 1) = Zero
         /\ \A k \in 1..Len(asks) :
              /\ shares_before(asks, k + 1) = Add(shares_before(asks, k), asks[k][2])
              /\ shares_before(asks, k) \in Amount /\ shares_before(asks, k + 1) \in Amount
              /\ AtMost(shares_before(asks, k), shares_before(asks, k + 1))
<1> DEFINE n == Len(asks)
           f == Sizes(asks)
<1>1. n \in Nat OBVIOUS
<1>2. PICK T : Sums(T, n, f) BY LevelsAddUp
<1>3. ASSUME NEW m \in 0..n PROVE shares_before(asks, m + 1) = T[m]
  <2> DEFINE levels == SubSeq(asks, 1, m)
             g == Sizes(levels)
  <2>1. levels \in Seq(Quoted) /\ Len(levels) = m /\ DOMAIN levels = 1..m
    OBVIOUS
  <2>2. \A k \in 1..m : levels[k] = asks[k] OBVIOUS
  <2>3. m \in Nat /\ m <= n /\ (m + 1) - 1 = m OBVIOUS
  <2>4. SameFirst(m, f, g) BY <2>1, <2>2 DEF Sizes, SameFirst
  <2> HIDE DEF levels
  <2>5. PICK q : Sums(q, m, g) /\ q[m] = LevelRun(levels)[DOMAIN levels]
    BY <2>1, LevelsAddUp
  <2> HIDE DEF f, n, g
  <2>6. m \in Nat /\ m <= n BY <2>3
  <2>8. Sums(q, m, g) BY <2>5
  <2>9. SameAt(m, T, q) BY <1>1, <1>2, <2>4, <2>6, <2>8, SumsAgree
  <2>7. shares_before(asks, m + 1) = LevelRun(levels)[DOMAIN levels]
    BY <2>3, SharesAreRun DEF levels
  <2> QED BY <2>5, <2>7, <2>9 DEF SameAt
<1>4. \A k \in 1..n : asks[k][2] \in Fraction /\ AtMost(Zero, asks[k][2]) /\ f[k] = asks[k][2]
  BY LevelIs
<1> HIDE DEF n, f
<1>5. T[0] = Zero /\ \A k \in 1..n : T[k] = Add(T[k - 1], asks[k][2])
  BY <1>2, <1>4 DEF Sums
<1>6. shares_before(asks, 1) = Zero BY <1>1, <1>3, <1>5
<1>7. \A k \in 1..n : shares_before(asks, k + 1) = Add(shares_before(asks, k), asks[k][2])
  <2> SUFFICES ASSUME NEW k \in 1..n
               PROVE  shares_before(asks, k + 1) = Add(shares_before(asks, k), asks[k][2])
    OBVIOUS
  <2>1. k \in 0..n /\ k - 1 \in 0..n /\ (k - 1) + 1 = k BY <1>1
  <2>2. shares_before(asks, k) = T[k - 1] BY <1>3, <2>1
  <2> QED BY <1>3, <1>5, <2>1, <2>2
<1> DEFINE K == {k \in Nat : k <= n => shares_before(asks, k + 1) \in Amount}
<1>8. 0 \in K BY <1>6, Units, OrderLaws DEF Amount
<1>9. ASSUME NEW k \in Nat, k \in K PROVE k + 1 \in K
  <2> SUFFICES ASSUME k + 1 <= n PROVE shares_before(asks, (k + 1) + 1) \in Amount OBVIOUS
  <2>1. k + 1 \in 1..n /\ shares_before(asks, k + 1) \in Amount BY <1>1, <1>9
  <2>2. shares_before(asks, (k + 1) + 1) = Add(shares_before(asks, k + 1), asks[k + 1][2])
    BY <1>7, <2>1
  <2> DEFINE b == shares_before(asks, k + 1)
             z == asks[k + 1][2]
  <2>3. b \in Fraction /\ AtMost(Zero, b) /\ z \in Fraction /\ AtMost(Zero, z)
    BY <1>4, <2>1 DEF Amount
  <2> HIDE DEF b, z
  <2>4. Add(b, z) \in Fraction /\ AtMost(b, Add(b, z)) BY <2>3, SumLaws
  <2>5. AtMost(Zero, Add(b, z)) BY <2>3, <2>4, Units, OrderThrough
  <2> QED BY <2>2, <2>4, <2>5 DEF Amount, b, z
<1> HIDE DEF K
<1>10. Nat \subseteq K BY <1>8, <1>9, CountUp
<1>11. ASSUME NEW k \in 1..n
       PROVE  /\ shares_before(asks, k) \in Amount /\ shares_before(asks, k + 1) \in Amount
              /\ AtMost(shares_before(asks, k), shares_before(asks, k + 1))
  <2>1. k \in K /\ k - 1 \in K /\ k <= n /\ k - 1 <= n /\ (k - 1) + 1 = k BY <1>1, <1>10
  <2>2. shares_before(asks, k) \in Amount /\ shares_before(asks, k + 1) \in Amount
    BY <2>1 DEF K
  <2>3. shares_before(asks, k) \in Fraction /\ asks[k][2] \in Fraction /\ AtMost(Zero, asks[k][2])
    BY <1>4, <2>2 DEF Amount
  <2>4. AtMost(shares_before(asks, k), Add(shares_before(asks, k), asks[k][2]))
    BY <2>3, SumLaws
  <2> QED BY <1>7, <2>2, <2>4
<1> QED BY <1>6, <1>7, <1>11 DEF n

\* Sums, differences and comparisons over one denominator are those of the numerators.
Lesser(n, m) == IF m < n THEN m ELSE n

LEMMA SumOver ==
  ASSUME NEW d \in Positive, NEW n \in Int, NEW m \in Int, NEW r \in Int,
         NEW x, NEW y, IsOver(d, x, n), IsOver(d, y, m), r = n + m
  PROVE  IsOver(d, Add(x, y), r)
BY SameDenominator DEF IsOver

LEMMA RestOver ==
  ASSUME NEW d \in Positive, NEW n \in Int, NEW m \in Int, NEW r \in Int,
         NEW x, NEW y, IsOver(d, x, n), IsOver(d, y, m), r = n - m
  PROVE  IsOver(d, Sub(x, y), r)
BY SameDenominator DEF IsOver

LEMMA OrderOver ==
  ASSUME NEW d \in Positive, NEW n \in Int, NEW m \in Int,
         NEW x, NEW y, IsOver(d, x, n), IsOver(d, y, m)
  PROVE  Less(x, y) <=> n < m
BY SameDenominator DEF IsOver

LEMMA SmallerOver ==
  ASSUME NEW d \in Positive, NEW n \in Int, NEW m \in Int, NEW r \in Int,
         NEW x, NEW y, IsOver(d, x, n), IsOver(d, y, m), r = Lesser(n, m)
  PROVE  IsOver(d, Smaller(x, y), r)
<1>1. Less(y, x) <=> m < n BY OrderOver
<1> QED BY <1>1 DEF IsOver, Smaller, Lesser

\* What an order of s takes of a level of size z that b shares come before.
LEMMA NextTake ==
  ASSUME NEW s \in Amount, NEW b \in Amount, NEW z \in Amount,
         NEW done, done = Smaller(s, b), NEW left, left = Sub(s, done),
         NEW take, take = Smaller(left, z),
         NEW theirs, theirs = IF Less(Sub(s, b), Zero) THEN Zero ELSE Smaller(Sub(s, b), z)
  PROVE  /\ take = theirs
         /\ Add(done, take) = Smaller(s, Add(b, z))
         /\ Sub(left, take) = Sub(s, Add(done, take))
<1>1. s \in Fraction /\ b \in Fraction /\ z \in Fraction BY DEF Amount
<1>2. PICK d \in Positive, n \in Int, k \in Int, j \in Int :
        IsOver(d, s, n) /\ IsOver(d, b, k) /\ IsOver(d, z, j)
  BY <1>1, CommonThree
<1>3. IsOver(d, Zero, 0) BY Units DEF IsOver
<1>4. 0 <= n /\ 0 <= k /\ 0 <= j
  <2>1. ~Less(s, Zero) /\ ~Less(b, Zero) /\ ~Less(z, Zero) BY DEF Amount, AtMost
  <2>2. Less(s, Zero) <=> n < 0 BY <1>2, <1>3, OrderOver
  <2>3. Less(b, Zero) <=> k < 0 BY <1>2, <1>3, OrderOver
  <2>4. Less(z, Zero) <=> j < 0 BY <1>2, <1>3, OrderOver
  <2> QED BY <2>1, <2>2, <2>3, <2>4
<1> DEFINE e == Lesser(n, k)
           l == n - e
           t == Lesser(l, j)
           over == n - k
           u == Lesser(over, j)
           end == k + j
           most == Lesser(n, end)
           sum == e + t
           rest == l - t
<1>5. /\ e \in Int /\ l \in Int /\ t \in Int /\ over \in Int /\ u \in Int
      /\ end \in Int /\ most \in Int /\ sum \in Int /\ rest \in Int
  BY DEF Lesser
<1>6. /\ over < 0 => t = 0
      /\ ~(over < 0) => t = u
      /\ sum = most
      /\ rest = n - sum
  BY <1>4 DEF Lesser
<1>7. IsOver(d, done, e) BY <1>2, <1>5, SmallerOver
<1>8. l = n - e /\ t = Lesser(l, j) /\ over = n - k /\ u = Lesser(over, j)
      /\ end = k + j /\ most = Lesser(n, end) /\ sum = e + t /\ rest = l - t
  OBVIOUS
<1> HIDE DEF e, l, t, over, u, end, most, sum, rest
<1>9. IsOver(d, left, l) BY <1>2, <1>5, <1>7, <1>8, RestOver
<1>10. IsOver(d, take, t) BY <1>2, <1>5, <1>8, <1>9, SmallerOver
<1>11. IsOver(d, Sub(s, b), over) BY <1>2, <1>5, <1>8, RestOver
<1>12. Less(Sub(s, b), Zero) <=> over < 0 BY <1>3, <1>5, <1>11, OrderOver
<1>13. IsOver(d, Smaller(Sub(s, b), z), u) BY <1>2, <1>5, <1>8, <1>11, SmallerOver
<1>14. IsOver(d, Add(done, take), sum) BY <1>5, <1>7, <1>8, <1>10, SumOver
<1>15. IsOver(d, Sub(left, take), rest) BY <1>5, <1>8, <1>9, <1>10, RestOver
<1>16. IsOver(d, Sub(s, Add(done, take)), rest) BY <1>2, <1>5, <1>6, <1>14, RestOver
<1>17. IsOver(d, Add(b, z), end) BY <1>2, <1>5, <1>8, SumOver
<1>18. IsOver(d, Smaller(s, Add(b, z)), most) BY <1>2, <1>5, <1>8, <1>17, SmallerOver
<1>19. take = theirs
  <2>1. CASE over < 0
    <3>1. theirs = Zero /\ IsOver(d, take, 0) BY <2>1, <1>6, <1>10, <1>12
    <3> QED BY <3>1, <1>3 DEF IsOver
  <2>2. CASE ~(over < 0)
    <3>1. theirs = Smaller(Sub(s, b), z) /\ IsOver(d, take, u) BY <2>2, <1>6, <1>10, <1>12
    <3> QED BY <3>1, <1>13 DEF IsOver
  <2> QED BY <2>1, <2>2
<1>20. Add(done, take) = Smaller(s, Add(b, z)) BY <1>6, <1>14, <1>18 DEF IsOver
<1>21. Sub(left, take) = Sub(s, Add(done, take)) BY <1>15, <1>16 DEF IsOver
<1> QED BY <1>19, <1>20, <1>21

\* The fold of gross_cost, taken apart.
Positions(asks) == [i \in DOMAIN asks |-> i]

GrossRun(asks, shares) ==
  CHOOSE W : W = [S \in SUBSET DOMAIN Positions(asks) |->
    IF S = {} THEN Zero
    ELSE Add(W[S \ {Max(S)}],
             Mul(asks[Positions(asks)[Max(S)]][1],
                 taken(asks, Positions(asks)[Max(S)], shares)))]

LEMMA GrossIsRun ==
  ASSUME NEW asks, NEW shares
  PROVE  gross_cost(asks, shares) = GrossRun(asks, shares)[DOMAIN Positions(asks)]
BY DEF gross_cost, FoldLeft, MapThenFoldSet, GrossRun, Positions

\* What the levels of a book cost an order.
Charges(asks, shares) ==
  [i \in 1..Len(asks) |-> Mul(asks[i][1], taken(asks, i, shares))]

LEMMA TakenIsFraction ==
  ASSUME NEW asks \in Seq(Quoted), NEW shares \in Amount, NEW i \in 1..Len(asks)
  PROVE  taken(asks, i, shares) \in Fraction
<1>1. shares_before(asks, i) \in Fraction /\ shares \in Fraction
  BY SharesBefore DEF Amount
<1>2. Sub(shares, shares_before(asks, i)) \in Fraction BY <1>1, SumLaws
<1> QED BY <1>2, LevelIs, Units DEF taken, Smaller

LEMMA GrossAddsUp ==
  ASSUME NEW asks \in Seq(Quoted), NEW shares \in Amount
  PROVE  \E path : /\ Sums(path, Len(asks), Charges(asks, shares))
                   /\ path[Len(asks)] = gross_cost(asks, shares)
<1> DEFINE n == Len(asks)
           f == Charges(asks, shares)
           Charge(i) == Mul(asks[i][1], taken(asks, i, shares))
<1>1. n \in Nat /\ DOMAIN Positions(asks) = 1..n BY DEF Positions
<1>2. f \in [1..n -> Fraction]
  <2>1. \A i \in 1..n : Charge(i) \in Fraction BY LevelIs, TakenIsFraction, ProductLaws
  <2> QED BY <2>1 DEF Charges
<1>3. \A i \in 1..n : f[i] = Charge(i) BY DEF Charges
<1>4. \A i \in 1..n : Positions(asks)[i] = i BY DEF Positions
<1> HIDE DEF n, f, Charge
<1>5. PICK G : SumsUpSets(G, n, f) BY <1>1, <1>2, SumExists
<1>6. \A S \in SUBSET (1..n) : S # {} => f[Max(S)] = Charge(Positions(asks)[Max(S)])
  BY <1>1, <1>3, <1>4, GreatestIs
<1>7. G = [S \in SUBSET DOMAIN Positions(asks) |->
             IF S = {} THEN Zero
             ELSE Add(G[S \ {Max(S)}], Charge(Positions(asks)[Max(S)]))]
  BY <1>1, <1>5, <1>6 DEF SumsUpSets
<1> DEFINE W == GrossRun(asks, shares)
<1>8. W = [S \in SUBSET DOMAIN Positions(asks) |->
             IF S = {} THEN Zero
             ELSE Add(W[S \ {Max(S)}], Charge(Positions(asks)[Max(S)]))]
  BY <1>7 DEF GrossRun, Charge
<1> HIDE DEF W
<1>9. SumsUpSets(W, n, f) BY <1>1, <1>6, <1>8 DEF SumsUpSets
<1>10. gross_cost(asks, shares) = W[1..n] BY <1>1, GrossIsRun DEF W
<1>11. PICK path : Sums(path, n, f) /\ path[n] = W[1..n] BY <1>1, <1>2, <1>9, SumSteps
<1> QED BY <1>10, <1>11 DEF n, f

\* Level by level, the purchase of one program is what the other adds up.
LEMMA SameFill ==
  ASSUME NEW asks \in Seq(Quoted), NEW shares \in Amount
  PROVE  /\ EstimateBuy(asks, shares).filled = filled_shares(asks, shares)
         /\ EstimateBuy(asks, shares).gross = gross_cost(asks, shares)
<1> DEFINE n == Len(asks)
           B(k) == shares_before(asks, k)
           f == Charges(asks, shares)
<1>1. n \in Nat /\ shares \in Fraction /\ AtMost(Zero, shares) BY DEF Amount
<1>2. PICK path : Buys(path, asks, shares) /\ EstimateBuy(asks, shares) = path[n]
  BY <1>1, EstimateSteps
<1>3. PICK costs : Sums(costs, n, f) /\ costs[n] = gross_cost(asks, shares)
  BY GrossAddsUp
<1> DEFINE Alike(k) == /\ path[k].filled = Smaller(shares, B(k + 1))
                       /\ path[k].left = Sub(shares, path[k].filled)
                       /\ path[k].gross = costs[k]
           K == {k \in Nat : k <= n => Alike(k)}
<1>4. 0 \in K
  <2>1. path[0] = NoFill(shares) /\ costs[0] = Zero BY <1>2, <1>3 DEF Buys, Sums
  <2>2. B(0 + 1) = Zero BY SharesBefore
  <2>3. Smaller(shares, Zero) = Zero BY <1>1, Units, OrderLaws DEF Smaller, AtMost
  <2>4. Sub(shares, Zero) = shares BY <1>1, Units, SumLaws
  <2> HIDE DEF B
  <2> QED BY <2>1, <2>2, <2>3, <2>4 DEF NoFill
<1>5. ASSUME NEW k \in Nat, k \in K PROVE k + 1 \in K
  <2> SUFFICES ASSUME k + 1 <= n PROVE Alike(k + 1) OBVIOUS
  <2> DEFINE l == k + 1
             z == asks[l][2]
             p == asks[l][1]
             take == Smaller(path[k].left, z)
             theirs == taken(asks, l, shares)
  <2>1. l \in 1..n /\ l - 1 = k /\ k \in 0..n /\ l \in 0..n /\ Alike(k) BY <1>5, <1>1
  <2>2. path[l] = BuyStep(asks, path[k], l) BY <1>2, <2>1 DEF Buys
  <2>3. costs[l] = Add(costs[k], Mul(p, theirs))
    BY <1>3, <2>1 DEF Sums, Charges
  <2>4. /\ z \in Amount /\ p \in Fraction /\ PriceOf(asks[l]) = p /\ SizeOf(asks[l]) = z
        /\ B(l) \in Amount /\ B(l + 1) = Add(B(l), z)
    BY <2>1, LevelIs, SharesBefore
  <2>5. theirs = IF Less(Sub(shares, B(l)), Zero) THEN Zero
                 ELSE Smaller(Sub(shares, B(l)), z)
    BY DEF taken
  <2>6. theirs \in Fraction BY <2>1, TakenIsFraction
  <2>7. path[k].filled = Smaller(shares, B(l)) /\ path[k].left = Sub(shares, path[k].filled)
    BY <2>1
  <2> HIDE DEF B, z, p, theirs, take
  <2>8. /\ take = theirs
        /\ Add(path[k].filled, take) = Smaller(shares, Add(B(l), z))
        /\ Sub(path[k].left, take) = Sub(shares, Add(path[k].filled, take))
    BY <2>4, <2>5, <2>7, NextTake DEF take
  <2>9. /\ path[l].filled = Add(path[k].filled, take)
        /\ path[l].left = Sub(path[k].left, take)
        /\ path[l].gross = Add(path[k].gross, Mul(take, p))
    BY <2>2, <2>4 DEF BuyStep, take
  <2>10. Mul(take, p) = Mul(p, theirs) BY <2>4, <2>6, <2>8, ProductLaws
  <2> HIDE DEF l
  <2>11. Alike(l) BY <2>1, <2>3, <2>4, <2>8, <2>9, <2>10
  <2> QED BY <2>11 DEF l
<1> HIDE DEF K
<1>6. Nat \subseteq K BY <1>4, <1>5, CountUp
<1>7. n \in K /\ n <= n BY <1>1, <1>6
<1>8. Alike(n) BY <1>7 DEF K
<1> QED BY <1>2, <1>3, <1>8 DEF filled_shares

-----------------------------------------------------------------------------
(* Both programs quote the same                                              *)

\* What one program and the other quote for a leg, and for the pair of legs.
SameLeg(mine, other) ==
  /\ mine.gross = other.gross_cost
  /\ mine.total = total_cost(other)
  /\ mine.price = effective_price(other)
  /\ mine.complete = other.complete
  /\ mine.total \in Fraction

LEMMA LegsAgree ==
  ASSUME NEW asks \in Seq(Quoted), NEW shares \in Amount, NEW fee \in Rate,
         NEW slippage \in Amount
  PROVE  SameLeg(LegQuote(asks, shares, fee, slippage), leg_quote(asks, shares, fee, slippage))
<1> DEFINE fill == EstimateBuy(asks, shares)
           filled == filled_shares(asks, shares)
           gross == gross_cost(asks, shares)
           price == IF filled = Zero THEN Zero ELSE Div(gross, filled)
           charge == binary_market_taker_fee(filled, price, fee)
           slip == Mul(gross, slippage)
           wait == Mul(gross, LatencyBuffer)
           total == Add(Add(gross, charge), Add(slip, wait))
           mine == LegQuote(asks, shares, fee, slippage)
           other == leg_quote(asks, shares, fee, slippage)
<1>1. fill.filled = filled /\ fill.gross = gross BY SameFill
<1>2. filled \in Amount /\ gross \in Amount BY <1>1, EstimateIsPaidFor DEF PaidFor
<1>3. /\ filled \in Fraction /\ gross \in Fraction /\ fee \in Fraction
      /\ slippage \in Fraction /\ LatencyBuffer \in Fraction
  BY <1>2, RiskAssumption DEF Amount, Rate, RiskAssumption
<1> HIDE DEF fill, filled, gross
<1>4. price \in Fraction
  <2>1. CASE filled = Zero BY <2>1, Units
  <2>2. CASE filled # Zero
    <3>1. Less(Zero, filled) BY <1>2, <1>3, <2>2, Units, OrderLaws DEF Amount
    <3> QED BY <1>3, <2>2, <3>1, ProductLaws
  <2> QED BY <2>1, <2>2
<1> HIDE DEF price
<1>5. charge \in Fraction
  <2>1. Sub(One, price) \in Fraction BY <1>4, Units, SumLaws
  <2>2. Smaller(price, Sub(One, price)) \in Fraction BY <1>4, <2>1 DEF Smaller
  <2>3. Mul(filled, Smaller(price, Sub(One, price))) \in Fraction BY <1>3, <2>2, ProductLaws
  <2> QED BY <1>3, <2>3, ProductLaws DEF binary_market_taker_fee
<1> HIDE DEF charge
<1>6. /\ slip \in Fraction /\ wait \in Fraction
      /\ Mul(gross, Add(slippage, LatencyBuffer)) = Add(slip, wait)
  BY <1>3, ProductLaws, Distributes
<1> HIDE DEF slip, wait
<1>7. total \in Fraction
  <2>1. Add(gross, charge) \in Fraction /\ Add(slip, wait) \in Fraction
    BY <1>3, <1>5, <1>6, SumLaws
  <2> QED BY <2>1, SumLaws
<1>8. TotalCost(fill, fee, slippage) = total
  <2>1. AveragePrice(fill) = price BY <1>1 DEF AveragePrice, price
  <2>2. BinaryTakerFee(filled, price, fee) = charge
    BY DEF BinaryTakerFee, binary_market_taker_fee, charge
  <2> QED BY <1>1, <1>6, <2>1, <2>2 DEF TotalCost
<1>9. /\ mine.gross = fill.gross /\ mine.total = TotalCost(fill, fee, slippage)
      /\ mine.complete = (fill.filled = shares)
      /\ mine.price = IF fill.filled = Zero THEN Zero
                     ELSE Div(TotalCost(fill, fee, slippage), fill.filled)
  BY DEF LegQuote, fill
<1>10. other = [filled |-> filled, gross_cost |-> gross, fee |-> charge, slippage |-> slip,
                latency |-> wait, complete |-> filled = shares]
  BY DEF leg_quote, reserve_bps, filled, gross, price, charge, slip, wait
<1> HIDE DEF mine, other, total
<1>11. total_cost(other) = total BY <1>10 DEF total_cost, total
<1>12. effective_price(other) = IF filled = Zero THEN Zero ELSE Div(total, filled)
  BY <1>10, <1>11 DEF effective_price
<1>13. SameLeg(mine, other) BY <1>1, <1>7, <1>8, <1>9, <1>10, <1>11, <1>12 DEF SameLeg
<1> QED BY <1>13 DEF mine, other

\* What was added is taken off again.
LEMMA TakenBack ==
  ASSUME NEW x \in Fraction, NEW y \in Fraction
  PROVE  Sub(Add(x, y), y) = x /\ Mul(x, One) = x
<1>1. PICK d \in Positive, n \in Int, m \in Int : x = Frac(n, d) /\ y = Frac(m, d)
  BY CommonTwo
<1> DEFINE r == n + m
<1>2. r \in Int /\ n = r - m OBVIOUS
<1>3. Add(x, y) = Frac(r, d) BY <1>1, SameDenominator
<1> HIDE DEF r
<1>4. Sub(Add(x, y), y) = x BY <1>1, <1>2, <1>3, SameDenominator
<1>5. Mul(x, One) = Frac(x[1], x[2])
  <2>1. x[1] \in Int /\ x[2] \in Int BY FractionType DEF Positive
  <2>2. One[1] = 1 /\ One[2] = 1 BY DEF One
  <2>3. x[1] * 1 = x[1] /\ x[2] * 1 = x[2] BY <2>1
  <2> QED BY <2>2, <2>3 DEF Mul
<1> QED BY <1>4, <1>5, FractionType

\* What is left of the dollar a share is what is left of all the shares.
LEMMA ProfitsAgree ==
  ASSUME NEW s \in PositiveAmount, NEW v \in Fraction
  PROVE  /\ Div(v, s) \in Fraction
         /\ Mul(s, Sub(One, Div(v, s))) = Sub(s, v)
<1>1. s \in Fraction /\ Less(Zero, s) BY DEF PositiveAmount
<1> DEFINE c == Div(v, s)
           r == Sub(One, c)
           x == Mul(s, r)
<1>2. c \in Fraction /\ Mul(c, s) = v BY <1>1, ProductLaws
<1> HIDE DEF c
<1>3. r \in Fraction /\ Add(r, c) = One BY <1>2, Units, SumLaws
<1> HIDE DEF r
<1>4. x \in Fraction /\ Mul(s, c) = v BY <1>1, <1>2, <1>3, ProductLaws
<1>5. Add(x, v) = s
  <2>1. Mul(s, Add(r, c)) = Add(x, Mul(s, c)) BY <1>1, <1>2, <1>3, Distributes
  <2>2. Mul(s, One) = s BY <1>1, TakenBack
  <2> QED BY <1>3, <1>4, <2>1, <2>2
<1> HIDE DEF x
<1>6. Sub(Add(x, v), v) = x BY <1>4, TakenBack
<1> QED BY <1>2, <1>5, <1>6 DEF c, r, x

\* One program\'s quote says what the other\'s does.
SameQuote(quote, other) ==
  /\ SameLeg(quote.predict, other.predict_leg)
  /\ SameLeg(quote.polymarket, other.polymarket_leg)
  /\ quote.shares = other.shares
  /\ quote.netCost = other.net_cost_per_share
  /\ quote.profit = other.net_profit
  /\ quote.executable = other.executable
  /\ quote.profit \in Fraction

\* ArbEngine.evaluateCombo (engine.ts:81-127) and evaluate_buy_complement (risk.py:173-242)
\* quote any number of shares of any two books alike: the cost of both legs with fees and
\* reserves, the cost a share, the profit, which the one takes of what a share leaves and the
\* other of what all of them do, and whether the trade may be made.
THEOREM QuotesAgree ==
  ASSUME NEW ours \in Seq(Quoted), NEW theirs \in Seq(Quoted), NEW shares \in PositiveAmount
  PROVE  SameQuote(EvaluateCombo(ours, theirs, shares),
                   evaluate_buy_complement(ours, theirs, shares))
<1> DEFINE mine == LegQuote(ours, shares, PredictFee, PredictSlippage)
           other == leg_quote(ours, shares, PredictFee, PredictSlippage)
           hedge == LegQuote(theirs, shares, PolymarketFee, PolymarketSlippage)
           otherHedge == leg_quote(theirs, shares, PolymarketFee, PolymarketSlippage)
           variable == Add(Add(mine.total, hedge.total), Mul(PerShareCost, shares))
           netCost == Div(variable, shares)
           quote == EvaluateCombo(ours, theirs, shares)
           otherQuote == evaluate_buy_complement(ours, theirs, shares)
<1>1. shares \in Amount /\ shares \in Fraction
  BY Units, OrderLaws DEF PositiveAmount, Amount
<1>2. /\ PredictFee \in Rate /\ PolymarketFee \in Rate /\ PredictSlippage \in Amount
      /\ PolymarketSlippage \in Amount /\ PerShareCost \in Fraction
      /\ FixedCosts \in Fraction
  BY RiskAssumption DEF RiskAssumption, Rate, Amount
<1>3. SameLeg(mine, other) /\ SameLeg(hedge, otherHedge) BY <1>1, <1>2, LegsAgree
<1> HIDE DEF mine, other, hedge, otherHedge
<1>4. variable \in Fraction
  <2>1. mine.total \in Fraction /\ hedge.total \in Fraction BY <1>3 DEF SameLeg
  <2>2. Add(mine.total, hedge.total) \in Fraction /\ Mul(PerShareCost, shares) \in Fraction
    BY <1>1, <1>2, <2>1, SumLaws, ProductLaws
  <2> QED BY <2>2, SumLaws
<1>5. variable = Add(Add(total_cost(other), total_cost(otherHedge)), Mul(PerShareCost, shares))
  BY <1>3 DEF SameLeg
<1>6. quote = [shares |-> shares, predict |-> mine, polymarket |-> hedge,
               netCost |-> netCost,
               profit |-> Sub(Mul(shares, Sub(One, netCost)), FixedCosts),
               executable |-> /\ mine.complete /\ hedge.complete
                              /\ AtMost(MinPredictOrder, mine.gross)
                              /\ Less(netCost, One)
                              /\ Less(MinNetProfit, Sub(Mul(shares, Sub(One, netCost)), FixedCosts))]
  BY DEF EvaluateCombo, mine, hedge
<1>7. otherQuote
        = LET v == Add(Add(total_cost(other), total_cost(otherHedge)), Mul(PerShareCost, shares))
          IN [shares |-> shares, predict_leg |-> other, polymarket_leg |-> otherHedge,
              net_cost_per_share |-> Div(v, shares),
              net_profit |-> Sub(Sub(shares, v), FixedCosts),
              executable |-> /\ other.complete /\ otherHedge.complete
                             /\ ~Less(other.gross_cost, MinPredictOrder)
                             /\ Less(Div(v, shares), One)
                             /\ Less(MinNetProfit, Sub(Sub(shares, v), FixedCosts))]
  BY DEF evaluate_buy_complement, other, otherHedge
<1> HIDE DEF variable, quote, otherQuote
<1>8. Mul(shares, Sub(One, netCost)) = Sub(shares, variable) BY <1>4, ProfitsAgree
<1> HIDE DEF netCost
<1>9. otherQuote
        = [shares |-> shares, predict_leg |-> other, polymarket_leg |-> otherHedge,
           net_cost_per_share |-> netCost,
           net_profit |-> Sub(Sub(shares, variable), FixedCosts),
           executable |-> /\ other.complete /\ otherHedge.complete
                          /\ ~Less(other.gross_cost, MinPredictOrder)
                          /\ Less(netCost, One)
                          /\ Less(MinNetProfit, Sub(Sub(shares, variable), FixedCosts))]
  BY <1>5, <1>7 DEF netCost
<1>10. /\ mine.complete = other.complete /\ hedge.complete = otherHedge.complete
       /\ AtMost(MinPredictOrder, mine.gross) = ~Less(other.gross_cost, MinPredictOrder)
  BY <1>3 DEF SameLeg, AtMost
<1>11. quote.executable = otherQuote.executable BY <1>6, <1>8, <1>9, <1>10
<1>12. quote.profit \in Fraction
  <2>1. Sub(shares, variable) \in Fraction BY <1>1, <1>4, SumLaws
  <2>2. Sub(Sub(shares, variable), FixedCosts) \in Fraction BY <1>2, <2>1, SumLaws
  <2> QED BY <1>6, <1>8, <2>2
<1>13. SameQuote(quote, otherQuote) BY <1>3, <1>6, <1>8, <1>9, <1>11, <1>12 DEF SameQuote
<1> QED BY <1>13 DEF quote, otherQuote

-----------------------------------------------------------------------------
(* Both programs find the same depth of two books                            *)

\* Where a level of a book is used up, and how far a walk has come in it: at the i-th
\* level, of which rest is left, after sum shares.
Ends(asks) == {shares_before(asks, i) : i \in 2..(Len(asks) + 1)}

Reached(asks, i, rest, sum) ==
  /\ i \in 1..(Len(asks) + 1)
  /\ AtMost(shares_before(asks, i), sum)
  /\ i <= Len(asks) => Add(sum, rest) = shares_before(asks, i + 1)
  /\ i > Len(asks) => sum = shares_before(asks, i)

LEMMA EndIsAmount ==
  ASSUME NEW asks \in Seq(Quoted), NEW i \in 1..(Len(asks) + 1)
  PROVE  shares_before(asks, i) \in Amount /\ shares_before(asks, i) \in Fraction
<1>1. Zero \in Amount BY Units, OrderLaws DEF Amount
<1>2. i = 1 \/ (i - 1 \in 1..Len(asks) /\ (i - 1) + 1 = i) OBVIOUS
<1>3. shares_before(asks, i) \in Amount BY <1>1, <1>2, SharesBefore
<1> QED BY <1>3 DEF Amount

\* No level ends before one ahead of it does.
LEMMA EndsRise ==
  ASSUME NEW asks \in Seq(Quoted),
         NEW i \in 1..(Len(asks) + 1), NEW j \in 1..(Len(asks) + 1), i <= j
  PROVE  AtMost(shares_before(asks, i), shares_before(asks, j))
<1> DEFINE B(k) == shares_before(asks, k)
           n == Len(asks)
           K == {k \in Nat : i + k <= n + 1 => AtMost(B(i), B(i + k))}
<1>0. n \in Nat OBVIOUS
<1>1. 0 \in K
  <2>1. i + 0 = i BY <1>0
  <2>2. AtMost(B(i), B(i)) BY EndIsAmount, OrderLaws
  <2> QED BY <2>1, <2>2
<1>2. ASSUME NEW k \in Nat, k \in K PROVE k + 1 \in K
  <2> SUFFICES ASSUME i + (k + 1) <= n + 1 PROVE AtMost(B(i), B(i + (k + 1))) OBVIOUS
  <2> DEFINE l == i + k
  <2>1. l \in 1..n /\ l \in 1..(n + 1) /\ l + 1 \in 1..(n + 1) /\ i + (k + 1) = l + 1
    BY <1>0
  <2>2. AtMost(B(i), B(l)) BY <1>2, <2>1
  <2> HIDE DEF l
  <2>3. AtMost(B(l), B(l + 1)) BY <2>1, SharesBefore
  <2>4. B(i) \in Fraction /\ B(l) \in Fraction /\ B(l + 1) \in Fraction BY <2>1, EndIsAmount
  <2> HIDE DEF B
  <2> QED BY <2>1, <2>2, <2>3, <2>4, OrderThrough
<1> HIDE DEF K
<1>3. Nat \subseteq K BY <1>1, <1>2, CountUp
<1>4. j - i \in K /\ i + (j - i) = j /\ j <= n + 1 BY <1>0, <1>3
<1> QED BY <1>4 DEF K

\* What one part gains the other loses.
LEMMA PartsTaken ==
  ASSUME NEW x \in Fraction, NEW y \in Fraction, NEW z \in Fraction
  PROVE  Add(Add(x, z), Sub(y, z)) = Add(x, y)
<1>1. PICK d \in Positive, n \in Int, m \in Int, k \in Int :
        IsOver(d, x, n) /\ IsOver(d, y, m) /\ IsOver(d, z, k)
  BY CommonThree
<1> DEFINE a == n + k
           b == m - k
           c == n + m
<1>2. a \in Int /\ b \in Int /\ c \in Int /\ c = a + b OBVIOUS
<1>3. a = n + k /\ b = m - k /\ c = n + m OBVIOUS
<1> HIDE DEF a, b, c
<1>4. IsOver(d, Add(x, z), a) BY <1>1, <1>2, <1>3, SumOver
<1>5. IsOver(d, Sub(y, z), b) BY <1>1, <1>2, <1>3, RestOver
<1>6. IsOver(d, Add(x, y), c) BY <1>1, <1>2, <1>3, SumOver
<1>7. IsOver(d, Add(Add(x, z), Sub(y, z)), c) BY <1>2, <1>4, <1>5, SumOver
<1> QED BY <1>6, <1>7 DEF IsOver

\* One step of a walk, for one of the books: it takes no more than the rest of a level.
LEMMA ReachOn ==
  ASSUME NEW asks \in Seq(Quoted), NEW i \in 1..Len(asks), NEW rest \in Amount,
         NEW sum \in Amount, NEW take \in Amount, AtMost(take, rest),
         Reached(asks, i, rest, sum), NEW next, next = Add(sum, take)
  PROVE  /\ take = rest => /\ Reached(asks, i + 1, SizeAt(asks, i + 1), next)
                           /\ next \in Ends(asks)
         /\ take # rest => Reached(asks, i, Sub(rest, take), next)
         /\ \A e \in Ends(asks) : Less(sum, e) /\ AtMost(e, next) => e = next
<1> DEFINE n == Len(asks)
           B(k) == shares_before(asks, k)
<1>0. n \in Nat OBVIOUS
<1>1. /\ rest \in Fraction /\ sum \in Fraction /\ take \in Fraction /\ AtMost(Zero, take)
  BY DEF Amount
<1>2. next \in Fraction /\ AtMost(sum, next) BY <1>1, SumLaws
<1>3. i \in 1..(n + 1) /\ i + 1 \in 1..(n + 1) /\ i <= n BY <1>0
<1>4. B(i) \in Fraction /\ B(i + 1) \in Fraction BY <1>3, EndIsAmount
<1>5. Add(sum, rest) = B(i + 1) /\ AtMost(B(i), sum) BY <1>3 DEF Reached
<1>6. AtMost(next, B(i + 1))
  <2>1. AtMost(sum, sum) BY <1>1, OrderLaws
  <2> QED BY <1>1, <1>5, <2>1, SumKeepsOrder
<1>7. ASSUME take = rest
      PROVE  Reached(asks, i + 1, SizeAt(asks, i + 1), next) /\ next \in Ends(asks)
  <2>1. next = B(i + 1) BY <1>5, <1>7
  <2>2. AtMost(B(i + 1), next) BY <1>2, <2>1, OrderLaws
  <2>3. i + 1 <= n => Add(next, SizeAt(asks, i + 1)) = B((i + 1) + 1)
    <3> SUFFICES ASSUME i + 1 <= n PROVE Add(next, SizeAt(asks, i + 1)) = B((i + 1) + 1)
      OBVIOUS
    <3> DEFINE l == i + 1
    <3>1. l \in 1..n /\ l \in DOMAIN asks BY <1>0, <1>3
    <3> HIDE DEF l
    <3>2. B(l + 1) = Add(B(l), asks[l][2]) BY <3>1, SharesBefore
    <3>3. SizeAt(asks, l) = asks[l][2] BY <3>1 DEF SizeAt, SizeOf
    <3> QED BY <2>1, <3>2, <3>3 DEF l
  <2>4. next \in Ends(asks)
    <3>1. i + 1 \in 2..(n + 1) BY <1>0
    <3> QED BY <2>1, <3>1 DEF Ends
  <2> QED BY <1>3, <2>1, <2>2, <2>3, <2>4 DEF Reached
<1>8. ASSUME take # rest PROVE Reached(asks, i, Sub(rest, take), next)
  <2>1. Add(next, Sub(rest, take)) = B(i + 1) BY <1>1, <1>5, PartsTaken
  <2>2. AtMost(B(i), next) BY <1>1, <1>2, <1>4, <1>5, OrderThrough
  <2>3. ~(i > n) BY <1>0
  <2> QED BY <1>3, <2>1, <2>2, <2>3 DEF Reached
<1>9. ASSUME NEW e \in Ends(asks), Less(sum, e), AtMost(e, next) PROVE e = next
  <2>1. PICK j \in 2..(n + 1) : e = B(j) BY DEF Ends
  <2>2. j \in 1..(n + 1) /\ e \in Fraction BY <1>0, <2>1, EndIsAmount
  <2>3. ~(j <= i)
    <3> SUFFICES ASSUME j <= i PROVE FALSE OBVIOUS
    <3>1. AtMost(e, B(i)) BY <1>3, <2>1, <2>2, EndsRise
    <3>2. AtMost(e, sum) BY <1>1, <1>4, <1>5, <2>2, <3>1, OrderThrough
    <3> QED BY <1>1, <1>9, <2>2, <3>2, OrderLaws
  <2>4. i + 1 <= j BY <1>0, <2>3
  <2>5. AtMost(B(i + 1), e) BY <1>3, <2>1, <2>2, <2>4, EndsRise
  <2>6. AtMost(next, e) BY <1>2, <1>4, <1>6, <2>2, <2>5, OrderThrough
  <2> QED BY <1>2, <1>9, <2>2, <2>6, OrderLaws
<1> QED BY <1>7, <1>8, <1>9

\* The points a walk has passed after sum shares: every one of E so far and no other,
\* in increasing order.
Passed(E, points, sum) ==
  /\ \A k \in 1..Len(points) : points[k] \in E /\ AtMost(points[k], sum)
  /\ \A e \in E : Less(Zero, e) /\ AtMost(e, sum) => \E k \in 1..Len(points) : points[k] = e
  /\ \A k, l \in 1..Len(points) : k < l => Less(points[k], points[l])

LEMMA PointsOn ==
  ASSUME NEW E \in SUBSET Fraction, NEW points \in Seq(PositiveAmount),
         NEW sum \in Amount, NEW take \in Amount, NEW next, next = Add(sum, take),
         Passed(E, points, sum), next \in E,
         \A e \in E : Less(sum, e) /\ AtMost(e, next) => e = next
  PROVE  Passed(E, IF take = Zero THEN points ELSE Append(points, next), next)
<1>1. sum \in Fraction /\ take \in Fraction /\ AtMost(Zero, take) BY DEF Amount
<1>2. next \in Fraction BY <1>1, SumLaws
<1>3. CASE take = Zero
  <2>1. next = sum BY <1>1, <1>3, SumLaws
  <2> QED BY <1>3, <2>1
<1>4. CASE take # Zero
  <2> DEFINE n == Len(points)
             more == Append(points, next)
  <2>1. Less(Zero, take) BY <1>1, <1>4, Units, OrderLaws
  <2>2. Less(sum, next) /\ AtMost(sum, next) BY <1>1, <1>2, <2>1, SumLaws, OrderLaws
  <2>3. /\ n \in Nat /\ Len(more) = n + 1 /\ more[n + 1] = next
        /\ \A k \in 1..n : more[k] = points[k]
        /\ \A k \in 1..(n + 1) : k \in 1..n \/ k = n + 1
    OBVIOUS
  <2>4. \A k \in 1..n : points[k] \in Fraction /\ AtMost(points[k], sum) /\ points[k] \in E
    BY DEF Passed, PositiveAmount
  <2> HIDE DEF more, n
  <2>5. ASSUME NEW k \in 1..n PROVE AtMost(points[k], next) /\ Less(points[k], next)
    BY <1>1, <1>2, <2>2, <2>4, OrderThrough
  <2>6. \A k \in 1..(n + 1) : more[k] \in E /\ AtMost(more[k], next)
    BY <1>2, <2>3, <2>4, <2>5, OrderLaws
  <2>7. ASSUME NEW e \in E, Less(Zero, e), AtMost(e, next)
        PROVE  \E k \in 1..(n + 1) : more[k] = e
    <3>1. CASE AtMost(e, sum)
      <4>1. PICK k \in 1..n : points[k] = e BY <3>1, <2>7 DEF Passed, n
      <4>2. k \in 1..(n + 1) /\ more[k] = e BY <4>1, <2>3
      <4> QED BY <4>2
    <3>2. CASE ~AtMost(e, sum)
      <4>1. Less(sum, e) BY <3>2 DEF AtMost
      <4>2. e = next /\ n + 1 \in 1..(n + 1) BY <4>1, <2>7, <2>3
      <4> QED BY <4>2, <2>3
    <3> QED BY <3>1, <3>2
  <2>8. ASSUME NEW k \in 1..(n + 1), NEW l \in 1..(n + 1), k < l
        PROVE  Less(more[k], more[l])
    <3>1. k \in 1..n /\ more[k] = points[k] BY <2>3, <2>8
    <3>2. CASE l \in 1..n
      <4>1. more[l] = points[l] BY <3>2, <2>3
      <4> QED BY <3>1, <3>2, <4>1, <2>8 DEF Passed, n
    <3>3. CASE l = n + 1 BY <3>1, <3>3, <2>3, <2>5
    <3> QED BY <3>2, <3>3, <2>3
  <2>9. Passed(E, more, next)
    <3>1. Len(more) = n + 1 BY <2>3
    <3> QED BY <3>1, <2>6, <2>7, <2>8 DEF Passed
  <2> QED BY <1>4, <2>9 DEF more
<1> QED BY <1>3, <1>4

\* Where a walk over both books stands after k steps, if not at the end of one of them.
AllEnds(ours, theirs) == Ends(ours) \cup Ends(theirs)

InWalk(ours, theirs, at, k) ==
  /\ Reached(ours, at.i, at.predict, at.sum)
  /\ Reached(theirs, at.j, at.polymarket, at.sum)
  /\ Passed(AllEnds(ours, theirs), at.points, at.sum)
  /\ at.i > Len(ours) \/ at.j > Len(theirs) \/ k + 2 <= at.i + at.j

LEMMA ReachStart ==
  ASSUME NEW asks \in Seq(Quoted)
  PROVE  Reached(asks, 1, SizeAt(asks, 1), Zero)
<1> DEFINE n == Len(asks)
<1>1. n \in Nat /\ 1 \in 1..(n + 1) /\ shares_before(asks, 1) = Zero BY SharesBefore
<1>2. AtMost(Zero, Zero) BY Units, OrderLaws
<1>3. 1 <= n => Add(Zero, SizeAt(asks, 1)) = shares_before(asks, 1 + 1)
  <2> SUFFICES ASSUME 1 <= n PROVE Add(Zero, SizeAt(asks, 1)) = shares_before(asks, 1 + 1)
    OBVIOUS
  <2>1. 1 \in 1..n /\ 1 \in DOMAIN asks BY <1>1
  <2>2. shares_before(asks, 1 + 1) = Add(Zero, asks[1][2]) BY <1>1, <2>1, SharesBefore
  <2> QED BY <2>1, <2>2 DEF SizeAt, SizeOf
<1> QED BY <1>1, <1>2, <1>3 DEF Reached

LEMMA WalkStarts ==
  ASSUME NEW ours \in Seq(Quoted), NEW theirs \in Seq(Quoted)
  PROVE  InWalk(ours, theirs, WalkStart(ours, theirs), 0)
<1> DEFINE at == WalkStart(ours, theirs)
<1>1. /\ at.i = 1 /\ at.j = 1 /\ at.predict = SizeAt(ours, 1)
      /\ at.polymarket = SizeAt(theirs, 1) /\ at.sum = Zero /\ at.points = << >>
  BY DEF WalkStart
<1> HIDE DEF at
<1>2. Reached(ours, at.i, at.predict, at.sum) /\ Reached(theirs, at.j, at.polymarket, at.sum)
  BY <1>1, ReachStart
<1>3. Passed(AllEnds(ours, theirs), << >>, Zero)
  <2>1. Len(<< >>) = 0 /\ 1..0 = {} OBVIOUS
  <2>2. ASSUME NEW e \in AllEnds(ours, theirs), Less(Zero, e), AtMost(e, Zero) PROVE FALSE
    BY <2>2 DEF AtMost
  <2> QED BY <2>1, <2>2 DEF Passed
<1>4. 0 + 2 <= at.i + at.j BY <1>1
<1> QED BY <1>1, <1>2, <1>3, <1>4 DEF InWalk, at

LEMMA WalkGoesOn ==
  ASSUME NEW ours \in Seq(Quoted), NEW theirs \in Seq(Quoted), NEW at \in Walking,
         NEW k \in Nat, InWalk(ours, theirs, at, k)
  PROVE  InWalk(ours, theirs, WalkStep(ours, theirs, at, k + 1), k + 1)
<1> DEFINE take == Smaller(at.predict, at.polymarket)
           next == Add(at.sum, take)
           after == WalkOn(ours, theirs, at, take)
           E == AllEnds(ours, theirs)
<1>1. /\ at.i \in Nat \ {0} /\ at.j \in Nat \ {0} /\ at.predict \in Amount
      /\ at.polymarket \in Amount /\ at.sum \in Amount /\ at.points \in Seq(PositiveAmount)
  BY DEF Walking
<1>2. /\ Reached(ours, at.i, at.predict, at.sum) /\ Reached(theirs, at.j, at.polymarket, at.sum)
      /\ Passed(E, at.points, at.sum)
      /\ at.i > Len(ours) \/ at.j > Len(theirs) \/ k + 2 <= at.i + at.j
  BY DEF InWalk
<1>3. CASE at.i > Len(ours) \/ at.j > Len(theirs)
  <2>1. WalkStep(ours, theirs, at, k + 1) = at BY <1>3 DEF WalkStep
  <2> QED BY <1>2, <1>3, <2>1 DEF InWalk
<1>4. CASE ~(at.i > Len(ours) \/ at.j > Len(theirs))
  <2>1. WalkStep(ours, theirs, at, k + 1) = after BY <1>4 DEF WalkStep
  <2>2. at.i \in 1..Len(ours) /\ at.j \in 1..Len(theirs) BY <1>1, <1>4
  <2>3. take \in Amount /\ AtMost(take, at.predict) /\ AtMost(take, at.polymarket)
    BY <1>1, OrderLaws DEF Smaller, Amount
  <2>4. take = at.predict \/ take = at.polymarket BY DEF Smaller
  <2>5. /\ after.i = (IF take = at.predict THEN at.i + 1 ELSE at.i)
        /\ after.j = (IF take = at.polymarket THEN at.j + 1 ELSE at.j)
        /\ after.predict = (IF take = at.predict THEN SizeAt(ours, at.i + 1)
                            ELSE Sub(at.predict, take))
        /\ after.polymarket = (IF take = at.polymarket THEN SizeAt(theirs, at.j + 1)
                               ELSE Sub(at.polymarket, take))
        /\ after.sum = next
        /\ after.points = (IF take = Zero THEN at.points ELSE Append(at.points, next))
    BY DEF WalkOn
  <2> HIDE DEF take, next, after
  <2>6. /\ take = at.predict => /\ Reached(ours, at.i + 1, SizeAt(ours, at.i + 1), next)
                                /\ next \in Ends(ours)
        /\ take # at.predict => Reached(ours, at.i, Sub(at.predict, take), next)
        /\ \A e \in Ends(ours) : Less(at.sum, e) /\ AtMost(e, next) => e = next
    BY <1>1, <1>2, <2>2, <2>3, ReachOn DEF next
  <2>7. /\ take = at.polymarket => /\ Reached(theirs, at.j + 1, SizeAt(theirs, at.j + 1), next)
                                   /\ next \in Ends(theirs)
        /\ take # at.polymarket => Reached(theirs, at.j, Sub(at.polymarket, take), next)
        /\ \A e \in Ends(theirs) : Less(at.sum, e) /\ AtMost(e, next) => e = next
    BY <1>1, <1>2, <2>2, <2>3, ReachOn DEF next
  <2>8. Reached(ours, after.i, after.predict, after.sum) BY <2>5, <2>6
  <2>9. Reached(theirs, after.j, after.polymarket, after.sum) BY <2>5, <2>7
  <2>10. Passed(E, after.points, after.sum)
    <3>1. E \in SUBSET Fraction
      <4>1. \A e \in Ends(ours) : e \in Fraction
        <5>1. \A i \in 2..(Len(ours) + 1) : i \in 1..(Len(ours) + 1) OBVIOUS
        <5> QED BY <5>1, EndIsAmount DEF Ends
      <4>2. \A e \in Ends(theirs) : e \in Fraction
        <5>1. \A i \in 2..(Len(theirs) + 1) : i \in 1..(Len(theirs) + 1) OBVIOUS
        <5> QED BY <5>1, EndIsAmount DEF Ends
      <4> QED BY <4>1, <4>2 DEF AllEnds
    <3>2. next \in E BY <2>4, <2>6, <2>7 DEF AllEnds
    <3>3. \A e \in E : Less(at.sum, e) /\ AtMost(e, next) => e = next
      BY <2>6, <2>7 DEF AllEnds
    <3> HIDE DEF E
    <3>4. Passed(E, IF take = Zero THEN at.points ELSE Append(at.points, next), next)
      BY <1>1, <1>2, <2>3, <3>1, <3>2, <3>3, PointsOn DEF next
    <3> QED BY <2>5, <3>4
  <2>11. k + 2 <= at.i + at.j BY <1>2, <1>4
  <2>12. (k + 1) + 2 <= after.i + after.j
    <3>1. CASE take = at.predict
      <4>1. after.i = at.i + 1 /\ (after.j = at.j \/ after.j = at.j + 1) BY <2>5, <3>1
      <4> QED BY <1>1, <2>11, <4>1
    <3>2. CASE take = at.polymarket
      <4>1. after.j = at.j + 1 /\ (after.i = at.i \/ after.i = at.i + 1) BY <2>5, <3>2
      <4> QED BY <1>1, <2>11, <4>1
    <3> QED BY <2>4, <3>1, <3>2
  <2> QED BY <2>1, <2>8, <2>9, <2>10, <2>12 DEF InWalk
<1> QED BY <1>3, <1>4

\* The walk of one program stops at the sizes that the other gathers, in increasing order.
IncreasingPoints(points, S) ==
  /\ points \in Seq(PositiveAmount)
  /\ \A x : x \in S <=> \E k \in 1..Len(points) : points[k] = x
  /\ \A k, l \in 1..Len(points) : k < l => Less(points[k], points[l])

\* A walk never leaves a book, and has used it up at its end.
LEMMA SumIsCovered ==
  ASSUME NEW asks \in Seq(Quoted), NEW i, NEW rest \in Amount, NEW sum \in Amount,
         Reached(asks, i, rest, sum)
  PROVE  /\ AtMost(sum, shares_before(asks, Len(asks) + 1))
         /\ i > Len(asks) => sum = shares_before(asks, Len(asks) + 1)
<1> DEFINE n == Len(asks)
<1>1. n \in Nat /\ i \in 1..(n + 1) /\ n + 1 \in 1..(n + 1) BY DEF Reached
<1>2. sum \in Fraction /\ rest \in Fraction /\ AtMost(Zero, rest) BY DEF Amount
<1>3. CASE i > n
  <2>1. i = n + 1 BY <1>1, <1>3
  <2>2. sum = shares_before(asks, n + 1) BY <1>3, <2>1 DEF Reached
  <2> QED BY <1>2, <2>2, OrderLaws
<1>4. CASE ~(i > n)
  <2>1. i <= n /\ i + 1 \in 1..(n + 1) /\ i + 1 <= n + 1 BY <1>1, <1>4
  <2>2. Add(sum, rest) = shares_before(asks, i + 1) BY <2>1 DEF Reached
  <2>3. AtMost(sum, shares_before(asks, i + 1)) BY <1>2, <2>2, SumLaws
  <2>4. AtMost(shares_before(asks, i + 1), shares_before(asks, n + 1)) BY <1>1, <2>1, EndsRise
  <2>5. shares_before(asks, i + 1) \in Fraction /\ shares_before(asks, n + 1) \in Fraction
    BY <1>1, <2>1, EndIsAmount
  <2>6. AtMost(sum, shares_before(asks, n + 1)) BY <1>2, <2>3, <2>4, <2>5, OrderThrough
  <2> QED BY <1>4, <2>6
<1> QED BY <1>3, <1>4

LEMMA PointsAgree ==
  ASSUME NEW ours \in Seq(Quoted), NEW theirs \in Seq(Quoted)
  PROVE  IncreasingPoints(PairedBreakpoints(ours, theirs), paired_depth_breakpoints(ours, theirs))
<1> DEFINE n == Len(ours) + Len(theirs)
           E == AllEnds(ours, theirs)
           most == shares_before(ours, Len(ours) + 1)
           mostOther == shares_before(theirs, Len(theirs) + 1)
<1>1. PICK path : Walks(path, ours, theirs) /\ PairedBreakpoints(ours, theirs) = path[n].points
  BY WalkSteps
<1>2. n \in Nat /\ Len(ours) \in Nat /\ Len(theirs) \in Nat /\ n = Len(ours) + Len(theirs)
  OBVIOUS
<1> HIDE DEF n
<1>3. /\ path \in [0..n -> Walking] /\ path[0] = WalkStart(ours, theirs)
      /\ \A k \in 1..n : path[k] = WalkStep(ours, theirs, path[k - 1], k)
  BY <1>1 DEF Walks, n
<1> DEFINE K == {k \in Nat : k <= n => InWalk(ours, theirs, path[k], k)}
<1>4. 0 \in K BY <1>3, WalkStarts
<1>5. ASSUME NEW k \in Nat, k \in K PROVE k + 1 \in K
  <2> SUFFICES ASSUME k + 1 <= n PROVE InWalk(ours, theirs, path[k + 1], k + 1) OBVIOUS
  <2>1. k + 1 \in 1..n /\ (k + 1) - 1 = k /\ k \in 0..n /\ InWalk(ours, theirs, path[k], k)
    BY <1>2, <1>5
  <2>2. path[k + 1] = WalkStep(ours, theirs, path[k], k + 1) /\ path[k] \in Walking
    BY <1>3, <2>1
  <2> QED BY <2>1, <2>2, WalkGoesOn
<1> HIDE DEF K
<1>6. Nat \subseteq K BY <1>4, <1>5, CountUp
<1> DEFINE at == path[n]
           points == at.points
           sum == at.sum
<1>7. at \in Walking /\ InWalk(ours, theirs, at, n)
  <2>1. n \in K /\ n <= n /\ n \in 0..n BY <1>2, <1>6
  <2> QED BY <1>3, <2>1 DEF K
<1> HIDE DEF at
<1>8. /\ at.i \in Nat /\ at.j \in Nat /\ at.predict \in Amount /\ at.polymarket \in Amount
      /\ sum \in Amount /\ points \in Seq(PositiveAmount)
  BY <1>7 DEF Walking
<1>9. /\ Reached(ours, at.i, at.predict, sum) /\ Reached(theirs, at.j, at.polymarket, sum)
      /\ Passed(E, points, sum)
      /\ at.i > Len(ours) \/ at.j > Len(theirs) \/ n + 2 <= at.i + at.j
  BY <1>7 DEF InWalk
<1>10. at.i > Len(ours) \/ at.j > Len(theirs) BY <1>2, <1>8, <1>9
<1> HIDE DEF E, sum, points
<1>11. AtMost(sum, most) /\ AtMost(sum, mostOther) /\ (sum = most \/ sum = mostOther)
  BY <1>8, <1>9, <1>10, SumIsCovered
<1>12. sum \in Fraction /\ most \in Fraction /\ mostOther \in Fraction
  <2>1. Len(ours) + 1 \in 1..(Len(ours) + 1) /\ Len(theirs) + 1 \in 1..(Len(theirs) + 1)
    BY <1>2
  <2> QED BY <1>8, <2>1, EndIsAmount DEF Amount
<1>13. paired_depth_breakpoints(ours, theirs)
         = {s \in E : Less(Zero, s) /\ AtMost(s, most) /\ AtMost(s, mostOther)}
  BY DEF paired_depth_breakpoints, E, AllEnds, Ends
<1> HIDE DEF most, mostOther
<1>14. \A k \in 1..Len(points) : points[k] \in Fraction /\ Less(Zero, points[k])
  BY <1>8 DEF PositiveAmount
<1>15. \A k \in 1..Len(points) : points[k] \in paired_depth_breakpoints(ours, theirs)
  <2> SUFFICES ASSUME NEW k \in 1..Len(points)
               PROVE  points[k] \in paired_depth_breakpoints(ours, theirs)
    OBVIOUS
  <2>1. points[k] \in E /\ AtMost(points[k], sum) BY <1>9 DEF Passed
  <2>2. AtMost(points[k], most) /\ AtMost(points[k], mostOther)
    BY <1>11, <1>12, <1>14, <2>1, OrderThrough
  <2> QED BY <1>13, <1>14, <2>1, <2>2
<1>16. \A x \in paired_depth_breakpoints(ours, theirs) :
         \E k \in 1..Len(points) : points[k] = x
  <2> SUFFICES ASSUME NEW x \in paired_depth_breakpoints(ours, theirs)
               PROVE  \E k \in 1..Len(points) : points[k] = x
    OBVIOUS
  <2>1. x \in E /\ Less(Zero, x) /\ AtMost(x, sum) BY <1>11, <1>13
  <2> QED BY <1>9, <2>1 DEF Passed
<1>17. \A k, l \in 1..Len(points) : k < l => Less(points[k], points[l])
  BY <1>9 DEF Passed
<1>18. IncreasingPoints(points, paired_depth_breakpoints(ours, theirs))
  BY <1>8, <1>15, <1>16, <1>17 DEF IncreasingPoints
<1> QED BY <1>1, <1>18 DEF points, at

\* The last of the increasing points that is worth its price is the largest.
IsLargest(x, S) == IF S = {} THEN x = Zero ELSE x \in S /\ \A y \in S : AtMost(y, x)

LEMMA DepthIsLargest ==
  ASSUME NEW ours \in Seq(Quoted), NEW theirs \in Seq(Quoted)
  PROVE  IsLargest(ProfitableDepth(ours, theirs),
                   {x \in paired_depth_breakpoints(ours, theirs) :
                      EvaluateCombo(ours, theirs, x).executable})
<1> DEFINE points == PairedBreakpoints(ours, theirs)
           n == Len(points)
           S == paired_depth_breakpoints(ours, theirs)
           Does(x) == EvaluateCombo(ours, theirs, x).executable
           T(m) == {x \in S : \E k \in 1..m : points[k] = x /\ Does(x)}
<1>1. IncreasingPoints(points, S) BY PointsAgree
<1>2. PICK path : Deepens(path, ours, theirs, points) /\ ProfitableDepth(ours, theirs) = path[n]
  BY DepthSteps
<1> HIDE DEF points, Does, S
<1>3. points \in Seq(PositiveAmount) /\ n \in Nat BY <1>1 DEF IncreasingPoints
<1>4. \A k \in 1..n : points[k] \in S /\ points[k] \in Fraction
  BY <1>1, <1>3 DEF IncreasingPoints, PositiveAmount
<1> DEFINE K == {m \in Nat : m <= n => IsLargest(path[m], T(m))}
<1>5. 0 \in K
  <2>1. T(0) = {} BY 1..0 = {}
  <2>2. path[0] = Zero BY <1>2 DEF Deepens
  <2> QED BY <2>1, <2>2 DEF IsLargest
<1>6. ASSUME NEW m \in Nat, NEW l, l = m + 1, m \in K, l <= n
      PROVE  IsLargest(path[l], T(l))
  <2> DEFINE p == points[l]
  <2>1. /\ l \in 1..n /\ l - 1 = m /\ m <= n /\ l \in 1..l
        /\ \A k \in 1..l : k \in 1..m \/ k = l
        /\ \A k \in 1..m : k \in 1..l /\ k \in 1..n /\ k < l
    BY <1>3, <1>6
  <2>2. path[l] = DeeperStep(ours, theirs, path[m], p) BY <1>2, <2>1 DEF Deepens, n
  <2>3. IsLargest(path[m], T(m)) BY <1>6, <2>1
  <2>4. p \in S /\ p \in Fraction BY <1>4, <2>1
  <2>5. \A y \in T(m) : Less(y, p) /\ y \in Fraction
    BY <1>1, <1>4, <2>1 DEF IncreasingPoints, n
  <2>6. CASE Does(p)
    <3>1. path[l] = p BY <2>2, <2>6 DEF DeeperStep, Does
    <3>2. T(l) = T(m) \cup {p} BY <2>1, <2>4, <2>6
    <3> HIDE DEF T, p
    <3>3. \A y \in T(m) \cup {p} : AtMost(y, p) BY <2>4, <2>5, OrderLaws
    <3> QED BY <3>1, <3>2, <3>3 DEF IsLargest
  <2>7. CASE ~Does(p)
    <3>1. path[l] = path[m] BY <2>2, <2>7 DEF DeeperStep, Does
    <3>2. T(l) = T(m) BY <2>1, <2>7
    <3> HIDE DEF T
    <3> QED BY <2>3, <3>1, <3>2
  <2> QED BY <2>6, <2>7
<1>7. Nat \subseteq K
  <2> HIDE DEF T
  <2>1. ASSUME NEW m \in Nat, m \in K PROVE m + 1 \in K BY <1>6, <2>1
  <2> HIDE DEF K
  <2> QED BY <1>5, <2>1, CountUp
<1> HIDE DEF K
<1>8. n \in K /\ n <= n BY <1>3, <1>7
<1>9. IsLargest(path[n], T(n)) BY <1>8 DEF K
<1>10. T(n) = {x \in S : Does(x)} BY <1>1 DEF IncreasingPoints
<1> HIDE DEF T
<1> QED BY <1>2, <1>9, <1>10 DEF S, Does

\* The depth of ArbEngine.profitableDepth (engine.ts:238-251), which walks the levels of both
\* books side by side, is that of profitable_orderbook_depth (risk.py:460-483), which here is
\* the largest of the sizes at which a level of either ends: the walk passes all of those
\* that both books can fill, and in increasing order.
THEOREM DepthsAgree ==
  ASSUME NEW ours \in Seq(Quoted), NEW theirs \in Seq(Quoted)
  PROVE  ProfitableDepth(ours, theirs) = profitable_orderbook_depth(ours, theirs)
<1> DEFINE S == paired_depth_breakpoints(ours, theirs)
           mine == {x \in S : EvaluateCombo(ours, theirs, x).executable}
           other == {x \in S : evaluate_buy_complement(ours, theirs, x).executable}
           Is(x) == x \in mine /\ \A y \in mine : AtMost(y, x)
           depth == ProfitableDepth(ours, theirs)
<1>1. S \subseteq PositiveAmount /\ S \subseteq Fraction
  <2>1. IncreasingPoints(PairedBreakpoints(ours, theirs), S) BY PointsAgree
  <2> QED BY <2>1 DEF IncreasingPoints, PositiveAmount
<1>2. IsLargest(depth, mine) BY DepthIsLargest
<1>3. profitable_orderbook_depth(ours, theirs)
        = IF other = {} THEN Zero ELSE CHOOSE s \in other : \A t \in other : AtMost(t, s)
  BY DEF profitable_orderbook_depth
<1> HIDE DEF S, depth
<1>4. mine = other
  <2>1. \A x \in S : EvaluateCombo(ours, theirs, x).executable
                       = evaluate_buy_complement(ours, theirs, x).executable
    BY <1>1, QuotesAgree DEF SameQuote
  <2> QED BY <2>1
<1>5. mine \subseteq Fraction BY <1>1
<1> HIDE DEF mine, other
<1>6. CASE mine = {} BY <1>2, <1>3, <1>4, <1>6 DEF IsLargest, depth
<1>7. CASE mine # {}
  <2>1. Is(depth) BY <1>2, <1>7 DEF IsLargest
  <2> DEFINE chosen == CHOOSE s \in mine : \A t \in mine : AtMost(t, s)
  <2>2. chosen \in mine /\ \A t \in mine : AtMost(t, chosen) BY <2>1
  <2> HIDE DEF chosen
  <2>3. AtMost(chosen, depth) /\ AtMost(depth, chosen) /\ chosen \in Fraction /\ depth \in Fraction
    BY <1>5, <2>1, <2>2
  <2>4. chosen = depth BY <2>3, OrderLaws
  <2> QED BY <1>3, <1>4, <1>7, <2>4 DEF chosen, depth
<1> QED BY <1>6, <1>7

-----------------------------------------------------------------------------
(* Both programs size a pair of books alike                                  *)

\* An amount that is not zero is above it.
LEMMA PositiveOnes ==
  ASSUME NEW x \in Amount, x # Zero
  PROVE  x \in PositiveAmount
BY Units, OrderLaws DEF Amount, PositiveAmount

\* What a budget that is not empty buys is the same in both programs, and not nothing.
LEMMA NotionalIs ==
  ASSUME NEW x \in Amount, x # Zero, NEW price \in Fraction, Less(Zero, price)
  PROVE  /\ Div(x, price) = shares_from_notional(x, price)
         /\ Div(x, price) \in PositiveAmount
<1>1. x \in Fraction /\ Zero \in Fraction /\ Less(Zero, x)
  BY PositiveOnes, Units DEF PositiveAmount
<1>2. ~AtMost(x, Zero) /\ ~AtMost(price, Zero) BY <1>1, OrderLaws
<1>3. Div(x, price) \in Fraction /\ Less(Zero, Div(x, price))
  BY <1>1, ProductLaws, QuotientLaws
<1> QED BY <1>2, <1>3 DEF shares_from_notional, PositiveAmount

\* The sizes that size_buy_complement takes the least of.
NotionalSizes(depth, quote, balance, collateral) ==
  {depth,
   shares_from_notional(Mul(balance, TradeFraction), effective_price(quote.predict_leg)),
   shares_from_notional(collateral, effective_price(quote.polymarket_leg))}
    \cup {shares_from_notional(cap, quote.net_cost_per_share) : cap \in TradeCaps}

\* Both take the least of the same sizes.
LEMMA CandidatesAgree ==
  ASSUME NEW ours \in Seq(Quoted), NEW theirs \in Seq(Quoted), NEW depth \in PositiveAmount,
         NEW balance \in Amount, NEW collateral \in PositiveAmount,
         EvaluateCombo(ours, theirs, depth).executable,
         Mul(balance, TradeFraction) # Zero, Zero \notin TradeCaps
  PROVE  LET sizes == Candidates(depth, EvaluateCombo(ours, theirs, depth), balance, collateral)
         IN /\ NotionalSizes(depth, evaluate_buy_complement(ours, theirs, depth), balance,
                             collateral) = sizes
            /\ Least(sizes) \in PositiveAmount
<1> DEFINE quote == EvaluateCombo(ours, theirs, depth)
           other == evaluate_buy_complement(ours, theirs, depth)
           budget == Mul(balance, TradeFraction)
           p == quote.predict.price
           q == quote.polymarket.price
           r == quote.netCost
           a == Div(budget, p)
           b == Div(collateral, q)
           T == {Div(cap, r) : cap \in TradeCaps}
           U == {shares_from_notional(cap, r) : cap \in TradeCaps}
           sizes == Candidates(depth, quote, balance, collateral)
<1>1. /\ p \in Fraction /\ Less(Zero, p) /\ q \in Fraction /\ Less(Zero, q)
      /\ r \in Fraction /\ Less(Zero, r)
  BY ComboPrice
<1>2. /\ TradeFraction \in Amount /\ TradeCaps \subseteq Amount
      /\ \A cap, another \in TradeCaps : cap = another
  BY RiskAssumption DEF RiskAssumption
<1>3. budget \in Amount /\ budget # Zero BY <1>2, ProductLaws DEF Amount
<1>4. collateral \in Amount /\ collateral # Zero
  BY Units, OrderLaws DEF Amount, PositiveAmount
<1>5. SameQuote(quote, other) BY QuotesAgree
<1>6. /\ effective_price(other.predict_leg) = p /\ effective_price(other.polymarket_leg) = q
      /\ other.net_cost_per_share = r
  BY <1>5 DEF SameQuote, SameLeg
<1>7. sizes = {depth, a, b} \cup T BY DEF Candidates
<1>8. NotionalSizes(depth, other, balance, collateral)
        = {depth, shares_from_notional(budget, p), shares_from_notional(collateral, q)} \cup U
  BY <1>6 DEF NotionalSizes
<1> HIDE DEF quote, other, sizes, budget, p, q, r
<1>9. /\ shares_from_notional(budget, p) = a /\ a \in PositiveAmount
      /\ shares_from_notional(collateral, q) = b /\ b \in PositiveAmount
  BY <1>1, <1>3, <1>4, NotionalIs
<1>10. \A cap \in TradeCaps : /\ shares_from_notional(cap, r) = Div(cap, r)
                              /\ Div(cap, r) \in PositiveAmount
  <2> SUFFICES ASSUME NEW cap \in TradeCaps
               PROVE  shares_from_notional(cap, r) = Div(cap, r) /\ Div(cap, r) \in PositiveAmount
    OBVIOUS
  <2>1. cap \in Amount /\ cap # Zero BY <1>2
  <2> QED BY <1>1, <2>1, NotionalIs
<1>11. T = U /\ T \subseteq PositiveAmount BY <1>10
<1>12. \A x, y \in T : x = y BY <1>2
<1> HIDE DEF a, b, T, U
<1>13. NotionalSizes(depth, other, balance, collateral) = sizes BY <1>7, <1>8, <1>9, <1>11
<1>14. Least(sizes) \in PositiveAmount
  <2>1. depth \in Fraction /\ a \in Fraction /\ b \in Fraction /\ T \in SUBSET Fraction
    BY <1>9, <1>11 DEF PositiveAmount
  <2>2. IsLeast(Least({depth, a, b} \cup T), {depth, a, b} \cup T)
    BY <1>12, <2>1, LeastIsLeast
  <2>3. Least(sizes) \in {depth, a, b} \cup T BY <1>7, <2>2 DEF IsLeast
  <2> QED BY <1>9, <1>11, <2>3
<1> QED BY <1>13, <1>14 DEF sizes, quote, other

\* What the one program makes of a pair of books and what the other does: the same, but
\* that the Python one refuses a trade below the venue's smallest order.
SameSizing(sized, other, minShares) ==
  /\ sized.result \in {"sized", "rejected"}
  /\ sized.result = "rejected" => other.result = "rejected"
  /\ sized.result = "sized" =>
       /\ SameQuote(sized.quote, other.quote)
       /\ other.result = IF AtMost(minShares, sized.quote.shares) THEN "sized" ELSE "rejected"

\* The size and the quote that the two make of a pair of books.
LEMMA SizingsAgree ==
  ASSUME NEW ours \in Seq(Quoted), NEW theirs \in Seq(Quoted), NEW minShares,
         NEW balance \in Amount, NEW collateral \in PositiveAmount,
         Mul(balance, TradeFraction) # Zero, Zero \notin TradeCaps
  PROVE  SameSizing(SizeCombo(ours, theirs, balance, collateral),
                    size_buy_complement(ours, theirs, balance, collateral, minShares), minShares)
<1> DEFINE depth == ProfitableDepth(ours, theirs)
           s == Least(Candidates(depth, EvaluateCombo(ours, theirs, depth), balance, collateral))
           t == Least(NotionalSizes(depth, evaluate_buy_complement(ours, theirs, depth), balance,
                                    collateral))
           quote == EvaluateCombo(ours, theirs, s)
           other(x) == evaluate_buy_complement(ours, theirs, x)
           sized == SizeCombo(ours, theirs, balance, collateral)
           resized == size_buy_complement(ours, theirs, balance, collateral, minShares)
<1>1. sized = IF depth = Zero THEN [result |-> "rejected"]
              ELSE IF s = Zero THEN [result |-> "threw"]
              ELSE [result |-> IF quote.executable THEN "sized" ELSE "rejected",
                    quote |-> quote]
  BY DEF SizeCombo
<1>2. profitable_orderbook_depth(ours, theirs) = depth BY DepthsAgree
<1>3. resized = IF depth = Zero THEN [result |-> "rejected"]
                ELSE IF t = Zero THEN [result |-> "rejected"]
                ELSE [result |-> IF other(t).executable /\ AtMost(minShares, other(t).shares)
                                 THEN "sized" ELSE "rejected",
                      quote |-> other(t)]
  BY <1>2 DEF size_buy_complement, NotionalSizes
<1>4. depth = Zero \/ (depth \in PositiveAmount /\ EvaluateCombo(ours, theirs, depth).executable)
  BY DepthIsWorth DEF Worth
<1> HIDE DEF depth, sized, resized
<1>5. ASSUME depth # Zero PROVE s = t /\ s \in PositiveAmount BY <1>4, <1>5, CandidatesAgree
<1>6. CASE depth = Zero
  <2>1. sized.result = "rejected" /\ resized.result = "rejected" BY <1>1, <1>3, <1>6
  <2> QED BY <2>1 DEF SameSizing, sized, resized
<1> HIDE DEF s, t
<1>7. CASE depth # Zero
  <2>1. s = t /\ s \in PositiveAmount /\ s # Zero
    BY <1>5, <1>7, Units, OrderLaws DEF PositiveAmount
  <2>2. SameQuote(quote, other(s)) BY <2>1, QuotesAgree
  <2> HIDE DEF quote, other
  <2>3. sized = [result |-> IF quote.executable THEN "sized" ELSE "rejected", quote |-> quote]
    BY <1>1, <1>7, <2>1
  <2>4. resized = [result |-> IF other(s).executable /\ AtMost(minShares, other(s).shares)
                              THEN "sized" ELSE "rejected",
                   quote |-> other(s)]
    BY <1>3, <1>7, <2>1
  <2>5. quote.executable = other(s).executable /\ quote.shares = other(s).shares
    BY <2>2 DEF SameQuote
  <2>6. SameSizing(sized, resized, minShares) BY <2>2, <2>3, <2>4, <2>5 DEF SameSizing
  <2> QED BY <2>6 DEF sized, resized
<1> QED BY <1>6, <1>7

-----------------------------------------------------------------------------
(* The choice of a trade                                                     *)

LEMMA SizedIsInBudget ==
  ASSUME NEW ours \in Seq(Quoted), NEW theirs \in Seq(Quoted), ByPrice(ours), ByPrice(theirs),
         NEW balance \in Amount, NEW collateral \in Amount
  PROVE  LET sized == SizeCombo(ours, theirs, balance, collateral)
         IN /\ sized.result \in {"sized", "threw", "rejected"}
            /\ sized.result = "sized" => InBudget(sized.quote, balance, collateral)
<1> DEFINE depth == ProfitableDepth(ours, theirs)
           s == Least(Candidates(depth, EvaluateCombo(ours, theirs, depth), balance, collateral))
           quote == EvaluateCombo(ours, theirs, s)
           sized == SizeCombo(ours, theirs, balance, collateral)
<1>1. sized = IF depth = Zero THEN [result |-> "rejected"]
              ELSE IF s = Zero THEN [result |-> "threw"]
              ELSE [result |-> IF quote.executable THEN "sized" ELSE "rejected",
                    quote |-> quote]
  BY DEF SizeCombo
<1>2. depth = Zero \/ (depth \in PositiveAmount /\ EvaluateCombo(ours, theirs, depth).executable)
  BY DepthIsWorth DEF Worth
<1> HIDE DEF depth, sized
<1>3. ASSUME depth # Zero, s # Zero, quote.executable
      PROVE  InBudget(quote, balance, collateral)
  <2>1. depth \in PositiveAmount /\ EvaluateCombo(ours, theirs, depth).executable
    BY <1>2, <1>3
  <2>2. \E x : x = s OBVIOUS
  <2> QED BY <1>3, <2>1, LeastIsInBudget
<1> HIDE DEF s, quote
<1>4. sized.result \in {"sized", "threw", "rejected"} BY <1>1
<1>5. ASSUME sized.result = "sized" PROVE InBudget(sized.quote, balance, collateral)
  <2>1. depth # Zero /\ s # Zero BY <1>1, <1>5
  <2>2. sized.result = (IF quote.executable THEN "sized" ELSE "rejected") /\ sized.quote = quote
    BY <1>1, <2>1
  <2>3. quote.executable BY <1>5, <2>2
  <2> QED BY <1>3, <2>1, <2>2, <2>3
<1> QED BY <1>4, <1>5 DEF sized

\* The least of the accounts that end the search, and a best combo, exist.
LEMMA FirstIsLeast ==
  ASSUME NEW some \in SUBSET Purse, some # {}
  PROVE  FirstOf(some) \in some /\ \A a \in some : FirstOf(some) <= a
<1>1. some \subseteq Nat BY TradeAssumption DEF TradeAssumption, Purse
<1>2. \E a \in some : \A b \in some : a <= b BY <1>1, LeastNatural
<1> QED BY <1>2 DEF FirstOf

IsBest(c, profits) ==
  /\ c \in DOMAIN profits
  /\ \A other \in DOMAIN profits \ {c} :
       \/ Less(profits[other], profits[c])
       \/ c = "COMBO_A" /\ AtMost(profits[other], profits[c])

LEMMA BestIsBest ==
  ASSUME NEW profits, DOMAIN profits \subseteq Combo, DOMAIN profits # {}
  PROVE  IsBest(BestCombo(profits), profits)
<1>1. \E c \in DOMAIN profits : IsBest(c, profits)
  <2>1. CASE "COMBO_A" \in DOMAIN profits /\ "COMBO_B" \in DOMAIN profits
    <3>1. IsBest("COMBO_A", profits) \/ IsBest("COMBO_B", profits)
      BY <2>1 DEF Combo, AtMost, IsBest
    <3> QED BY <2>1, <3>1
  <2>2. CASE "COMBO_A" \notin DOMAIN profits BY <2>2 DEF Combo, IsBest
  <2>3. CASE "COMBO_B" \notin DOMAIN profits BY <2>3 DEF Combo, IsBest
  <2> QED BY <2>1, <2>2, <2>3
<1> QED BY <1>1 DEF BestCombo, IsBest

\* The books and the funds of a state.
TradeTypes ==
  /\ books \in [predictAsks : Seq(Quoted), predictBids : Seq(Quoted),
                polymarketYes : Seq(Quoted), polymarketNo : Seq(Quoted), minShares : MinShares]
  /\ funds \in [balance : [Purse -> Amount], collateral : PositiveAmount]

LEMMA ComplementIsQuoted ==
  ASSUME NEW levels \in Seq(Quoted)
  PROVE  ComplementLevels(levels) \in Seq(Quoted)
<1>1. \A i \in 1..Len(levels) :
        <<Sub(One, PriceOf(levels[i])), SizeOf(levels[i])>> \in Quoted
  <2> SUFFICES ASSUME NEW i \in 1..Len(levels)
               PROVE  <<Sub(One, PriceOf(levels[i])), SizeOf(levels[i])>> \in Quoted
    OBVIOUS
  <2> DEFINE p == PriceOf(levels[i])
             q == Sub(One, p)
  <2>1. levels[i] \in Quoted OBVIOUS
  <2>2. p \in Fraction /\ Less(Zero, p) /\ Less(p, One) /\ SizeOf(levels[i]) \in Amount
    BY <2>1 DEF Quoted, PriceOf, SizeOf, PositiveAmount
  <2> HIDE DEF p
  <2>3. q \in Fraction /\ Less(Zero, q) /\ AtMost(q, One) /\ Add(q, p) = One
    BY <2>2, Units, SumLaws, OrderLaws
  <2>4. Less(q, Add(q, p)) BY <2>2, <2>3, SumLaws
  <2> QED BY <2>2, <2>3, <2>4 DEF Quoted, PositiveAmount, p
<1> QED BY <1>1 DEF ComplementLevels

LEMMA AsksAreQuoted ==
  ASSUME TradeTypes, NEW c \in Combo
  PROVE  /\ PredictAsks(c) \in Seq(Quoted) /\ ByPrice(PredictAsks(c))
         /\ PolymarketAsks(c) \in Seq(Quoted) /\ ByPrice(PolymarketAsks(c))
<1>1. /\ books.predictAsks \in Seq(Quoted) /\ ComplementLevels(books.predictBids) \in Seq(Quoted)
      /\ books.polymarketNo \in Seq(Quoted) /\ books.polymarketYes \in Seq(Quoted)
  BY ComplementIsQuoted DEF TradeTypes
<1> QED BY <1>1, SortedAreByPrice DEF PredictAsks, PolymarketAsks

\* chooseTrade takes a sized combo of the first account that ends its search.
LEMMA ChoiceIsInBudget ==
  ASSUME TradeTypes, ChooseTrade.is = "trade"
  PROVE  InBudget(ChooseTrade.quote, funds.balance[ChooseTrade.account], funds.collateral)
<1> DEFINE sized == [a \in Purse |-> SizedFor(a)]
           ending == {a \in Purse : \E c \in Combo : sized[a][c].result # "rejected"}
           a == FirstOf(ending)
           profits == [c \in ExecutableCombos(sized[a]) |-> sized[a][c].quote.profit]
           b == BestCombo(profits)
<1>1. ChooseTrade = IF ending = {} THEN NoDeal
                    ELSE IF \E c \in Combo : sized[a][c].result = "threw" THEN [is |-> "threw"]
                    ELSE Trade(a, b, sized[a][b])
  BY DEF ChooseTrade
<1>2. ASSUME NEW x \in Purse, NEW c \in Combo
      PROVE  /\ sized[x][c].result \in {"sized", "threw", "rejected"}
             /\ sized[x][c].result = "sized" =>
                  InBudget(sized[x][c].quote, funds.balance[x], funds.collateral)
  <2>1. sized[x][c] = SizeCombo(PredictAsks(c), PolymarketAsks(c), funds.balance[x],
                                funds.collateral)
    BY DEF SizedFor
  <2>2. funds.balance[x] \in Amount /\ funds.collateral \in Amount
    BY Units, OrderLaws DEF TradeTypes, Amount, PositiveAmount
  <2> QED BY <2>1, <2>2, AsksAreQuoted, SizedIsInBudget
<1> HIDE DEF sized
<1>3. ending # {}
  <2>1. ASSUME ending = {} PROVE FALSE
    <3>1. ChooseTrade = NoDeal BY <1>1, <2>1
    <3> QED BY <3>1 DEF NoDeal
  <2> QED BY <2>1
<1>4. a \in ending /\ a \in Purse BY <1>3, FirstIsLeast
<1>5. PICK c \in Combo : sized[a][c].result # "rejected" BY <1>4
<1> HIDE DEF a, ending
<1>6. ~\E d \in Combo : sized[a][d].result = "threw"
  <2>1. ASSUME \E d \in Combo : sized[a][d].result = "threw" PROVE FALSE
    <3>1. ChooseTrade = [is |-> "threw"] BY <1>1, <1>3, <2>1
    <3> QED BY <3>1
  <2> QED BY <2>1
<1>7. c \in ExecutableCombos(sized[a])
  <2>1. sized[a][c].result \in {"sized", "threw", "rejected"} BY <1>2, <1>4
  <2> QED BY <1>5, <1>6, <2>1 DEF ExecutableCombos
<1>8. b \in ExecutableCombos(sized[a])
  <2>1. DOMAIN profits = ExecutableCombos(sized[a]) OBVIOUS
  <2>2. ExecutableCombos(sized[a]) \subseteq Combo BY DEF ExecutableCombos
  <2> HIDE DEF profits
  <2> QED BY <1>7, <2>1, <2>2, BestIsBest DEF IsBest
<1> HIDE DEF b
<1>9. ChooseTrade = Trade(a, b, sized[a][b]) BY <1>1, <1>3, <1>6
<1>10. b \in Combo /\ sized[a][b].result = "sized" BY <1>8 DEF ExecutableCombos
<1>11. InBudget(sized[a][b].quote, funds.balance[a], funds.collateral) BY <1>2, <1>4, <1>10
<1> QED BY <1>9, <1>11 DEF Trade

\* The two programs take the same asks of the four books.
predict_asks(c) == predict_yes_book_to_outcome_book(IF c = "COMBO_A" THEN "YES" ELSE "NO")
poly_asks(c) == sorted_asks(IF c = "COMBO_A" THEN books.polymarketNo ELSE books.polymarketYes)

LEMMA SameBooks ==
  ASSUME NEW c \in Combo
  PROVE  PredictAsks(c) = predict_asks(c) /\ PolymarketAsks(c) = poly_asks(c)
<1>1. ComplementLevels(books.predictBids)
        = [i \in DOMAIN books.predictBids |->
             <<Sub(One, books.predictBids[i][1]), books.predictBids[i][2]>>]
  BY DEF ComplementLevels, PriceOf, SizeOf
<1>2. CASE c = "COMBO_A"
  BY <1>2 DEF PredictAsks, PolymarketAsks, predict_asks, poly_asks,
              predict_yes_book_to_outcome_book, SortedAsks, sorted_asks
<1>3. CASE c = "COMBO_B"
  BY <1>1, <1>3 DEF PredictAsks, PolymarketAsks, predict_asks, poly_asks,
                    predict_yes_book_to_outcome_book, SortedAsks, sorted_asks
<1> QED BY <1>2, <1>3 DEF Combo

\* No budget is empty.
Funded ==
  Zero \notin TradeCaps /\ \A a \in Purse : Mul(funds.balance[a], TradeFraction) # Zero

\* The same holds of each combo of each account.
LEMMA AccountsAgree ==
  ASSUME TradeTypes, Funded, NEW a \in Purse, NEW c \in Combo
  PROVE  SameSizing(SizedFor(a)[c], size_allowed_combos(a)[c], books.minShares)
<1> DEFINE balance == funds.balance[a]
           mine == SizeCombo(PredictAsks(c), PolymarketAsks(c), balance, funds.collateral)
           theirs == size_buy_complement(PredictAsks(c), PolymarketAsks(c), balance,
                                         funds.collateral, books.minShares)
<1>1. balance \in Amount /\ funds.collateral \in PositiveAmount
      /\ Mul(balance, TradeFraction) # Zero /\ Zero \notin TradeCaps
  BY DEF TradeTypes, Funded
<1>2. PredictAsks(c) \in Seq(Quoted) /\ PolymarketAsks(c) \in Seq(Quoted)
  BY AsksAreQuoted
<1>3. SizedFor(a)[c] = mine BY DEF SizedFor
<1>4. size_allowed_combos(a)[c]
        = size_buy_complement(predict_asks(c), poly_asks(c), balance, funds.collateral,
                              books.minShares)
  <2>1. CASE c = "COMBO_A"
    BY <2>1 DEF size_allowed_combos, size_combo_a, predict_asks, poly_asks,
                polymarket_constraints
  <2>2. CASE c = "COMBO_B"
    BY <2>2 DEF size_allowed_combos, size_combo_b, predict_asks, poly_asks,
                polymarket_constraints
  <2> QED BY <2>1, <2>2 DEF Combo
<1>5. size_allowed_combos(a)[c] = theirs BY <1>4, SameBooks
<1> HIDE DEF balance
<1>6. SameSizing(mine, theirs, books.minShares) BY <1>1, <1>2, SizingsAgree
<1> QED BY <1>3, <1>5, <1>6

\* The first of some is the first of those of them it is one of.
LEMMA FirstStays ==
  ASSUME NEW some \in SUBSET Purse, NEW fewer \in SUBSET some, FirstOf(some) \in fewer
  PROVE  FirstOf(fewer) = FirstOf(some)
<1>1. FirstOf(fewer) \in fewer /\ FirstOf(fewer) <= FirstOf(some) BY FirstIsLeast
<1>2. FirstOf(some) <= FirstOf(fewer) BY <1>1, FirstIsLeast
<1>3. FirstOf(some) \in Purse /\ FirstOf(fewer) \in Purse BY <1>1
<1>4. Purse \subseteq Nat BY TradeAssumption DEF TradeAssumption, Purse
<1>5. FirstOf(some) \in Nat /\ FirstOf(fewer) \in Nat BY <1>3, <1>4
<1> QED BY <1>1, <1>2, <1>5

\* The best combo is the best of any that it is one of.
LEMMA BestStays ==
  ASSUME NEW profits, NEW fewer, DOMAIN profits \subseteq Combo,
         DOMAIN fewer \subseteq DOMAIN profits,
         \A c \in DOMAIN fewer : fewer[c] = profits[c] /\ fewer[c] \in Fraction,
         BestCombo(profits) \in DOMAIN fewer
  PROVE  BestCombo(fewer) = BestCombo(profits)
<1> DEFINE b == BestCombo(profits)
           c == BestCombo(fewer)
<1>1. IsBest(b, profits) BY BestIsBest
<1>2. IsBest(c, fewer) BY BestIsBest
<1> HIDE DEF b, c
<1>3. IsBest(b, fewer) BY <1>1 DEF IsBest, b
<1>4. fewer[b] \in Fraction /\ fewer[c] \in Fraction /\ b \in Combo /\ c \in Combo
  BY <1>2, <1>3 DEF IsBest
<1>5. ~(Less(fewer[b], fewer[c]) /\ Less(fewer[c], fewer[b])) BY <1>4, OrderLaws
<1>6. b = c BY <1>2, <1>3, <1>5 DEF IsBest, AtMost
<1> QED BY <1>6 DEF b, c

\* The two programs choose the same trade.
LEMMA ChoicesAgree ==
  ASSUME TradeTypes, Funded,
         ChooseTrade.is = "trade" => AtMost(books.minShares, ChooseTrade.quote.shares)
  PROVE  SameTrade(ChooseTrade, choose_trade)
<1> DEFINE sized == [a \in Purse |-> SizedFor(a)]
           resized == [a \in Purse |-> size_allowed_combos(a)]
           ending == {a \in Purse : \E c \in Combo : sized[a][c].result # "rejected"}
           able == {a \in Purse : \E c \in Combo : resized[a][c].result = "sized"}
           a == FirstOf(ending)
           profits == [c \in ExecutableCombos(sized[a]) |-> sized[a][c].quote.profit]
           b == BestCombo(profits)
           r == FirstOf(able)
           net_profits == [c \in ExecutableCombos(resized[r]) |-> resized[r][c].quote.net_profit]
           d == BestCombo(net_profits)
           minShares == books.minShares
<1>1. ChooseTrade = IF ending = {} THEN NoDeal
                    ELSE IF \E c \in Combo : sized[a][c].result = "threw" THEN [is |-> "threw"]
                    ELSE Trade(a, b, sized[a][b])
  BY DEF ChooseTrade
<1>2. choose_trade = IF able = {} THEN NoDeal ELSE Trade(r, d, resized[r][d])
  BY DEF choose_trade
<1>3. ASSUME NEW x \in Purse, NEW c \in Combo
      PROVE  SameSizing(sized[x][c], resized[x][c], minShares)
  BY AccountsAgree
<1>4. ASSUME NEW x \in Purse, NEW c \in Combo
      PROVE  /\ sized[x][c].result # "threw"
             /\ sized[x][c].result # "rejected" => sized[x][c].result = "sized"
             /\ resized[x][c].result = "sized" => sized[x][c].result = "sized"
             /\ sized[x][c].result = "sized" =>
                  /\ SameQuote(sized[x][c].quote, resized[x][c].quote)
                  /\ AtMost(minShares, sized[x][c].quote.shares) => resized[x][c].result = "sized"
  BY <1>3 DEF SameSizing
<1> HIDE DEF sized, resized, minShares
<1>5. able \subseteq ending BY <1>4
<1>6. CASE ending = {}
  <2>1. able = {} BY <1>5, <1>6
  <2>2. ChooseTrade = NoDeal /\ choose_trade = NoDeal BY <1>1, <1>2, <1>6, <2>1
  <2> QED BY <2>2 DEF SameTrade, NoDeal
<1>7. CASE ending # {}
  <2>1. a \in ending /\ a \in Purse BY <1>7, FirstIsLeast
  <2>2. ending \in SUBSET Purse /\ able \in SUBSET ending BY <1>5
  <2>3. PICK e \in Combo : sized[a][e].result # "rejected" BY <2>1
  <2>4. a \in able => r = a BY <2>2, FirstStays
  <2>5. a \in Purse /\ (\E c \in Combo : resized[a][c].result = "sized") => a \in able OBVIOUS
  <2> HIDE DEF a, ending, able, r
  <2>6. ChooseTrade = Trade(a, b, sized[a][b]) BY <1>1, <1>4, <1>7, <2>1
  <2>7. /\ DOMAIN profits = ExecutableCombos(sized[a]) /\ e \in DOMAIN profits
        /\ DOMAIN profits \subseteq Combo
    BY <1>4, <2>1, <2>3 DEF ExecutableCombos
  <2>8. b \in DOMAIN profits
    <3> HIDE DEF profits
    <3> QED BY <2>7, BestIsBest DEF IsBest
  <2>9. b \in Combo /\ sized[a][b].result = "sized" BY <2>7, <2>8 DEF ExecutableCombos
  <2>10. AtMost(minShares, sized[a][b].quote.shares) BY <2>6 DEF Trade, minShares
  <2> HIDE DEF b
  <2>11. resized[a][b].result = "sized" BY <1>4, <2>1, <2>9, <2>10
  <2>12. r = a /\ able # {} BY <2>1, <2>4, <2>5, <2>9, <2>11
  <2>13. /\ DOMAIN net_profits = ExecutableCombos(resized[a])
         /\ DOMAIN net_profits \subseteq DOMAIN profits /\ b \in DOMAIN net_profits
    BY <1>4, <2>1, <2>9, <2>11, <2>12 DEF ExecutableCombos
  <2>14. \A c \in DOMAIN net_profits : /\ net_profits[c] = profits[c]
                                       /\ net_profits[c] \in Fraction
    <3> SUFFICES ASSUME NEW c \in DOMAIN net_profits
                 PROVE  net_profits[c] = profits[c] /\ net_profits[c] \in Fraction
      OBVIOUS
    <3>1. c \in Combo /\ sized[a][c].result = "sized" BY <2>7, <2>13 DEF ExecutableCombos
    <3>2. SameQuote(sized[a][c].quote, resized[a][c].quote) BY <1>4, <2>1, <3>1
    <3>3. net_profits[c] = resized[a][c].quote.net_profit BY <2>12
    <3>4. profits[c] = sized[a][c].quote.profit BY <2>13
    <3> QED BY <3>2, <3>3, <3>4 DEF SameQuote
  <2> HIDE DEF profits, net_profits, d
  <2>15. d = b BY <2>7, <2>13, <2>14, BestStays DEF b, d
  <2>16. choose_trade = Trade(a, b, resized[a][b]) BY <1>2, <2>12, <2>15
  <2>17. SameQuote(sized[a][b].quote, resized[a][b].quote) BY <1>4, <2>1, <2>9
  <2> QED BY <2>6, <2>16, <2>17 DEF Trade, SameTrade, SameQuote
<1> QED BY <1>6, <1>7

\* The inductive invariant.
TradeIInv == TradeTypes /\ WithinBudgets /\ BotsAgree

LEMMA LevelsAreQuoted ==
  ASSUME NEW book \in OneLevel \cup TwoLevels
  PROVE  book \in Seq(Quoted)
<1>1. \A l \in ThinLevels \cup MarketLevels : l \in Quoted
  BY TradeAssumption DEF TradeAssumption
<1>2. CASE book \in OneLevel
  <2>1. PICK l \in ThinLevels : book = <<l>> BY <1>2 DEF OneLevel
  <2> QED BY <1>1, <2>1
<1>3. CASE book \in TwoLevels
  <2>1. PICK l \in MarketLevels, m \in MarketLevels : book = <<l, m>> BY <1>3 DEF TwoLevels
  <2> QED BY <1>1, <2>1
<1> QED BY <1>2, <1>3

LEMMA TradeInitIs == TradeInit => TradeIInv
<1> SUFFICES ASSUME TradeInit PROVE TradeIInv OBVIOUS
<1>1. books \in BookSet /\ funds \in [balance : [Purse -> Balances], collateral : Collaterals]
      /\ choices = Undecided
  BY DEF TradeInit
<1>2. Balances \subseteq Amount /\ Collaterals \subseteq PositiveAmount
  BY TradeAssumption DEF TradeAssumption
<1>3. TradeTypes BY <1>1, <1>2, LevelsAreQuoted DEF TradeTypes, BookSet
<1>4. WithinBudgets /\ BotsAgree BY <1>1 DEF WithinBudgets, BotsAgree, Undecided, NoDeal
<1> QED BY <1>3, <1>4 DEF TradeIInv

LEMMA TradeStep == TradeIInv /\ [TradeNext]_tradeVars => TradeIInv'
<1> SUFFICES ASSUME TradeIInv, [TradeNext]_tradeVars PROVE TradeIInv' OBVIOUS
<1> USE DEF TradeIInv
<1>1. CASE Decide
  <2>1. /\ choices'.risk = ChooseTrade /\ choices'.python = choose_trade
        /\ books' = books /\ funds' = funds
    BY <1>1 DEF Decide
  <2>2. TradeTypes' BY <2>1 DEF TradeTypes
  <2>3. WithinBudgets'
    <3> SUFFICES ASSUME ChooseTrade.is = "trade" PROVE WithinBudgets' BY <2>1 DEF WithinBudgets
    <3>1. InBudget(ChooseTrade.quote, funds.balance[ChooseTrade.account], funds.collateral)
      BY ChoiceIsInBudget
    <3> QED BY <2>1, <3>1 DEF WithinBudgets, InBudget
  <2>4. BotsAgree'
    <3> SUFFICES ASSUME Funded,
                        ChooseTrade.is = "trade" => AtMost(books.minShares, ChooseTrade.quote.shares)
                 PROVE  SameTrade(choices'.risk, choices'.python)
      BY <2>1 DEF BotsAgree, Funded
    <3> QED BY <2>1, ChoicesAgree
  <2> QED BY <2>2, <2>3, <2>4
<1>2. CASE Requote
  <2>1. /\ choices' = Undecided /\ funds' = funds
        /\ \E side \in {"predictBids", "polymarketYes"} :
             \E level \in OneLevel : books' = [books EXCEPT ![side] = level]
    BY <1>2 DEF Requote
  <2>2. TradeTypes' BY <2>1, LevelsAreQuoted DEF TradeTypes
  <2>3. WithinBudgets' /\ BotsAgree' BY <2>1 DEF WithinBudgets, BotsAgree, Undecided, NoDeal
  <2> QED BY <2>2, <2>3
<1>3. CASE UNCHANGED tradeVars
  BY <1>3 DEF tradeVars, TradeTypes, WithinBudgets, BotsAgree
<1> QED BY <1>1, <1>2, <1>3 DEF TradeNext

\* Whatever the books quote and the accounts hold: a trade that RiskManager.chooseTrade
\* makes costs no more than the share of the account's balance and the collateral it may
\* spend, and no more than the cap of a trade (risk/manager.ts:62-107). The budgets are
\* divided by the price of the whole depth, and fewer shares never cost more each.
THEOREM TradesStayWithinBudgets == TradeSpec => []WithinBudgets
<1>1. TradeIInv => WithinBudgets BY DEF TradeIInv
<1> QED BY TradeInitIs, TradeStep, <1>1, PTL DEF TradeSpec

\* RiskManager.chooseTrade (risk/manager.ts:62-107) and choose_trade (risk_manager.py:24-65)
\* make the same trade of any four books, whatever the accounts hold, where no budget is
\* empty and the trade is not below the smallest order of Polymarket: the same account, the
\* same combo, the same shares and the same profit.
THEOREM ProgramsAgree == TradeSpec => []BotsAgree
<1>1. TradeIInv => BotsAgree BY DEF TradeIInv
<1> QED BY TradeInitIs, TradeStep, <1>1, PTL DEF TradeSpec
=================================================================================
