------------------------- MODULE PredictRotatorProofs -------------------------
(* Proofs about PredictRotator, for any number of accounts and sessions.     *)
EXTENDS PredictRotator, PredictAccountsProofs, TLAPS

-----------------------------------------------------------------------------
(* What the loop of selectForTrade does when it moves on.                    *)

AccountsKept == /\ accounts' \in [Account -> AccountState]
                /\ \A a \in Account : accounts[a].held # "none" => accounts'[a].held # "none"

\* Session s gives up or goes on to a candidate; the others stand still.
MovesOn(s) == /\ pc' \in [Session -> {"idle"} \cup Selecting \cup Trading]
              /\ call' \in [Session -> Call]
              /\ pc'[s] \in {"idle", "asking"}
              /\ \A t \in Session \ {s} : pc'[t] = pc[t] /\ call'[t] = call[t]
              /\ AccountsKept

(* The loop names a configured account and takes no held position off.       *)
LEMMA ContinueMovesOn ==
  ASSUME TypeOK, NEW s \in Session, NEW a \in Account,
         NEW left \in [Account -> Captured], NEW accs \in [Account -> AccountState],
         \A b \in Account : accounts[b].held # "none" => accs[b].held # "none",
         Continue(s, a, left, accs)
  PROVE  MovesOn(s)
<1> USE DEF MovesOn, AccountsKept, TypeOK
<1>1. CASE /\ pc' = [pc EXCEPT ![s] = "idle"]
           /\ call' = [call EXCEPT ![s] = NoCall]
           /\ accounts' = accs
  <2>1. NoCall \in Call
    BY AccountsAssumption DEF NoCall, Call, Account, Captured, Position
  <2> QED BY <1>1, <2>1
<1>2. ASSUME NEW b \in Account,
             pc' = [pc EXCEPT ![s] = "asking"],
             call' = [call EXCEPT ![s] = [at |-> b, left |-> left, found |-> "flat",
                                          handle |-> NoSession]],
             accounts' = IF left[b] = "COOLDOWN"
                         THEN [accs EXCEPT ![b] = Restored(@)] ELSE accs
      PROVE  MovesOn(s)
  <2>1. [at |-> b, left |-> left, found |-> "flat", handle |-> NoSession] \in Call
    BY DEF Call, Position
  <2>2. pc' \in [Session -> {"idle"} \cup Selecting \cup Trading] /\ pc'[s] = "asking"
    BY <1>2 DEF Selecting
  <2>3. call' \in [Session -> Call] BY <1>2, <2>1
  <2>4. AccountsKept BY <1>2, MethodsKeep DEF Keeps
  <2> QED BY <1>2, <2>2, <2>3, <2>4
<1>3. \A k \in 1..NumAccounts : Candidate(a, k) \in Account BY CandidateType
<1> QED BY <1>1, <1>2, <1>3 DEF Continue, End

(* So does every step of selectForTrade that passes over a candidate.        *)
LEMMA NextCandidateMovesOn ==
  ASSUME TypeOK, NEW s \in Session, NEW acc, Keeps(accounts[Cur(s)], acc),
         NextCandidate(s, acc)
  PROVE  MovesOn(s)
<1>1. Cur(s) \in Account BY DEF TypeOK, Call, Cur
<1>2. [call[s].left EXCEPT ![Cur(s)] = "SKIP"] \in [Account -> Captured]
  BY <1>1 DEF TypeOK, Call, Captured
<1> DEFINE accs == [accounts EXCEPT ![Cur(s)] = acc]
<1>3. /\ accs \in [Account -> AccountState]
      /\ \A b \in Account : accounts[b].held # "none" => accs[b].held # "none"
  BY <1>1 DEF TypeOK, Keeps
<1>4. Continue(s, Cur(s), [call[s].left EXCEPT ![Cur(s)] = "SKIP"], accs)
  BY DEF NextCandidate
<1> HIDE DEF accs
<1> QED BY <1>1, <1>2, <1>3, <1>4, ContinueMovesOn

\* The steps of selectForTrade that begin the loop or pass over a candidate.
Passes(s) == \/ BeginSelection(s) \/ VenueRejects(s) \/ FindsPosition(s)
             \/ FindsTooLittle(s) \/ LockDenied(s)

LEMMA PassesMovesOn ==
  ASSUME TypeOK, NEW s \in Session, Passes(s)
  PROVE  MovesOn(s) /\ UNCHANGED <<lastIndex, redis, job, position, lapsed>>
<1>1. accounts[Cur(s)] \in AccountState /\ call[s].found \in Position
  BY DEF TypeOK, Call, Cur
<1>2. CASE BeginSelection(s)
  <2> DEFINE left == [a \in Account |-> IF Skipped(accounts[a]) THEN "SKIP"
                                        ELSE accounts[a].status]
  <2>1. left \in [Account -> Captured]
    BY DEF TypeOK, AccountState, Status, SkippedStatus, Skipped, Captured
  <2>2. /\ Continue(s, lastIndex, left, accounts)
        /\ UNCHANGED <<lastIndex, redis, job, position, lapsed>>
    BY <1>2 DEF BeginSelection
  <2> HIDE DEF left
  <2> QED BY <2>1, <2>2, ContinueMovesOn DEF TypeOK
<1>3. CASE VenueRejects(s)
  BY <1>1, <1>3, MethodsKeep, NextCandidateMovesOn DEF VenueRejects
<1>4. CASE FindsPosition(s)
  BY <1>1, <1>4, MethodsKeep, NextCandidateMovesOn DEF FindsPosition, AtHand, Position
<1>5. CASE FindsTooLittle(s)
  BY <1>1, <1>5, MethodsKeep, NextCandidateMovesOn DEF FindsTooLittle
<1>6. CASE LockDenied(s)
  BY <1>1, <1>6, MethodsKeep, NextCandidateMovesOn DEF LockDenied
<1> QED BY <1>2, <1>3, <1>4, <1>5, <1>6 DEF Passes

\* What the jobs and the clock leave alone.
Aside == UNCHANGED <<lastIndex, redis, pc, call, lapsed>>

\* The steps that only write records, and the setters among them.
Records == \/ AdvanceHeldStateByTime /\ Aside
           \/ \E a \in Account : Administer(a) \/ CooldownPasses(a)

LEMMA RecordsKeep ==
  ASSUME TypeOK, Records
  PROVE  /\ AccountsKept
         /\ UNCHANGED <<lastIndex, redis, pc, call, job, position, lapsed>>
<1>1. \A a \in Account : accounts[a] \in AccountState BY DEF TypeOK
<1>2. ASSUME AdvanceHeldStateByTime PROVE AccountsKept
  BY <1>1, <1>2, MethodsKeep DEF AdvanceHeldStateByTime, AccountsKept, Keeps
<1>3. ASSUME NEW a \in Account, NEW acc, Keeps(accounts[a], acc),
             accounts' = [accounts EXCEPT ![a] = acc]
      PROVE  AccountsKept
  BY <1>1, <1>3 DEF AccountsKept, Keeps, TypeOK
<1>4. ASSUME NEW a \in Account, Administer(a) PROVE AccountsKept
  BY <1>1, <1>3, <1>4, MethodsKeep DEF Administer
<1>5. ASSUME NEW a \in Account, CooldownPasses(a) PROVE AccountsKept
  <2>1. accounts' = [accounts EXCEPT ![a] = [accounts[a] EXCEPT !.cooldown = FALSE]]
    BY <1>1, <1>5 DEF CooldownPasses
  <2> QED BY <1>1, <1>3, <1>5, <2>1, MethodsKeep
<1>6. UNCHANGED <<lastIndex, redis, pc, call, job, position, lapsed>>
  BY DEF Records, Aside, AdvanceHeldStateByTime, Administer, CooldownPasses
<1> QED BY <1>2, <1>4, <1>5, <1>6 DEF Records

-----------------------------------------------------------------------------
(* Type correctness.                                                         *)

LEMMA InitType == Init => TypeOK
<1> SUFFICES ASSUME Init PROVE TypeOK OBVIOUS
<1> USE AccountsAssumption DEF Init, Account
<1>1. \A o \in BOOLEAN : Loaded(o) \in AccountState
  BY DEF Loaded, AccountState, Status
<1>2. accounts \in [Account -> AccountState] BY <1>1
<1>3. call \in [Session -> Call] BY DEF NoCall, Call, Captured, Position
<1>4. job \in Job BY DEF Idle, Job
<1>5. position \in [Account -> Position] BY DEF Position
<1> QED BY <1>2, <1>3, <1>4, <1>5 DEF TypeOK

(* Every step keeps the type invariant.                                      *)
LEMMA NextType == TypeOK /\ [Next]_vars => TypeOK'
<1> SUFFICES ASSUME TypeOK, [Next]_vars PROVE TypeOK' OBVIOUS
<1>1. \A a \in Account : accounts[a] \in AccountState BY DEF TypeOK
<1>2. \A s \in Session : Cur(s) \in Account BY DEF TypeOK, Call, Cur
<1>3. NoCall \in Call /\ Idle \in Job
  BY AccountsAssumption DEF NoCall, Call, Account, Captured, Position, Idle, Job
<1>4. ASSUME NEW s \in Session, Passes(s) PROVE TypeOK'
  BY <1>4, PassesMovesOn DEF MovesOn, AccountsKept, TypeOK
<1>5. CASE Records
  BY <1>5, RecordsKeep DEF AccountsKept, TypeOK
<1>6. ASSUME NEW s \in Session, VenueAnswers(s) PROVE TypeOK'
  BY <1>2, <1>6 DEF VenueAnswers, TypeOK, Call, Selecting
<1>7. ASSUME NEW s \in Session, AskLock(s) PROVE TypeOK'
  BY <1>1, <1>2, <1>7, MethodsKeep DEF AskLock, TypeOK, Selecting, Keeps
<1>8. ASSUME NEW s \in Session, SetNX(s) PROVE TypeOK'
  BY <1>2, <1>8 DEF SetNX, TypeOK, Selecting
<1>9. ASSUME NEW s \in Session, Reserve(s) PROVE TypeOK'
  BY <1>1, <1>2, <1>3, <1>9, MethodsKeep DEF Reserve, End, TypeOK, Trading, Keeps
<1>10. ASSUME NEW s \in Session, Fill(s) PROVE TypeOK'
  BY <1>2, <1>10 DEF Fill, TypeOK, Trading, Position
<1>11. ASSUME NEW s \in Session, TradeFails(s) PROVE TypeOK'
  BY <1>1, <1>2, <1>3, <1>11, ReleaseType DEF TradeFails, End, TypeOK
<1>12. ASSUME NEW s \in Session, TradeHolds(s) PROVE TypeOK'
  <2>1. accounts' \in [Account -> AccountState]
    BY <1>1, <1>2, <1>12, MethodsKeep DEF TradeHolds, TypeOK, Keeps
  <2>2. pc' \in [Session -> {"idle"} \cup Selecting \cup Trading]
    BY <1>12 DEF TradeHolds, End, TypeOK, Trading
  <2>3. call' \in [Session -> Call]
    <3>1. accounts[Cur(s)].lock \in Session \cup {NoSession}
      BY <1>1, <1>2 DEF AccountState
    <3>2. [call[s] EXCEPT !.handle = accounts[Cur(s)].lock] \in Call
      BY <3>1 DEF TypeOK, Call
    <3>3. \/ call' = [call EXCEPT ![s] = NoCall]
          \/ call' = [call EXCEPT ![s] = [call[s] EXCEPT !.handle = accounts[Cur(s)].lock]]
      BY <1>12 DEF TradeHolds, End, TypeOK
    <3> QED BY <1>3, <3>2, <3>3 DEF TypeOK
  <2> QED BY <1>12, <2>1, <2>2, <2>3 DEF TradeHolds, TypeOK
<1>13. ASSUME NEW s \in Session, RedisRelease(s) PROVE TypeOK'
  BY <1>2, <1>13 DEF RedisRelease, TypeOK, Trading
<1>14. ASSUME NEW s \in Session, DropHandle(s) PROVE TypeOK'
  <2>1. accounts' = [accounts EXCEPT ![Cur(s)] = [accounts[Cur(s)] EXCEPT !.lock = NoSession]]
    BY <1>1, <1>2, <1>14 DEF DropHandle
  <2> QED BY <1>1, <1>2, <1>3, <1>14, <2>1, MethodsKeep DEF DropHandle, End, TypeOK, Keeps
<1>15. ASSUME NEW s \in Session, LockThrows(s) \/ UnlockThrows(s) \/ TradeThrows(s)
       PROVE  TypeOK'
  BY <1>3, <1>15 DEF LockThrows, UnlockThrows, TradeThrows, End, TypeOK
<1> USE DEF Aside
<1>16. ASSUME NEW a \in Account, RedeemBegin(a), Aside PROVE TypeOK'
  BY <1>1, <1>16, MethodsKeep DEF RedeemBegin, TypeOK, Job, Keeps
<1>17. CASE RedeemExecutes /\ Aside
  BY <1>17 DEF RedeemExecutes, TypeOK, Job, Position
<1>18. CASE RedeemThrows /\ Aside
  BY <1>3, <1>18 DEF RedeemThrows, TypeOK
<1>19. CASE RedeemRelease /\ Aside
  BY <1>1, <1>3, <1>19, ReleaseType DEF RedeemRelease, TypeOK, Job
<1>23. ASSUME NEW a \in Account, ReleaseFlat(a), Aside PROVE TypeOK'
  BY <1>1, <1>23, ReleaseType DEF ReleaseFlat, TypeOK
<1>20. ASSUME NEW a \in Account, LockExpires(a) PROVE TypeOK'
  BY <1>20 DEF LockExpires, TypeOK
<1>21. ASSUME NEW a \in Account, MarketMoves(a), Aside PROVE TypeOK'
  BY <1>21 DEF MarketMoves, TypeOK, Position
<1>22. CASE UNCHANGED vars BY <1>22 DEF vars, TypeOK
<1> QED
  BY <1>4, <1>5, <1>6, <1>7, <1>8, <1>9, <1>10, <1>11, <1>12, <1>13, <1>14, <1>15,
     <1>16, <1>17, <1>18, <1>19, <1>20, <1>21, <1>22, <1>23
  DEF Next, Select, Trade, Settlement, RedeemSettled, Environment, Passes, Records

(* The records, the lock table, the captured candidates and the job's        *)
(* candidate keep their shape whatever the callers do (rotator.ts).          *)
THEOREM TypeCorrect == Spec => []TypeOK
BY InitType, NextType, PTL DEF Spec

-----------------------------------------------------------------------------
(* The invariant behind mutual exclusion, and the properties that follow.    *)

Guards == /\ HolderOwnsLock /\ AuditStaysGood /\ TradesFlatAccount
          /\ UnlocksRecordedFill /\ RedeemsAlone

(* At the start nobody holds anything.                                       *)
LEMMA InitGuards == Init => Guards
BY DEF Init, Guards, HolderOwnsLock, AuditStaysGood, TradesFlatAccount,
       UnlocksRecordedFill, RedeemsAlone, Holding, Cur, NoCall, Idle

(* Every step keeps the guards of an account whose lock has not lapsed.      *)
LEMMA NextGuards == TypeOK /\ Guards /\ [Next]_vars => Guards'
<1> SUFFICES ASSUME TypeOK, Guards, [Next]_vars PROVE Guards' OBVIOUS
<1>1. \A a \in Account : accounts[a] \in AccountState BY DEF TypeOK
<1>2. \A s \in Session : Cur(s) \in Account BY DEF TypeOK, Call, Cur
<1>3. TypeOK' BY NextType
<1>4. ASSUME NEW s \in Session, Passes(s) PROVE Guards'
  <2>1. MovesOn(s) /\ UNCHANGED <<lastIndex, redis, job, position, lapsed>>
    BY <1>4, PassesMovesOn
  <2> QED BY <2>1 DEF MovesOn, AccountsKept, Guards, HolderOwnsLock, AuditStaysGood,
             TradesFlatAccount, UnlocksRecordedFill, RedeemsAlone, Holding, Cur
<1>5. CASE Records
  BY <1>5, RecordsKeep DEF AccountsKept, Guards, HolderOwnsLock, AuditStaysGood,
     TradesFlatAccount, UnlocksRecordedFill, RedeemsAlone, Holding, Cur
<1> USE DEF Guards, HolderOwnsLock, AuditStaysGood, TradesFlatAccount,
            UnlocksRecordedFill, RedeemsAlone, Holding, Cur
<1>6. ASSUME NEW s \in Session, VenueAnswers(s) PROVE Guards'
  BY <1>2, <1>6 DEF VenueAnswers, TypeOK, Call
<1>7. ASSUME NEW s \in Session, AskLock(s) PROVE Guards'
  <2>1. \A a \in Account : accounts[a].held # "none" => accounts'[a].held # "none"
    BY <1>1, <1>2, <1>7, MethodsKeep DEF AskLock, TypeOK, Keeps
  <2>2. /\ pc[s] = "audited" /\ call[s].found = "flat"
        /\ pc' = [pc EXCEPT ![s] = "locking"]
        /\ UNCHANGED <<redis, call, job, position, lapsed>>
    BY <1>7 DEF AskLock
  <2> QED BY <2>1, <2>2 DEF TypeOK
<1>8. ASSUME NEW s \in Session, SetNX(s) PROVE Guards'
  BY <1>2, <1>8, AccountsAssumption DEF SetNX, TypeOK
<1>9. ASSUME NEW s \in Session, Reserve(s) PROVE Guards'
  BY <1>1, <1>2, <1>9, AccountsAssumption, MethodsKeep DEF Reserve, End, TypeOK, Keeps, IsReady
<1>10. ASSUME NEW s \in Session, Fill(s) PROVE Guards'
  BY <1>2, <1>10, AccountsAssumption DEF Fill, TypeOK
<1>11. ASSUME NEW s \in Session, TradeFails(s) PROVE Guards'
  BY <1>1, <1>2, <1>11 DEF TradeFails, End, TypeOK, Released
<1>12. ASSUME NEW s \in Session, TradeHolds(s) PROVE Guards'
  <2>1. /\ accounts'[Cur(s)].held = "pending"
        /\ \A a \in Account \ {Cur(s)} : accounts'[a] = accounts[a]
    BY <1>1, <1>2, <1>12 DEF TradeHolds, TypeOK, AccountState, MarkedHeld
  <2>2. /\ pc[s] = "filled" /\ pc'[s] \in {"idle", "unlocking"}
        /\ \A t \in Session \ {s} : pc'[t] = pc[t] /\ call'[t] = call[t]
        /\ pc'[s] = "unlocking" => call'[s].at = call[s].at
        /\ UNCHANGED <<redis, job, position, lapsed>>
    BY <1>12 DEF TradeHolds, End, TypeOK, Call
  <2> QED BY <1>2, <2>1, <2>2
<1>13. ASSUME NEW s \in Session, RedisRelease(s) PROVE Guards'
  BY <1>2, <1>13 DEF RedisRelease, TypeOK
<1>14. ASSUME NEW s \in Session, DropHandle(s) PROVE Guards'
  BY <1>1, <1>2, <1>14, MethodsKeep DEF DropHandle, End, TypeOK, Keeps
<1>15. ASSUME NEW s \in Session, LockThrows(s) \/ UnlockThrows(s) \/ TradeThrows(s)
       PROVE  Guards'
  BY <1>15 DEF LockThrows, UnlockThrows, TradeThrows, End, TypeOK
<1> USE DEF Aside
<1>16. ASSUME NEW a \in Account, RedeemBegin(a), Aside PROVE Guards'
  BY <1>1, <1>16, MethodsKeep DEF RedeemBegin, TypeOK, Keeps
<1>17. CASE RedeemExecutes /\ Aside
  BY <1>17 DEF RedeemExecutes, TypeOK, Job
<1>18. CASE RedeemThrows /\ Aside
  BY <1>18 DEF RedeemThrows, TypeOK, Idle
<1>19. CASE RedeemRelease /\ Aside
  BY <1>1, <1>19 DEF RedeemRelease, TypeOK, Job, Idle, Released
<1>23. ASSUME NEW a \in Account, ReleaseFlat(a), Aside PROVE Guards'
  BY <1>1, <1>23 DEF ReleaseFlat, TypeOK, Idle, Released
<1>20. ASSUME NEW a \in Account, LockExpires(a) PROVE Guards'
  BY <1>20 DEF LockExpires, TypeOK, Auditing
<1>21. ASSUME NEW a \in Account, MarketMoves(a), Aside PROVE Guards'
  BY <1>21 DEF MarketMoves, TypeOK
<1>22. CASE UNCHANGED vars BY <1>22 DEF vars
<1> QED
  BY <1>4, <1>5, <1>6, <1>7, <1>8, <1>9, <1>10, <1>11, <1>12, <1>13, <1>14, <1>15,
     <1>16, <1>17, <1>18, <1>19, <1>20, <1>21, <1>22, <1>23
  DEF Next, Select, Trade, Settlement, RedeemSettled, Environment, Passes, Records

(* The lock and the audit guard every use of an account from the audit of    *)
(* selectForTrade (rotator.ts:215) to the end of the trade.                  *)
THEOREM UseIsGuarded == Spec => []GuardedUse
<1>1. Init => GuardedUse BY InitType, InitGuards DEF GuardedUse, Guards
<1>2. GuardedUse /\ [Next]_vars => GuardedUse'
  BY NextType, NextGuards DEF GuardedUse, Guards
<1> QED BY <1>1, <1>2, PTL DEF Spec

(* No two callers of selectForTrade trade with one account at a time, unless *)
(* its lock expired under one of them.                                       *)
THEOREM Exclusion == Spec => []OneTradePerAccount
<1>1. GuardedUse => OneTradePerAccount
  BY DEF GuardedUse, HolderOwnsLock, OneTradePerAccount, Holding, TypeOK, Call, Cur
<1> QED BY <1>1, UseIsGuarded, PTL

(* An account enters a trade only with no unsettled position on the venue,   *)
(* however late the answer of its audit arrived.                             *)
THEOREM AuditBeforeUse == Spec => AuditedBeforeUse
<1> DEFINE A == \A s \in Session :
                  /\ pc[s] # "trading" /\ pc'[s] = "trading"
                  /\ Cur(s) \notin lapsed
                  => position[Cur(s)] = "flat"
<1>1. GuardedUse /\ [Next]_vars => [A]_vars
  <2> SUFFICES ASSUME GuardedUse, Next, NEW s \in Session,
                      pc[s] # "trading", pc'[s] = "trading", Cur(s) \notin lapsed
               PROVE  position[Cur(s)] = "flat"
    OBVIOUS
  <2> USE DEF GuardedUse, TypeOK
  <2>1. Cur(s) \in Account BY DEF Call, Cur
  <2>2. \A t \in Session : Passes(t) => pc'[s] # "trading"
    BY PassesMovesOn DEF MovesOn
  <2>3. Records => pc'[s] # "trading" BY RecordsKeep
  <2>4. ~UNCHANGED pc OBVIOUS
  <2>5. PICK t \in Session : Select(t) \/ Trade(t)
    BY <2>4 DEF Next, Settlement, Environment, Administer, CooldownPasses, LockExpires
  <2>6. Reserve(t)
    BY <2>2, <2>5 DEF Select, Passes, VenueAnswers, AskLock, SetNX, Trade, Fill,
       TradeFails, TradeHolds, End, RedisRelease, DropHandle, LockThrows, UnlockThrows,
       TradeThrows
  <2>7. t = s /\ pc[s] = "granted" /\ IsReady(accounts[Cur(s)])
    BY <2>6 DEF Reserve, End
  <2> QED BY <2>1, <2>7 DEF AuditStaysGood, HolderOwnsLock, Holding, IsReady
<1> QED BY <1>1, UseIsGuarded, PTL DEF Spec, AuditedBeforeUse

(* A position the rotator knows of stays on the record until the venue has   *)
(* paid it out: release (rotator.ts:260) is called only then.                *)
THEOREM HeldStays == Spec => HeldUntilRedeemed
<1> DEFINE A == \A a \in Account :
                  accounts[a].held # "none" /\ position[a] # "flat" /\ a \notin lapsed
                  => accounts'[a].held # "none"
<1>1. GuardedUse /\ [Next]_vars => [A]_vars
  <2> SUFFICES ASSUME GuardedUse, Next, NEW a \in Account,
                      accounts[a].held # "none", position[a] # "flat", a \notin lapsed
               PROVE  accounts'[a].held # "none"
    OBVIOUS
  <2>1. \A b \in Account : accounts[b] \in AccountState BY DEF GuardedUse, TypeOK
  <2>2. \A s \in Session : Cur(s) \in Account BY DEF GuardedUse, TypeOK, Call, Cur
  <2>3. ASSUME NEW s \in Session, Passes(s) PROVE accounts'[a].held # "none"
    BY <2>3, PassesMovesOn DEF GuardedUse, MovesOn, AccountsKept
  <2>4. CASE Records BY <2>4, RecordsKeep DEF GuardedUse, AccountsKept
  <2> USE DEF GuardedUse, TypeOK
  <2>5. ASSUME NEW s \in Session, TradeFails(s) PROVE accounts'[a].held # "none"
    BY <2>2, <2>5 DEF TradeFails, TradesFlatAccount
  <2>6. CASE RedeemRelease
    BY <2>6 DEF RedeemRelease, RedeemsAlone, Job
  <2>11. ASSUME NEW b \in Account, ReleaseFlat(b) PROVE accounts'[a].held # "none"
    BY <2>11 DEF ReleaseFlat
  <2>7. ASSUME NEW s \in Session, AskLock(s) \/ Reserve(s) \/ TradeHolds(s)
        PROVE  accounts'[a].held # "none"
    <3> DEFINE acc == accounts[Cur(s)]
    <3>1. \/ accounts' = accounts
          \/ accounts' = [accounts EXCEPT ![Cur(s)] = Restored(acc)]
          \/ accounts' = [accounts EXCEPT ![Cur(s)] = [Reserved(acc) EXCEPT !.lock = s]]
          \/ accounts' = [accounts EXCEPT ![Cur(s)] =
                            MarkedHeld(acc, "pending", position[Cur(s)])]
      BY <2>7 DEF AskLock, Reserve, TradeHolds
    <3>2. /\ Keeps(acc, Restored(acc))
          /\ Keeps(acc, [Reserved(acc) EXCEPT !.lock = s])
          /\ Keeps(acc, MarkedHeld(acc, "pending", position[Cur(s)]))
      BY <2>1, <2>2, MethodsKeep
    <3> QED BY <2>1, <2>2, <3>1, <3>2 DEF Keeps
  <2>8. ASSUME NEW s \in Session, DropHandle(s) PROVE accounts'[a].held # "none"
    BY <2>1, <2>2, <2>8 DEF DropHandle, AccountState
  <2>9. ASSUME NEW b \in Account, RedeemBegin(b) PROVE accounts'[a].held # "none"
    BY <2>1, <2>9, MethodsKeep DEF RedeemBegin, Keeps
  <2>10. CASE UNCHANGED accounts BY <2>10
  <2> QED
    BY <2>3, <2>4, <2>5, <2>6, <2>7, <2>8, <2>9, <2>10, <2>11
    DEF Next, Select, Trade, Settlement, RedeemSettled, Environment, Passes, Records,
        Aside, VenueAnswers, SetNX, Fill, RedisRelease, LockThrows, UnlockThrows, TradeThrows,
        RedeemExecutes, RedeemThrows, LockExpires, MarketMoves
<1> QED BY <1>1, UseIsGuarded, PTL DEF Spec, HeldUntilRedeemed
=============================================================================
