---------------------------- MODULE PredictRotator ----------------------------
(***************************************************************************)
(* Account selection under concurrency: PredictAccountRotator in           *)
(* src/src/accounts/rotator.ts with the Redis lock of                      *)
(* src/src/locks/redisLocks.ts, beside the jobs of SettlementJobs.         *)
(*                                                                         *)
(* Each session is one caller of selectForTrade followed by the trade it   *)
(* makes with the account it gets.  For each candidate the method awaits   *)
(* the balance, the positions and the reply of Redis; every other session  *)
(* runs between two awaits, and what stands between two awaits is one      *)
(* action.  The list it walks is captured when it is called: records are   *)
(* replaced, never mutated, so the statuses it tests are those of the      *)
(* call, while what it writes goes to the current record.                  *)
(*                                                                         *)
(* External, modelled from how the code uses it: the venue's answers, the  *)
(* Redis server with its key expiry, and the market an account's position  *)
(* is in.                                                                  *)
(***************************************************************************)
EXTENDS SettlementJobs

CONSTANT Operator  \* do people use the setters nothing in src/ calls?

ASSUME OperatorAssumption == Operator \in BOOLEAN

VARIABLES
  lastIndex,  \* account used last
  redis,      \* holder of the key predict_account:{id}
  pc,         \* where each session is
  call,       \* what each session's running selectForTrade has captured
  lapsed      \* history: accounts whose lock expired inside somebody's window

vars == <<accounts, lastIndex, redis, pc, call, job, position, lapsed>>

Selecting == {"asking", "audited", "locking", "granted", "denied"}
Trading   == {"trading", "filled", "unlocking", "unlocked"}

Captured == {"SKIP", "READY", "INSUFFICIENT", "COOLDOWN"}

Call == [at   : Account,                  \* the candidate being looked at
         left : [Account -> Captured],    \* status captured of it and of those
                                          \* still to come, SKIP for the others
         found: Position,                 \* position the venue answered
         handle: Session \cup {NoSession}] \* lock handle releaseLock passes on

NoCall == [at |-> NumAccounts, left |-> [a \in Account |-> "SKIP"], found |-> "flat",
           handle |-> NoSession]

Cur(s) == call[s].at

\* The sessions that hold account a by their own account of things: Redis said
\* OK and they have not yet given the lock back.
Holding(s, a) == pc[s] \in {"granted", "trading", "filled", "unlocking"} /\ Cur(s) = a

\* Between the audit of account a and the reply of Redis.
Auditing(s, a) == pc[s] \in {"audited", "locking"} /\ Cur(s) = a

\* lastIndex = -1, none used yet, stands where having used the last one does.
Init ==
  /\ accounts \in [Account -> {Loaded(o) : o \in BOOLEAN}]
  /\ lastIndex = NumAccounts
  /\ redis = [a \in Account |-> NoSession]
  /\ pc = [s \in Session |-> "idle"]
  /\ call = [s \in Session |-> NoCall]
  /\ job = Idle
  /\ position \in [Account -> {"flat", "open"}]  \* a restart finds open positions
  /\ lapsed = {}

-----------------------------------------------------------------------------
(* selectForTrade *)

End(s) == /\ pc' = [pc EXCEPT ![s] = "idle"]
          /\ call' = [call EXCEPT ![s] = NoCall]

\* The loop goes on to the first candidate after account a that is left, putting
\* a cooled-down one back to READY, or throws NoPredictAccountAvailable when
\* none is.
Continue(s, a, left, accs) ==
  \/ /\ \A b \in Account : left[b] = "SKIP"
     /\ End(s)
     /\ accounts' = accs
  \/ \E k \in 1..NumAccounts :
       LET b == Candidate(a, k) IN
         /\ left[b] # "SKIP"
         /\ \A i \in 1..(k - 1) : left[Candidate(a, i)] = "SKIP"
         /\ pc' = [pc EXCEPT ![s] = "asking"]
         /\ call' = [call EXCEPT ![s] = [at |-> b, left |-> left, found |-> "flat",
                                       handle |-> NoSession]]
         /\ accounts' = IF left[b] = "COOLDOWN"
                        THEN [accs EXCEPT ![b] = Restored(@)] ELSE accs

NextCandidate(s, acc) ==
  Continue(s, Cur(s), [call[s].left EXCEPT ![Cur(s)] = "SKIP"],
           [accounts EXCEPT ![Cur(s)] = acc])

BeginSelection(s) ==
  /\ pc[s] = "idle"
  /\ Continue(s, lastIndex,
              [a \in Account |-> IF Skipped(accounts[a]) THEN "SKIP"
                                 ELSE accounts[a].status],
              accounts)
  /\ UNCHANGED <<lastIndex, redis, job, position, lapsed>>

\* refreshBalance or listUnsettledPositions rejects.
VenueRejects(s) ==
  /\ pc[s] = "asking"
  /\ NextCandidate(s, MarkedAuthError(accounts[Cur(s)]))
  /\ UNCHANGED <<lastIndex, redis, job, position, lapsed>>

\* Mutant: only positions in open markets count as unsettled.
VenueAnswersOpenOnly(s) ==
  /\ pc[s] = "asking"
  /\ pc' = [pc EXCEPT ![s] = "audited"]
  /\ call' = [call EXCEPT ![s].found = IF position[Cur(s)] = "open" THEN "open" ELSE "flat"]
  /\ UNCHANGED <<accounts, lastIndex, redis, job, position, lapsed>>

\* The balance has arrived and the venue evaluates listUnsettledPositions; that
\* answer is still on its way.
VenueAnswers(s) ==
  /\ pc[s] = "asking"
  /\ pc' = [pc EXCEPT ![s] = "audited"]
  /\ call' = [call EXCEPT ![s].found = position[Cur(s)]]
  /\ UNCHANGED <<accounts, lastIndex, redis, job, position, lapsed>>

FindsPosition(s) ==
  /\ pc[s] = "audited"
  /\ call[s].found # "flat"
  /\ NextCandidate(s, HeldFromPosition(accounts[Cur(s)], AtHand(Cur(s), call[s].found)))
  /\ UNCHANGED <<lastIndex, redis, job, position, lapsed>>

FindsTooLittle(s) ==
  /\ pc[s] = "audited"
  /\ call[s].found = "flat"
  /\ NextCandidate(s, MarkedInsufficient(accounts[Cur(s)]))
  /\ UNCHANGED <<lastIndex, redis, job, position, lapsed>>

AskLock(s) ==
  /\ pc[s] = "audited"
  /\ call[s].found = "flat"
  /\ accounts' = IF call[s].left[Cur(s)] = "READY" THEN accounts
                 ELSE [accounts EXCEPT ![Cur(s)] = Restored(@)]
  /\ pc' = [pc EXCEPT ![s] = "locking"]
  /\ UNCHANGED <<lastIndex, redis, call, job, position, lapsed>>

\* Mutant: SET without NX.
SetAlways(s) ==
  /\ pc[s] = "locking"
  /\ redis' = [redis EXCEPT ![Cur(s)] = s]
  /\ pc' = [pc EXCEPT ![s] = "granted"]
  /\ UNCHANGED <<accounts, lastIndex, call, job, position, lapsed>>

\* SET key token PX ttl NX, evaluated by Redis.
SetNX(s) ==
  /\ pc[s] = "locking"
  /\ \/ /\ redis[Cur(s)] = NoSession
        /\ redis' = [redis EXCEPT ![Cur(s)] = s]
        /\ pc' = [pc EXCEPT ![s] = "granted"]
     \/ /\ redis[Cur(s)] # NoSession
        /\ pc' = [pc EXCEPT ![s] = "denied"]
        /\ UNCHANGED redis
  /\ UNCHANGED <<accounts, lastIndex, call, job, position, lapsed>>

LockDenied(s) ==
  /\ pc[s] = "denied"
  /\ NextCandidate(s, MarkedCooldown(accounts[Cur(s)]))
  /\ UNCHANGED <<lastIndex, redis, job, position, lapsed>>

\* The connection to Redis fails while the reply is awaited, before or after Redis
\* evaluated the SET.
LockThrows(s) ==
  /\ pc[s] \in {"locking", "granted", "denied"}
  /\ End(s)
  /\ UNCHANGED <<accounts, lastIndex, redis, job, position, lapsed>>

\* reserve throws when the account is no longer READY: the call fails, and its
\* lock stays in Redis until it expires.
Reserve(s) ==
  /\ pc[s] = "granted"
  /\ \/ /\ IsReady(accounts[Cur(s)])
        /\ accounts' = [accounts EXCEPT ![Cur(s)] = [Reserved(@) EXCEPT !.lock = s]]
        /\ lastIndex' = Cur(s)
        /\ pc' = [pc EXCEPT ![s] = "trading"]
        /\ UNCHANGED call
     \/ /\ ~IsReady(accounts[Cur(s)])
        /\ End(s)
        /\ UNCHANGED <<accounts, lastIndex>>
  /\ UNCHANGED <<redis, job, position, lapsed>>

-----------------------------------------------------------------------------
(* The trade made with the account *)

\* The Predict leg fills on the venue.
Fill(s) ==
  /\ pc[s] = "trading"
  /\ position' = [position EXCEPT ![Cur(s)] = "open"]
  /\ pc' = [pc EXCEPT ![s] = "filled"]
  /\ UNCHANGED <<accounts, lastIndex, redis, call, job, lapsed>>

\* Nothing filled: release puts the account back and forgets the lock handle.
TradeFails(s) ==
  /\ pc[s] = "trading"
  /\ accounts' = [accounts EXCEPT ![Cur(s)] = Released(@)]
  /\ End(s)
  /\ UNCHANGED <<lastIndex, redis, job, position, lapsed>>

\* The fill is recorded; then releaseLock asks Redis to drop the lock by the handle it
\* reads of the record, which has none if somebody released the account meanwhile.
TradeHolds(s) ==
  /\ pc[s] = "filled"
  /\ accounts' = [accounts EXCEPT ![Cur(s)] = MarkedHeld(@, "pending", position[Cur(s)])]
  /\ IF accounts[Cur(s)].lock = NoSession
     THEN End(s)
     ELSE /\ pc' = [pc EXCEPT ![s] = "unlocking"]
          /\ call' = [call EXCEPT ![s].handle = accounts[Cur(s)].lock]
  /\ UNCHANGED <<lastIndex, redis, job, position, lapsed>>

\* The script of RedisLockManager.release: delete the key if the token matches.
RedisRelease(s) ==
  /\ pc[s] = "unlocking"
  /\ redis' = [redis EXCEPT ![Cur(s)] =
                 IF @ = call[s].handle THEN NoSession ELSE @]
  /\ pc' = [pc EXCEPT ![s] = "unlocked"]
  /\ UNCHANGED <<accounts, lastIndex, call, job, position, lapsed>>

DropHandle(s) ==
  /\ pc[s] = "unlocked"
  /\ accounts' = [accounts EXCEPT ![Cur(s)].lock = NoSession]
  /\ End(s)
  /\ UNCHANGED <<lastIndex, redis, job, position, lapsed>>

\* The connection fails while releaseLock awaits the reply: the record keeps its
\* handle.
UnlockThrows(s) ==
  /\ pc[s] \in {"unlocking", "unlocked"}
  /\ End(s)
  /\ UNCHANGED <<accounts, lastIndex, redis, job, position, lapsed>>

\* The trade ends in an exception: nothing is recorded or released.
TradeThrows(s) ==
  /\ pc[s] \in {"trading", "filled"}
  /\ End(s)
  /\ UNCHANGED <<accounts, lastIndex, redis, job, position, lapsed>>

-----------------------------------------------------------------------------
(* Time, the operator and the environment *)

\* The setters nothing in src/ calls: an operator may, at any time.
Administer(a) ==
  /\ Operator
  /\ \/ accounts' = [accounts EXCEPT ![a] = Disabled(@)]
     \/ accounts' = [accounts EXCEPT ![a] = MarkedSettling(@)]
     \/ /\ position[a] = "resolved"
        /\ accounts' = [accounts EXCEPT ![a] = MarkedRedeemable(@)]
     \/ \E enough \in BOOLEAN :
          accounts' = [accounts EXCEPT ![a] = RestoredIfSufficient(@, enough)]
  /\ UNCHANGED <<lastIndex, redis, pc, call, job, position, lapsed>>

CooldownPasses(a) ==
  /\ accounts[a].cooldown
  /\ accounts' = [accounts EXCEPT ![a].cooldown = FALSE]
  /\ UNCHANGED <<lastIndex, redis, pc, call, job, position, lapsed>>

\* The key's time to live runs out.  lapsed records that it did so while a
\* session was relying on it.
LockExpires(a) ==
  /\ redis[a] # NoSession
  /\ redis' = [redis EXCEPT ![a] = NoSession]
  /\ lapsed' = IF \E s \in Session : Holding(s, a) \/ Auditing(s, a)
               THEN lapsed \cup {a} ELSE lapsed
  /\ UNCHANGED <<accounts, lastIndex, pc, call, job, position>>

-----------------------------------------------------------------------------
Select(s) == \/ BeginSelection(s) \/ VenueRejects(s) \/ VenueAnswers(s)
             \/ FindsPosition(s) \/ FindsTooLittle(s)
             \/ AskLock(s) \/ SetNX(s) \/ LockDenied(s) \/ LockThrows(s)
             \/ Reserve(s)

Trade(s) == \/ Fill(s) \/ TradeFails(s) \/ TradeHolds(s) \/ RedisRelease(s)
            \/ DropHandle(s) \/ UnlockThrows(s) \/ TradeThrows(s)

\* Whatever goes on apart from the callers' sessions.
Settlement == /\ \/ RedeemSettled
                 \/ AdvanceHeldStateByTime
                 \/ \E a \in Account : MarketMoves(a)
              /\ UNCHANGED <<lastIndex, redis, pc, call, lapsed>>

Environment == \E a \in Account : Administer(a) \/ CooldownPasses(a) \/ LockExpires(a)

Next == \/ \E s \in Session : Select(s) \/ Trade(s)
        \/ Settlement
        \/ Environment

Spec == Init /\ [][Next]_vars

-----------------------------------------------------------------------------
TypeOK ==
  /\ accounts \in [Account -> AccountState]
  /\ lastIndex \in Account
  /\ redis \in [Account -> Session \cup {NoSession}]
  /\ pc \in [Session -> {"idle"} \cup Selecting \cup Trading]
  /\ call \in [Session -> Call]
  /\ job \in Job
  /\ position \in [Account -> Position]
  /\ lapsed \subseteq Account

(* What keeps callers apart is not the status of an account: reserve leaves no *)
(* cooldown, so every later selection puts the account back to READY while the *)
(* trade runs.  It is the lock, whose owner alone goes on past reserve, and    *)
(* the audit, whose answer stays good until the lock is taken.  The five parts *)
(* below say so; together with TypeOK they are inductive.                      *)

\* Who holds an account owns its lock.
HolderOwnsLock ==
  \A s \in Session : \A a \in Account \ lapsed :
    Holding(s, a) => redis[a] = s

\* An audit that found the account flat stays good until the reply of Redis, or
\* the record shows what was opened since, or the lock of its opener will be
\* refused.
AuditStaysGood ==
  \A s \in Session : \A a \in Account \ lapsed :
    /\ Cur(s) = a
    /\ pc[s] \in {"locking", "granted"} \/ (pc[s] = "audited" /\ call[s].found = "flat")
    => \/ position[a] = "flat"
       \/ accounts[a].held # "none"
       \/ redis[a] \notin {NoSession, s}

\* The account of a trade that has not filled is flat.
TradesFlatAccount ==
  \A s \in Session : \A a \in Account \ lapsed :
    pc[s] = "trading" /\ Cur(s) = a => position[a] = "flat"

\* The lock is given back only once the fill is on record.
UnlocksRecordedFill ==
  \A s \in Session : \A a \in Account \ lapsed :
    pc[s] = "unlocking" /\ Cur(s) = a
    => position[a] = "flat" \/ accounts[a].held # "none"

\* While the job redeems an account nobody trades with it.
RedeemsAlone ==
  \A a \in Account \ lapsed :
    job.step # "idle" /\ job.account = a
    => /\ accounts[a].held # "none"
       /\ \A s \in Session : ~(pc[s] = "trading" /\ Cur(s) = a)
       /\ job.step = "redeemed" => position[a] = "flat"

\* The inductive invariant: the lock and the audit between them guard every use
\* of an account, from the audit of selectForTrade to the end of its trade.
GuardedUse == /\ TypeOK
              /\ HolderOwnsLock
              /\ AuditStaysGood
              /\ TradesFlatAccount
              /\ UnlocksRecordedFill
              /\ RedeemsAlone

-----------------------------------------------------------------------------
\* selectForTrade, its lock and the job together keep an account in one trade at
\* a time, although every selection that begins during the trade puts the
\* account back to READY (rotator.ts:199).
OneTradePerAccount ==
  \A s, t \in Session :
    /\ pc[s] \in {"trading", "filled"}
    /\ pc[t] \in {"trading", "filled"}
    /\ Cur(s) = Cur(t)
    /\ Cur(s) \notin lapsed
    => s = t

\* An account somebody trades with is not READY: README.md:152 says COOLDOWN
\* keeps a recently selected account out.  It does not: reserve sets no
\* cooldownUntil, so the next selection that passes restores the account.
TradingIsNotReady ==
  \A s \in Session :
    pc[s] = "trading" /\ Cur(s) \notin lapsed => ~IsReady(accounts[Cur(s)])

\* An account goes into a trade only if it has no unsettled position on the
\* venue, whatever was opened on it since its positions were audited.
AuditedBeforeUse ==
  [][\A s \in Session :
       /\ pc[s] # "trading" /\ pc'[s] = "trading"
       /\ Cur(s) \notin lapsed
       => position[Cur(s)] = "flat"]_vars

\* A position the rotator knows of stays on the record until the venue has
\* paid it out: not the end of the event, nor another caller's failed trade
\* or stale audit, takes it off.
HeldUntilRedeemed ==
  [][\A a \in Account :
       accounts[a].held # "none" /\ position[a] # "flat" /\ a \notin lapsed
       => accounts'[a].held # "none"]_vars
=============================================================================
