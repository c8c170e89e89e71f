---------------------------- MODULE SettlementJobs ----------------------------
(***************************************************************************)
(* What happens to a held account apart from trading: its market moves on, *)
(* advanceHeldStateByTime follows the clock, and the job of                *)
(* src/src/jobs/redeem-settled.ts redeems and releases.  A module that     *)
(* trades with the accounts extends this one and says what it leaves alone.*)
(*                                                                         *)
(* The job's adapter is external.  Of its candidates it is assumed that    *)
(* they are accounts with a held position, that "redeemable" is what the   *)
(* venue says of a position in a resolved market and "flat" or             *)
(* "alreadyRedeemed" of a position that is gone; one job runs at a time.   *)
(***************************************************************************)
EXTENDS PredictAccounts

VARIABLES
  accounts,   \* the rotator's records
  position,   \* venue: the unsettled position of each account
  job         \* the candidate redeemSettledJob is working on

\* What the rotator makes of a position the venue found earlier: whether the
\* event is over it tells by its own clock (markHeld), whose end it knows.
AtHand(a, found) == IF found = "open" /\ position[a] # "open" THEN "ended" ELSE found

Idle == [account |-> NumAccounts, step |-> "idle"]
Job  == [account : Account, step : {"idle", "redeeming", "redeemed"}]

RedeemBegin(a) ==
  /\ job = Idle
  /\ position[a] = "resolved"
  /\ accounts[a].held # "none"
  /\ accounts' = [accounts EXCEPT ![a] = MarkedRedeeming(@)]
  /\ job' = [account |-> a, step |-> "redeeming"]
  /\ UNCHANGED position

\* The venue pays; the answer is on its way.
RedeemExecutes ==
  /\ job.step = "redeeming"
  /\ position' = [position EXCEPT ![job.account] = "flat"]
  /\ job' = [job EXCEPT !.step = "redeemed"]
  /\ UNCHANGED accounts

\* redeemAndReconcile rejects, before or after the venue paid: the exception
\* leaves the account REDEEMING.
RedeemThrows ==
  /\ job.step # "idle"
  /\ job' = Idle
  /\ UNCHANGED <<accounts, position>>

\* Mutant: the release stands in a finally block.
RedeemReleaseAnyway ==
  /\ job.step # "idle"
  /\ accounts' = [accounts EXCEPT ![job.account] = Released(@)]
  /\ job' = Idle
  /\ UNCHANGED position

RedeemRelease ==
  /\ job.step = "redeemed"
  /\ accounts' = [accounts EXCEPT ![job.account] = Released(@)]
  /\ job' = Idle
  /\ UNCHANGED position

\* A candidate that is not redeemable but flat is released without an await.
ReleaseFlat(a) ==
  /\ job = Idle
  /\ position[a] = "flat"
  /\ accounts[a].held # "none"
  /\ accounts' = [accounts EXCEPT ![a] = Released(@)]
  /\ UNCHANGED <<job, position>>

RedeemSettled == \/ \E a \in Account : RedeemBegin(a) \/ ReleaseFlat(a)
                 \/ RedeemExecutes \/ RedeemThrows \/ RedeemRelease

\* Over all accounts: only those whose event is over are touched.
AdvanceHeldStateByTime ==
  /\ accounts' = [a \in Account |->
                    IF position[a] # "open" THEN MarkedAwaitingResolution(accounts[a])
                    ELSE accounts[a]]
  /\ UNCHANGED <<position, job>>

MarketMoves(a) ==
  /\ \/ position[a] = "open"  /\ position' = [position EXCEPT ![a] = "ended"]
     \/ position[a] = "ended" /\ position' = [position EXCEPT ![a] = "resolved"]
  /\ UNCHANGED <<accounts, job>>
=============================================================================
