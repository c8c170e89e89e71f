--------------------------- MODULE PredictAccounts ---------------------------
(***************************************************************************)
(* The records a PredictAccountRotator keeps (src/src/accounts/rotator.ts) *)
(* and the pure part of its methods: what each one writes into the record  *)
(* of one account.  The rotator replaces the record of an account on every *)
(* update, so each method is an operator from a record to a record.        *)
(*                                                                         *)
(* Abstracted: availableBalance, which no rule of the rotator relates to   *)
(* the rest of a record, is chosen where it is compared; of cooldownUntil  *)
(* only whether it is still in the future, an absent one and a past one    *)
(* being treated alike; error texts, the times a record only reports and   *)
(* the terms of a position are left out.                                   *)
(***************************************************************************)
EXTENDS Naturals

CONSTANTS NumAccounts,  \* how many Predict accounts are configured
          Session,      \* lock tokens: one per caller of the rotator
          NoSession     \* lock: undefined

\* The constructor refuses an empty list and more than ten accounts.
ASSUME AccountsAssumption == /\ NumAccounts \in 1..10
                             /\ NoSession \notin Session

Account == 1..NumAccounts

SkippedStatus == {"HELD", "HELD_OPEN", "HELD_AWAITING_RESOLUTION",
                  "HELD_REDEEMABLE", "REDEEMING", "SETTLING", "AUTH_ERROR",
                  "DISABLED"}
Status == SkippedStatus \cup {"READY", "INSUFFICIENT", "COOLDOWN"}

\* The unsettled position of an account on the venue, and how far its market is.
Position == {"flat", "open", "ended", "resolved"}

AccountState ==
  [status   : Status,
   held     : {"none", "pending", "finalized"},  \* heldPosition, by oracleStatus
   orders   : BOOLEAN,                           \* openOrders > 0
   cooldown : BOOLEAN,                           \* cooldownUntil > now
   lock     : Session \cup {NoSession}]

\* candidatesFromNext: the k-th account after account a.
Candidate(a, k) == ((a + k - 1) % NumAccounts) + 1

Loaded(orders) ==
  [status |-> "READY", held |-> "none", orders |-> orders,
   cooldown |-> FALSE, lock |-> NoSession]

-----------------------------------------------------------------------------
(* What the rotator asks of a record. *)

\* Mutant: the held position is not looked at.
IsReadyThoughHeld(acc) == acc.status = "READY" /\ ~acc.orders /\ ~acc.cooldown

IsReady(acc) == /\ acc.status = "READY"
                /\ ~acc.orders
                /\ acc.held = "none"
                /\ ~acc.cooldown

\* selectForTrade passes over the account without asking the venue.
Skipped(acc) == \/ acc.status \in SkippedStatus
                \/ acc.status = "COOLDOWN" /\ acc.cooldown

-----------------------------------------------------------------------------
(* What the rotator's methods write. *)

\* Mutant: reserve moves lastIndex on and leaves the status.
ReservedInPlace(acc) == acc

Reserved(acc) == [acc EXCEPT !.status = "COOLDOWN"]

\* selectForTrade puts a cooled-down or topped-up account back.
Restored(acc) == [acc EXCEPT !.status = "READY", !.cooldown = FALSE]

Released(acc) == [acc EXCEPT !.status = "READY", !.held = "none",
                             !.orders = FALSE, !.lock = NoSession]

HeldStatus(oracle, p) ==
  IF oracle = "finalized" THEN "HELD_REDEEMABLE"
  ELSE IF p = "open" THEN "HELD_OPEN" ELSE "HELD_AWAITING_RESOLUTION"

MarkedHeld(acc, oracle, p) ==
  [acc EXCEPT !.status = HeldStatus(oracle, p), !.held = oracle, !.orders = FALSE]

\* heldFromPosition: the position the venue lists, and what it says of its market.
HeldFromPosition(acc, p) ==
  MarkedHeld(acc, IF p = "resolved" THEN "finalized" ELSE "pending", p)

MarkedAwaitingResolution(acc) ==
  IF acc.held # "none" /\ acc.status \in {"HELD_OPEN", "HELD"}
  THEN [acc EXCEPT !.status = "HELD_AWAITING_RESOLUTION"]
  ELSE acc

MarkedRedeemable(acc) ==
  IF acc.held = "none" THEN acc
  ELSE [acc EXCEPT !.status = "HELD_REDEEMABLE", !.held = "finalized"]

MarkedRedeeming(acc) ==
  IF acc.held = "none" THEN acc ELSE [acc EXCEPT !.status = "REDEEMING"]

MarkedInsufficient(acc) == [acc EXCEPT !.status = "INSUFFICIENT"]

MarkedAuthError(acc) == [acc EXCEPT !.status = "AUTH_ERROR"]

\* Mutant: a cooldown drops the held position.
MarkedCooldownUnheld(acc) ==
  [acc EXCEPT !.status = "COOLDOWN", !.cooldown = TRUE, !.held = "none"]

MarkedCooldown(acc) == [acc EXCEPT !.status = "COOLDOWN", !.cooldown = TRUE]

MarkedSettling(acc) == [acc EXCEPT !.status = "HELD_AWAITING_RESOLUTION"]

Disabled(acc) == [acc EXCEPT !.status = "DISABLED"]

\* restoreIfSufficient looks at the balance only.
RestoredIfSufficient(acc, enough) ==
  [acc EXCEPT !.status = IF enough THEN "READY" ELSE "INSUFFICIENT"]
=============================================================================
