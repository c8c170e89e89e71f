------------------------ MODULE PredictAccountsProofs ------------------------
(* Lemmas about the records of the rotator and what its methods write.       *)
EXTENDS PredictAccounts, TLAPS

(* candidatesFromNext (rotator.ts:152) only ever names configured accounts:  *)
(* its wrap-around stays within the list.                                    *)
LEMMA CandidateType ==
  ASSUME NEW a \in Account, NEW k \in Nat \ {0}
  PROVE  Candidate(a, k) \in Account
<1>1. NumAccounts \in Nat \ {0} BY AccountsAssumption
<1>2. a + k - 1 \in Nat BY DEF Account
<1>3. (a + k - 1) % NumAccounts \in 0..(NumAccounts - 1) BY <1>1, <1>2
<1> QED BY <1>1, <1>3 DEF Candidate, Account

-----------------------------------------------------------------------------
(* The methods of the rotator, on one record.                                *)

\* What a method other than release may do to a record.
Keeps(acc, new) == /\ new \in AccountState
                   /\ acc.held # "none" => new.held # "none"

(* Every method but release (rotator.ts:260) turns a well-formed record into *)
(* one, and leaves a held position on it.                                    *)
LEMMA MethodsKeep ==
  ASSUME NEW acc \in AccountState
  PROVE  /\ Keeps(acc, acc)
         /\ Keeps(acc, Restored(acc))
         /\ \A s \in Session : Keeps(acc, [Reserved(acc) EXCEPT !.lock = s])
         /\ \A p \in Position : Keeps(acc, MarkedHeld(acc, "pending", p))
         /\ \A p \in Position : Keeps(acc, HeldFromPosition(acc, p))
         /\ Keeps(acc, MarkedAwaitingResolution(acc))
         /\ Keeps(acc, MarkedRedeemable(acc))
         /\ Keeps(acc, MarkedRedeeming(acc))
         /\ Keeps(acc, MarkedInsufficient(acc))
         /\ Keeps(acc, MarkedAuthError(acc))
         /\ Keeps(acc, MarkedCooldown(acc))
         /\ Keeps(acc, MarkedSettling(acc))
         /\ Keeps(acc, Disabled(acc))
         /\ \A e \in BOOLEAN : Keeps(acc, RestoredIfSufficient(acc, e))
         /\ Keeps(acc, [acc EXCEPT !.lock = NoSession])
         /\ Keeps(acc, [acc EXCEPT !.cooldown = FALSE])
<1> USE DEF Keeps, AccountState, Status, SkippedStatus
<1>1. Keeps(acc, acc) OBVIOUS
<1>2. Keeps(acc, Restored(acc)) BY DEF Restored
<1>3. \A s \in Session : Keeps(acc, [Reserved(acc) EXCEPT !.lock = s])
  BY DEF Reserved
<1>4. \A p \in Position : Keeps(acc, MarkedHeld(acc, "pending", p))
  BY DEF MarkedHeld, HeldStatus
<1>5. \A p \in Position : Keeps(acc, HeldFromPosition(acc, p))
  BY DEF HeldFromPosition, MarkedHeld, HeldStatus
<1>6. Keeps(acc, MarkedAwaitingResolution(acc)) BY DEF MarkedAwaitingResolution
<1>7. Keeps(acc, MarkedRedeemable(acc)) BY DEF MarkedRedeemable
<1>8. Keeps(acc, MarkedRedeeming(acc)) BY DEF MarkedRedeeming
<1>9. Keeps(acc, MarkedInsufficient(acc)) BY DEF MarkedInsufficient
<1>10. Keeps(acc, MarkedAuthError(acc)) BY DEF MarkedAuthError
<1>11. Keeps(acc, MarkedCooldown(acc)) BY DEF MarkedCooldown
<1>12. Keeps(acc, MarkedSettling(acc)) BY DEF MarkedSettling
<1>13. Keeps(acc, Disabled(acc)) BY DEF Disabled
<1>14. \A e \in BOOLEAN : Keeps(acc, RestoredIfSufficient(acc, e))
  BY DEF RestoredIfSufficient
<1>15. Keeps(acc, [acc EXCEPT !.lock = NoSession]) OBVIOUS
<1>16. Keeps(acc, [acc EXCEPT !.cooldown = FALSE]) OBVIOUS
<1> QED BY <1>1, <1>2, <1>3, <1>4, <1>5, <1>6, <1>7, <1>8, <1>9, <1>10, <1>11,
           <1>12, <1>13, <1>14, <1>15, <1>16

(* release leaves a well-formed record with no held position.                *)
LEMMA ReleaseType ==
  ASSUME NEW acc \in AccountState
  PROVE  Released(acc) \in AccountState
BY DEF Released, AccountState, Status

(* What the methods the coordinator and the jobs use do to the fields their  *)
(* invariants speak of.                                                      *)
LEMMA MethodEffects ==
  ASSUME NEW acc \in AccountState, NEW p \in Position
  PROVE  /\ Reserved(acc) = [acc EXCEPT !.status = "COOLDOWN"]
         /\ \A new \in {HeldFromPosition(acc, p), MarkedHeld(acc, "pending", p)} :
              /\ new.status # "READY" /\ new.held # "none"
              /\ ~new.orders /\ new.cooldown = acc.cooldown
         /\ \A new \in {MarkedAwaitingResolution(acc), MarkedRedeeming(acc)} :
              /\ new.held = acc.held /\ new.orders = acc.orders
              /\ new.cooldown = acc.cooldown
              /\ acc.status # "READY" => new.status # "READY"
              /\ acc.held = "none" => new = acc
         /\ LET new == Released(acc)
            IN /\ new.status = "READY" /\ new.held = "none"
               /\ ~new.orders /\ new.cooldown = acc.cooldown
<1> USE DEF AccountState
<1>1. Reserved(acc) = [acc EXCEPT !.status = "COOLDOWN"] BY DEF Reserved
<1>2. LET new == HeldFromPosition(acc, p)
      IN /\ new.status # "READY" /\ new.held # "none"
         /\ ~new.orders /\ new.cooldown = acc.cooldown
  BY DEF HeldFromPosition, MarkedHeld, HeldStatus
<1>3. LET new == MarkedHeld(acc, "pending", p)
      IN /\ new.status # "READY" /\ new.held # "none"
         /\ ~new.orders /\ new.cooldown = acc.cooldown
  BY DEF MarkedHeld, HeldStatus
<1>4. LET new == MarkedAwaitingResolution(acc)
      IN /\ new.held = acc.held /\ new.orders = acc.orders
         /\ new.cooldown = acc.cooldown
         /\ acc.status # "READY" => new.status # "READY"
         /\ acc.held = "none" => new = acc
  BY DEF MarkedAwaitingResolution
<1>5. LET new == MarkedRedeeming(acc)
      IN /\ new.held = acc.held /\ new.orders = acc.orders
         /\ new.cooldown = acc.cooldown
         /\ acc.status # "READY" => new.status # "READY"
         /\ acc.held = "none" => new = acc
  BY DEF MarkedRedeeming
<1>6. LET new == Released(acc)
      IN /\ new.status = "READY" /\ new.held = "none"
         /\ ~new.orders /\ new.cooldown = acc.cooldown
  BY DEF Released
<1> HIDE DEF AccountState
<1> QED BY <1>1, <1>2, <1>3, <1>4, <1>5, <1>6
=============================================================================
