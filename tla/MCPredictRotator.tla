---------------------------- MODULE MCPredictRotator ----------------------------
(* PredictRotator for TLC: sessions are interchangeable, and a behaviour is   *)
(* followed no further once a lock has lapsed, as every property is about     *)
(* accounts whose lock has not.                                               *)
EXTENDS PredictRotator, FiniteSets, TLC

Symmetry == Permutations(Session)

\* Account a has been put out of use before anything happened to it.
OutOfUse(a) ==
  /\ accounts[a] = Disabled(Loaded(FALSE))
  /\ position[a] = "flat" /\ redis[a] = NoSession
  /\ \A s \in Session : pc[s] = "idle" \/ Cur(s) # a
  /\ job.step = "idle" \/ job.account # a

\* Bound, where several accounts are in use: markets stay open, no account starts
\* with open orders or an open position, locks are refused for the first account
\* only, and a behaviour is followed no further once a trade broke off after its
\* fill, the venue rejected a call, an account had too little, or an operator put
\* one out of use or into another status than its selections and trades do.
Plain(a) ==
  /\ position[a] \in {"flat", "open"}
  /\ ~accounts[a].orders
  /\ accounts[a].status \in {"READY", "COOLDOWN", "HELD_OPEN"}
  /\ accounts[a].cooldown => a = 1 /\ accounts[a].status = "COOLDOWN"
  /\ position[a] = "open"
       => \/ accounts[a].held # "none"
          \/ \E s \in Session : pc[s] = "filled" /\ Cur(s) = a
  /\ accounts[a].held = "none" <=> accounts[a].status # "HELD_OPEN"

Bounds == /\ lapsed = {}
          /\ \/ \A a \in Account \ {1} : OutOfUse(a)
             \/ \A a \in Account : Plain(a)
=============================================================================
