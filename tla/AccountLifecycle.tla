--------------------------- MODULE AccountLifecycle ---------------------------
(***************************************************************************)
(* What the rotator, the coordinator and the jobs promise together of one  *)
(* Predict account (src/docs/RISK.md, "Predict account risk"): it is let   *)
(* to a hedge only while nothing is on the venue, and comes back only when *)
(* the venue shows nothing again.                                          *)
(***************************************************************************)
VARIABLES
  phase,    \* free: can be picked; let: in a hedge, or left there by one that
            \* failed; held: a position is on record; lost: the record is not
            \* what the venue shows
  exposed   \* the venue shows an unsettled position

vars == <<phase, exposed>>

TypeOK == phase \in {"free", "let", "held", "lost"} /\ exposed \in BOOLEAN

Init == \/ phase = "free" /\ exposed = FALSE
        \/ phase = "held" /\ exposed = TRUE

Let == /\ phase = "free"
       /\ phase' = "let"
       /\ UNCHANGED exposed

\* The hedge buys, before or after an audit has put the account on record.
Buy == /\ phase \in {"let", "held"}
       /\ exposed' = TRUE
       /\ UNCHANGED phase

\* A hedge that bought nothing.
Return == /\ phase = "let" /\ ~exposed
          /\ phase' = "free"
          /\ UNCHANGED exposed

Hold == /\ phase = "let" /\ exposed
        /\ phase' = "held"
        /\ UNCHANGED exposed

\* The venue pays only what is on record.
Pay == /\ phase = "held" /\ exposed
       /\ exposed' = FALSE
       /\ UNCHANGED phase

Free == /\ phase = "held" /\ ~exposed
        /\ phase' = "free"
        /\ UNCHANGED exposed

Lose == /\ phase' = "lost"
        /\ exposed' \in BOOLEAN

Next == Let \/ Buy \/ Return \/ Hold \/ Pay \/ Free \/ Lose

Spec == Init /\ [][Next]_vars
=============================================================================
