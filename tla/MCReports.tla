-------------------------------- MODULE MCReports --------------------------------
(* What becomes of the orders of a hedge, and of what is left of it: a        *)
(* behaviour is one of the subject it begins with.                            *)
EXTENDS MCOrderReports, ResidualRescue

VARIABLE subject

mcVars == <<vars, rescueVars, subject>>

MCInit ==
  /\ subject \in {"reports", "rescue"}
  /\ Init
  /\ RescueInit
  /\ subject # "rescue" => bought = [v \in {"predict", "polymarket"} |-> 0]

MCNext == \/ subject = "reports" /\ Next /\ UNCHANGED <<rescueVars, subject>>
          \/ subject = "rescue" /\ RescueNext /\ UNCHANGED <<vars, subject>>

MCSpec == MCInit /\ [][MCNext]_mcVars
=============================================================================
