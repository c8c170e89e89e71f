------------------------------ MODULE MCOrderFeed ------------------------------
(* Bounds for TLC.                                                           *)
EXTENDS OrderFeed, FiniteSets

CONSTANTS MaxHandling,  \* accepted events that are being applied at a time
          Quiet         \* orders of which nothing is heard: only the job looks at them

ASSUME MCAssumption == MaxHandling \in Nat /\ Quiet \subseteq Order

Bounds == /\ Cardinality(handling) <= MaxHandling
          /\ \A o \in Quiet : emitted[o] = 0
=============================================================================
