-------------------------- MODULE MCHedgeCoordinator --------------------------
(* HedgeCoordinator for TLC.                                                 *)
EXTENDS HedgeCoordinator, FiniteSets, TLC

CONSTANT
  BlindToo     \* are behaviours followed after a record has lost the venue?

ASSUME BlindToo \in BOOLEAN

\* Runs are interchangeable.
Symmetry == Permutations(Run)

Bounds == BlindToo \/ blind = {}
=============================================================================
