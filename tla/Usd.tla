---------------------------------- MODULE Usd ----------------------------------
(***************************************************************************)
(* Amounts of dollars as the TypeScript modules round them: an amount is   *)
(* an integer of quarters of a cent, so that what roundUsd does to the     *)
(* fractions of a cent can be seen.  Binary floating point is abstracted:  *)
(* sums and products of these amounts are exact.                           *)
(***************************************************************************)
EXTENDS Integers, FiniteSetsExt

Cent == 4

WholeCents(x) == x % Cent = 0

\* Math.round(value * 100) / 100: half a cent goes up, of a negative amount too.
RoundUsd(x) == ((x + Cent \div 2) \div Cent) * Cent

Magnitude(x) == IF x < 0 THEN -x ELSE x

\* Math.max(0, x)
AtLeastZero(x) == IF x < 0 THEN 0 ELSE x
================================================================================
