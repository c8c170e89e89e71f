------------------------------- MODULE Fractions -------------------------------
(***************************************************************************)
(* Exact fractions for the decimals of the sizing code: decimal.js on one  *)
(* side, Python's decimal on the other. Both carry many more digits than   *)
(* the sizes, prices and rates of an instance need, so a fraction stands   *)
(* for either. A fraction is <<numerator, denominator>> in lowest terms.   *)
(***************************************************************************)
EXTENDS Integers

gcd[p \in Nat \X Nat] == IF p[2] = 0 THEN p[1] ELSE gcd[<<p[2], p[1] % p[2]>>]

Reduced(n, d, g) == <<n \div g, d \div g>>

Frac(n, d) == Reduced(n, d, gcd[<<IF n < 0 THEN -n ELSE n, d>>])

\* The fractions: what is its own lowest terms.
Fraction == {x \in Int \X (Nat \ {0}) : Frac(x[1], x[2]) = x}

Zero == <<0, 1>>
One  == <<1, 1>>

Mul(x, y) == Frac(x[1] * y[1], x[2] * y[2])
Div(x, y) == Mul(x, <<y[2], y[1]>>)   \* by a positive y

Add(x, y) == Frac(x[1] * y[2] + y[1] * x[2], x[2] * y[2])
Sub(x, y) == Add(x, <<-y[1], y[2]>>)

Less(x, y) == x[1] * y[2] < y[1] * x[2]
AtMost(x, y) == ~Less(y, x)
Amount == {x \in Fraction : AtMost(Zero, x)}     \* what can be held or charged
PositiveAmount == {x \in Fraction : Less(Zero, x)}

Smaller(x, y) == IF Less(y, x) THEN y ELSE x
Least(S) == CHOOSE x \in S : \A y \in S : AtMost(x, y)
=============================================================================
