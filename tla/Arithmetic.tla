----------------------------- MODULE Arithmetic -----------------------------
(* OpenZeppelin's Math as the contracts use it, and the scale of all rates. *)
EXTENDS Integers

\* Math.mulDiv(a, b, c): floor of a*b/c, exact in 512 bits, so no overflow.
MulDiv(a, b, c) == (a * b) \div c

\* Math.mulDiv(a, b, c, Rounding.Ceil).
MulDivUp(a, b, c) == (a * b + c - 1) \div c

Smaller(a, b) == IF a <= b THEN a ELSE b
Larger(a, b)  == IF a >= b THEN a ELSE b

\* Rates are in basis points.
BPS == 10000

=============================================================================
