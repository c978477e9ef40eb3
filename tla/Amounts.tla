------------------------------ MODULE Amounts ------------------------------
(***************************************************************************)
(* Amounts of an ingredient, in half thousandths of its unit, so that what *)
(* round3 does to a tie can be seen.                                       *)
(***************************************************************************)
EXTENDS Integers

CONSTANT
  Exact         \* level up to which a PostgreSQL real tells thousandths apart

\* 16384 of any unit: above it the neighbours of a real are 1/512 apart.
ASSUME ExactAssumption == Exact \in Nat /\ Exact % 4 = 0

\* math.Round: half away from zero.
round3(n) == IF n >= 0 THEN 2 * ((n + 1) \div 2) ELSE -(2 * ((1 - n) \div 2))

\* math.Max(0, n)
AtLeast0(n) == IF n < 0 THEN 0 ELSE n

\* math.Min(a, b)
Lesser(a, b) == IF a < b THEN a ELSE b

\* What is left of a level by storing it as a real: every second thousandth
\* beyond Exact.  The next doubling of the gap is out of the model's reach.
float32(n) == IF n <= Exact THEN n ELSE 4 * ((n + 2) \div 4)

\* The levels a row can hold.
Stored == {n \in Nat : n % 2 = 0 /\ float32(n) = n}
=============================================================================
