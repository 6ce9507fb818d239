------------------------------ MODULE Doubles ------------------------------
(***************************************************************************)
(* Prices, costs and sums of money as C computes them: doubles, of which   *)
(* there are fewer the larger the amounts, and every product or sum is     *)
(* rounded to one of them.  A double is an integer here, counted in        *)
(* 1/Scale of an OMG coin; from u * Half on, doubles are u apart, for each *)
(* u in Spacings.  IEEE 754 is Scale = 2^1074, Half = 2^52 and the powers  *)
(* of two up to Scale/8 as Spacings, exact below 2^50 coins, and an int    *)
(* has no more than 2^31.  Infinities and NaN are left out.                *)
(***************************************************************************)
EXTENDS Integers, FiniteSetsExt

CONSTANTS
  Scale,     \* the grain of a double: 1/Scale of an OMG coin
  Spacings,  \* how far apart doubles may be
  Half       \* the first double of a spacing, in that spacing

\* A coin is 8 spacings or a multiple of it, and every spacing is a multiple of the
\* smaller ones.
ASSUME DoublesAssumption ==
  /\ Scale \in Nat \ {0} /\ Half \in Nat \ {0}
  /\ 1 \in Spacings /\ Spacings \subseteq Nat \ {0}
  /\ \A u \in Spacings : \E k \in 1..Scale : Scale = 8 * k * u
  /\ \A u, v \in Spacings : u <= v => \E k \in 1..v : v = k * u

Magnitude(n) == IF n < 0 THEN -n ELSE n

\* How far apart doubles are at n.
Ulp(n) == Max({u \in Spacings : u = 1 \/ u * Half <= Magnitude(n)})

\* The nearer of the two multiples of u around n, of equally near ones the even.
Nearest(n, u) ==
  LET k == n \div u
      r == n - k * u
  IN  IF 2 * r < u \/ (2 * r = u /\ k % 2 = 0) THEN k * u ELSE (k + 1) * u

\* The double that a product or a sum of exact value n/Scale becomes.
Round(n) == Nearest(n, Ulp(n))

\* (int) of the double n/Scale: the fraction is cut off.
Trunc(n) == IF n >= 0 THEN n \div Scale ELSE -((-n) \div Scale)
=============================================================================
