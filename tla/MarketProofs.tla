--------------------------- MODULE MarketProofs ---------------------------
(*************************************************************************)
(* Theorems about the order book, for all sets of sessions, users,       *)
(* coins, quantities and prices and for every schedule: the types, who   *)
(* holds what while a command runs, and two results that rest on         *)
(* BookInv. Table orders implements Book, and the trades the marketplace *)
(* writes are trades of compatible orders in time order, because a       *)
(* session that settles a trade holds a snapshot with the terms of the   *)
(* row it will write back, for as long as the row exists.                *)
(*************************************************************************)
EXTENDS MarketProps, TLAPS, WellFoundedInduction

-----------------------------------------------------------------------------
(* Doubles *)

\* A set of natural numbers has a least one.
LEMMA NatMin ==
  ASSUME NEW T, T \subseteq Nat, T # {}
  PROVE  \E x \in T : \A y \in T : x <= y
<1> DEFINE R == OpToRel(<, Nat)
<1>1. IsWellFoundedOn(R, Nat)
  BY NatLessThanWellFounded
<1>2. \A x, y \in Nat : y < x => <<y, x>> \in R
  BY DEF OpToRel
<1> HIDE DEF R
<1>3. PICK x \in T : \A y \in T : <<y, x>> \notin R
  BY <1>1, WFMin
<1>4. ASSUME NEW y \in T
      PROVE  x <= y
  <2>1. x \in Nat /\ y \in Nat
    OBVIOUS
  <2>2. ~(y < x)
    BY <1>2, <1>3, <2>1
  <2> QED
    BY <2>1, <2>2
<1> QED
  BY <1>4

\* n \div u is the quotient.
LEMMA Quotient ==
  ASSUME NEW n \in Int, NEW u \in Nat \ {0}
  PROVE  /\ n \div u \in Int
         /\ (n \div u) * u <= n /\ n < (n \div u + 1) * u
<1>1. /\ n \div u \in Int
      /\ u * (n \div u) <= n /\ n < u * (n \div u) + u
  OBVIOUS
<1> DEFINE k == n \div u
<1>2. k \in Int /\ u * k <= n /\ n < u * k + u
  BY <1>1
<1> HIDE DEF k
<1>3. k * u = u * k /\ (k + 1) * u = u * k + u
  BY <1>2
<1>4. k * u <= n /\ n < (k + 1) * u
  BY <1>2, <1>3
<1> QED
  BY <1>2, <1>4 DEF k

\* Multiples of u compare as their factors do.
LEMMA Factors ==
  ASSUME NEW u \in Nat \ {0}, NEW a \in Int, NEW b \in Int, a * u < (b + 1) * u
  PROVE  a <= b /\ a * u <= b * u
<1>1. CASE b + 1 <= a
  <2>1. (b + 1) * u <= a * u
    BY <1>1
  <2> QED
    BY <2>1
<1>2. CASE a <= b
  BY <1>2
<1> QED
  BY <1>1, <1>2

\* A coin is at least 8 spacings, and a whole number of them.
LEMMA SpacingOfCoin ==
  ASSUME NEW u \in Spacings
  PROVE  /\ u \in Nat \ {0} /\ 8 * u <= Scale
         /\ \E j \in Nat : Scale = j * u
<1>1. u \in Nat \ {0} /\ Scale \in Nat \ {0}
  BY DoublesAssumption
<1>2. PICK k \in 1..Scale : Scale = 8 * k * u
  BY DoublesAssumption
<1>3. k \in Nat /\ k >= 1 /\ Scale = (8 * u) * k /\ Scale = (8 * k) * u
  BY <1>1, <1>2
<1>4. 8 * u <= (8 * u) * k
  BY <1>1, <1>3
<1> QED
  BY <1>1, <1>3, <1>4

\* Ulp(n) is the largest spacing doubles have at n.
LEMMA UlpType ==
  ASSUME NEW n \in Int
  PROVE  /\ Ulp(n) \in Spacings
         /\ Ulp(n) = 1 \/ Ulp(n) * Half <= Magnitude(n)
         /\ \A v \in Spacings : v * Half <= Magnitude(n) => v <= Ulp(n)
<1> DEFINE S == {u \in Spacings : u = 1 \/ u * Half <= Magnitude(n)}
           T == {Scale - u : u \in S}
<1>1. S \subseteq Spacings /\ 1 \in S
  BY DoublesAssumption
<1>2. \A u \in S : u \in Nat /\ u <= Scale
  BY <1>1, SpacingOfCoin, DoublesAssumption
<1>3. T \subseteq Nat /\ T # {}
  BY <1>1, <1>2, DoublesAssumption
<1>4. PICK x \in T : \A y \in T : x <= y
  BY <1>3, NatMin
<1>5. PICK w \in S : x = Scale - w
  BY <1>4
<1>6. \A u \in S : w >= u
  <2> SUFFICES ASSUME NEW u \in S PROVE w >= u
    OBVIOUS
  <2>1. Scale - u \in T
    OBVIOUS
  <2>2. Scale - w <= Scale - u
    BY <1>4, <1>5, <2>1
  <2> QED
    BY <1>2, <2>2, DoublesAssumption
<1>7. Ulp(n) = Max(S)
  BY DEF Ulp
<1> HIDE DEF S
<1>8. Max(S) \in S /\ \A u \in S : Max(S) >= u
  BY <1>6 DEF Max
<1>9. Ulp(n) \in S /\ \A u \in S : Ulp(n) >= u
  BY <1>7, <1>8
<1>10. \A u \in S : u <= Ulp(n)
  BY <1>2, <1>9
<1> QED
  BY <1>9, <1>10 DEF S

\* Rounding to multiples of u goes to the nearest, so past none of them.
LEMMA NearestMultiple ==
  ASSUME NEW n \in Int, NEW u \in Nat \ {0}
  PROVE  /\ Nearest(n, u) \in Int
         /\ 2 * (Nearest(n, u) - n) <= u /\ 2 * (n - Nearest(n, u)) <= u
         /\ \A m \in Int : m * u <= n => m * u <= Nearest(n, u)
         /\ \A m \in Int : n <= m * u => Nearest(n, u) <= m * u
<1> DEFINE k == n \div u
           d == k * u
           e == (k + 1) * u
           N == Nearest(n, u)
<1>1. k \in Int /\ d <= n /\ n < e
  BY Quotient
<1> HIDE DEF k
<1>2. d \in Int /\ e \in Int /\ e = d + u
  BY <1>1
<1>3. \/ N = d /\ 2 * (n - d) <= u
      \/ N = e /\ 2 * (n - d) >= u
  BY <1>1, <1>2 DEF Nearest, k
<1> HIDE DEF N
<1>4. ASSUME NEW m \in Int, m * u <= n
      PROVE  m * u <= N
  <2>1. m * u < (k + 1) * u
    BY <1>1, <1>2, <1>4
  <2>2. m * u <= d
    BY <1>1, <2>1, Factors
  <2> QED
    BY <1>2, <1>3, <2>2
<1>5. ASSUME NEW m \in Int, n <= m * u
      PROVE  N <= m * u
  <2>1. CASE N = d
    BY <1>1, <1>2, <1>5, <2>1
  <2>2. CASE N = e /\ 2 * (n - d) >= u
    <3>1. k * u < ((m - 1) + 1) * u
      BY <1>1, <1>2, <1>5, <2>2
    <3>2. k <= m - 1
      BY <1>1, <3>1, Factors
    <3>3. k + 1 <= m /\ e < (m + 1) * u
      BY <1>1, <3>2
    <3> QED
      BY <1>1, <2>2, <3>3, Factors
  <2> QED
    BY <1>3, <2>1, <2>2
<1> QED
  BY <1>1, <1>2, <1>3, <1>4, <1>5 DEF N

\* So the double a number becomes is within a sixteenth of a coin of it, and a whole
\* number of coins stays what it is.
LEMMA RoundBetween ==
  ASSUME NEW n \in Int
  PROVE  /\ Round(n) \in Int
         /\ 16 * (Round(n) - n) <= Scale /\ 16 * (n - Round(n)) <= Scale
         /\ \A m \in Int : m * Scale <= n => m * Scale <= Round(n)
         /\ \A m \in Int : n <= m * Scale => Round(n) <= m * Scale
<1> DEFINE u == Ulp(n)
           N == Nearest(n, u)
<1>1. u \in Spacings
  BY UlpType
<1> HIDE DEF u
<1>2. u \in Nat \ {0} /\ 8 * u <= Scale /\ Scale \in Nat
  BY <1>1, SpacingOfCoin, DoublesAssumption
<1>3. PICK j \in Nat : Scale = j * u
  BY <1>1, SpacingOfCoin
<1>4. /\ N \in Int /\ 2 * (N - n) <= u /\ 2 * (n - N) <= u
      /\ \A m \in Int : m * u <= n => m * u <= N
      /\ \A m \in Int : n <= m * u => N <= m * u
  BY <1>2, NearestMultiple
<1> HIDE DEF N
<1>5. \A m \in Int : m * j \in Int /\ m * Scale = (m * j) * u
  BY <1>2, <1>3
<1>6. /\ \A m \in Int : m * Scale <= n => m * Scale <= N
      /\ \A m \in Int : n <= m * Scale => N <= m * Scale
  BY <1>4, <1>5
<1>7. 16 * (N - n) <= Scale /\ 16 * (n - N) <= Scale
  BY <1>2, <1>4
<1> QED
  BY <1>4, <1>6, <1>7 DEF Round, N, u

\* Rounding keeps the order of numbers that are not negative: doubles get sparser,
\* but where they do there is one.
LEMMA NearestMonotone ==
  ASSUME NEW a \in Int, NEW b \in Int, a <= b, NEW u \in Nat \ {0}
  PROVE  Nearest(a, u) <= Nearest(b, u)
<1> DEFINE k == a \div u
           l == b \div u
           A == Nearest(a, u)
           B == Nearest(b, u)
<1>1. /\ k \in Int /\ k * u <= a /\ a < (k + 1) * u
      /\ l \in Int /\ l * u <= b /\ b < (l + 1) * u
  BY Quotient
<1>2. /\ A \in Int /\ \A m \in Int : a <= m * u => A <= m * u
      /\ B \in Int /\ \A m \in Int : m * u <= b => m * u <= B
  BY NearestMultiple
<1>3. /\ A = IF 2 * (a - k * u) < u \/ (2 * (a - k * u) = u /\ k % 2 = 0)
             THEN k * u ELSE (k + 1) * u
      /\ B = IF 2 * (b - l * u) < u \/ (2 * (b - l * u) = u /\ l % 2 = 0)
             THEN l * u ELSE (l + 1) * u
  BY DEF Nearest
<1> HIDE DEF k, l, A, B
<1>4. k * u \in Int /\ l * u \in Int /\ (k + 1) * u \in Int /\ (l + 1) * u \in Int
  BY <1>1
<1>5. k * u < (l + 1) * u
  BY <1>1, <1>4
<1>6. k <= l
  BY <1>1, <1>5, Factors
<1>7. ASSUME k = l
      PROVE  A <= B
  <2> DEFINE d == k * u
             e == (k + 1) * u
             even == k % 2 = 0
  <2>1. d \in Int /\ e \in Int /\ e = d + u
    BY <1>1
  <2>2. /\ A = IF 2 * (a - d) < u \/ (2 * (a - d) = u /\ even) THEN d ELSE e
        /\ B = IF 2 * (b - d) < u \/ (2 * (b - d) = u /\ even) THEN d ELSE e
    BY <1>3, <1>7
  <2>3. even \in BOOLEAN
    OBVIOUS
  <2> HIDE DEF d, e, even
  <2>4. CASE even
    <3>1. /\ A = IF 2 * (a - d) <= u THEN d ELSE e
          /\ B = IF 2 * (b - d) <= u THEN d ELSE e
      BY <2>1, <2>2, <2>4
    <3> QED
      BY <2>1, <3>1
  <2>5. CASE ~even
    <3>1. /\ A = IF 2 * (a - d) < u THEN d ELSE e
          /\ B = IF 2 * (b - d) < u THEN d ELSE e
      BY <2>1, <2>2, <2>5
    <3> QED
      BY <2>1, <3>1
  <2> QED
    BY <2>3, <2>4, <2>5
<1>8. ASSUME k + 1 <= l
      PROVE  A <= B
  <2>1. (k + 1) * u < (l + 1) * u
    BY <1>1, <1>4, <1>8
  <2>2. (k + 1) * u <= l * u
    BY <1>1, <2>1, Factors
  <2> DEFINE j == k + 1
  <2>3. j \in Int /\ a <= j * u /\ j * u <= l * u
    BY <1>1, <1>4, <2>2
  <2> HIDE DEF j
  <2>4. A <= j * u
    BY <1>2, <2>3
  <2>5. l * u <= B
    BY <1>1, <1>2
  <2>6. j * u \in Int
    BY <2>3
  <2> QED
    BY <1>2, <1>4, <2>3, <2>4, <2>5, <2>6
<1> QED
  BY <1>1, <1>6, <1>7, <1>8 DEF A, B

LEMMA RoundMonotone ==
  ASSUME NEW a \in Nat, NEW b \in Nat, a <= b
  PROVE  Round(a) <= Round(b)
<1> DEFINE u == Ulp(a)
           v == Ulp(b)
           h == v * Half
<1>1. a \in Int /\ b \in Int /\ Magnitude(a) = a /\ Magnitude(b) = b
  BY DEF Magnitude
<1>2. /\ u \in Spacings /\ v \in Spacings
      /\ u = 1 \/ u * Half <= a
      /\ v = 1 \/ v * Half <= b
      /\ v * Half <= a => v <= u
      /\ u * Half <= b => u <= v
  BY <1>1, UlpType
<1>3. Round(a) = Nearest(a, u) /\ Round(b) = Nearest(b, v)
  BY DEF Round
<1> HIDE DEF u, v
<1>4. /\ u \in Nat \ {0} /\ v \in Nat \ {0} /\ Half \in Nat \ {0}
      /\ h \in Nat /\ u * Half \in Nat
  BY <1>2, DoublesAssumption
<1>5. CASE u = v
  BY <1>1, <1>3, <1>4, <1>5, NearestMonotone
<1>6. CASE u # v
  <2>1. u <= v
    <3>1. CASE u = 1
      BY <1>4, <3>1
    <3>2. CASE u * Half <= a
      BY <1>2, <1>4, <3>2
    <3> QED
      BY <1>2, <3>1, <3>2
  <2>2. h <= b /\ a < h
    BY <1>2, <1>4, <1>6, <2>1
  <2>3. PICK k \in 1..v : v = k * u
    BY <1>2, <2>1, DoublesAssumption
  <2> DEFINE j == k * Half
  <2>4. j \in Int /\ h = j * u /\ h = Half * v
    BY <1>4, <2>3
  <2> HIDE DEF h, j
  <2>5. Nearest(a, u) <= h
    <3>1. a <= j * u
      BY <1>1, <1>4, <2>2, <2>4
    <3>2. Nearest(a, u) <= j * u
      BY <1>1, <1>4, <2>4, <3>1, NearestMultiple
    <3> QED
      BY <2>4, <3>2
  <2>6. h <= Nearest(b, v)
    <3>1. Half * v <= b
      BY <2>2, <2>4
    <3>2. \A m \in Int : m * v <= b => m * v <= Nearest(b, v)
      BY <1>1, <1>4, NearestMultiple
    <3>3. Half * v <= Nearest(b, v)
      BY <1>4, <3>1, <3>2
    <3> QED
      BY <2>4, <3>3
  <2>7. Nearest(a, u) \in Int /\ Nearest(b, v) \in Int
    BY <1>1, <1>4, NearestMultiple
  <2> QED
    BY <1>3, <1>4, <2>5, <2>6, <2>7
<1> QED
  BY <1>5, <1>6

\* Cutting off goes towards zero, past no whole number of coins, and keeps the order.
LEMMA TruncBetween ==
  ASSUME NEW n \in Int
  PROVE  /\ Trunc(n) \in Int
         /\ n >= 0 => n < (Trunc(n) + 1) * Scale
         /\ n < 0 => n <= Trunc(n) * Scale
         /\ \A m \in Int : m * Scale <= n => m <= Trunc(n)
         /\ \A m \in Int : n <= m * Scale => Trunc(n) <= m
<1>1. Scale \in Nat \ {0}
  BY DoublesAssumption
<1> DEFINE u == Scale
           t == Trunc(n)
<1>2. u \in Nat \ {0} /\ u = Scale
  BY <1>1
<1> HIDE DEF u
<1>3. CASE n >= 0
  <2> DEFINE k == n \div u
  <2>1. k \in Int /\ k * u <= n /\ n < (k + 1) * u
    BY <1>2, Quotient
  <2>2. t = k
    BY <1>2, <1>3 DEF Trunc
  <2> HIDE DEF k, t
  <2>3. ASSUME NEW m \in Int, m * u <= n PROVE m <= k
    <3>1. m * u < (k + 1) * u
      BY <1>2, <2>1, <2>3
    <3> QED
      BY <1>2, <2>1, <3>1, Factors
  <2>4. ASSUME NEW m \in Int, n <= m * u PROVE k <= m
    <3>1. k * u < (m + 1) * u
      BY <1>2, <2>1, <2>4
    <3> QED
      BY <1>2, <2>1, <3>1, Factors
  <2> QED
    BY <1>2, <1>3, <2>1, <2>2, <2>3, <2>4 DEF t
<1>4. CASE n < 0
  <2> DEFINE k == (-n) \div u
  <2>1. k \in Int /\ k * u <= -n /\ -n < (k + 1) * u
    BY <1>2, Quotient
  <2>2. t = -k
    BY <1>2, <1>4 DEF Trunc
  <2> HIDE DEF k, t
  <2>3. ASSUME NEW m \in Int, m * u <= n PROVE m <= -k
    <3>1. (-m) * u = -(m * u)
      BY <1>2
    <3>2. k * u < (-m + 1) * u
      BY <1>2, <2>1, <2>3, <3>1
    <3>3. k <= -m
      BY <1>2, <2>1, <3>2, Factors
    <3> QED
      BY <2>1, <3>3
  <2>4. ASSUME NEW m \in Int, n <= m * u PROVE -k <= m
    <3>1. (-m) * u = -(m * u)
      BY <1>2
    <3>2. (-m) * u < (k + 1) * u
      BY <1>2, <2>1, <2>4, <3>1
    <3>3. -m <= k
      BY <1>2, <2>1, <3>2, Factors
    <3> QED
      BY <2>1, <3>3
  <2>5. (-k) * u = -(k * u)
    BY <1>2, <2>1
  <2>6. n <= t * u
    BY <1>2, <2>1, <2>2, <2>5
  <2> QED
    BY <1>2, <1>4, <2>1, <2>2, <2>3, <2>4, <2>6 DEF t
<1> QED
  BY <1>3, <1>4

LEMMA TruncMonotone ==
  ASSUME NEW a \in Int, NEW b \in Int, a <= b
  PROVE  Trunc(a) <= Trunc(b)
<1>1. Scale \in Nat \ {0}
  BY DoublesAssumption
<1> DEFINE s == Trunc(a)
           t == Trunc(b)
<1>2. /\ s \in Int
      /\ a >= 0 => s * Scale <= a
      /\ \A m \in Int : a <= m * Scale => s <= m
  <2>1. s \in Int /\ \A m \in Int : a <= m * Scale => s <= m
    BY TruncBetween
  <2>2. ASSUME a >= 0 PROVE s * Scale <= a
    BY <1>1, <2>2, Quotient DEF Trunc
  <2> QED
    BY <2>1, <2>2
<1>3. /\ t \in Int
      /\ b < 0 => b <= t * Scale
      /\ b >= 0 => t >= 0
      /\ \A m \in Int : m * Scale <= b => m <= t
  <2>1. /\ t \in Int
        /\ b < 0 => b <= t * Scale
        /\ \A m \in Int : m * Scale <= b => m <= t
    BY TruncBetween
  <2> HIDE DEF t
  <2>2. 0 \in Int /\ 0 * Scale = 0
    BY <1>1
  <2> QED
    BY <2>1, <2>2
<1>4. a < 0 => s <= 0
  <2> HIDE DEF s, t
  <2>1. 0 \in Int /\ 0 * Scale = 0
    BY <1>1
  <2> QED
    BY <1>2, <2>1
<1> HIDE DEF s, t
<1>5. CASE a >= 0
  <2>1. s * Scale \in Int /\ s * Scale <= b
    BY <1>1, <1>2, <1>5
  <2>2. s <= t
    BY <1>2, <1>3, <2>1
  <2> QED
    BY <2>2 DEF s, t
<1>6. CASE a < 0 /\ b >= 0
  <2>1. s <= t
    BY <1>2, <1>3, <1>4, <1>6
  <2> QED
    BY <2>1 DEF s, t
<1>7. CASE b < 0
  <2>1. t * Scale \in Int /\ a <= t * Scale
    BY <1>1, <1>3, <1>7
  <2>2. s <= t
    BY <1>2, <1>3, <2>1
  <2> QED
    BY <2>2 DEF s, t
<1> QED
  BY <1>5, <1>6, <1>7

\* A coin more is a coin more at most: fewer are added when the cut crosses zero.
LEMMA TruncCoin ==
  ASSUME NEW n \in Int
  PROVE  Trunc(n + Scale) <= Trunc(n) + 1
<1> DEFINE t == Trunc(n)
           r == Trunc(n + Scale)
<1>1. Scale \in Nat \ {0}
  BY DoublesAssumption
<1>2. /\ t \in Int
      /\ n >= 0 => n < (t + 1) * Scale
      /\ n < 0 => n <= t * Scale
  BY TruncBetween
<1>3. n + Scale \in Int
  BY <1>1
<1>4. r \in Int /\ \A m \in Int : n + Scale <= m * Scale => r <= m
  BY <1>3, TruncBetween
<1>5. n >= 0 => r * Scale <= n + Scale
  BY <1>1, <1>3, Quotient DEF Trunc
<1> HIDE DEF t, r
<1>6. t * Scale \in Int /\ (t + 1) * Scale = t * Scale + Scale
      /\ (t + 1 + 1) * Scale = (t + 1) * Scale + Scale
  BY <1>1, <1>2
<1>7. CASE n >= 0
  <2> DEFINE j == t + 1
  <2>1. j \in Int /\ r * Scale < (j + 1) * Scale
    BY <1>1, <1>2, <1>4, <1>5, <1>6, <1>7
  <2> HIDE DEF j
  <2>2. r <= j
    BY <1>1, <1>4, <2>1, Factors
  <2> QED
    BY <2>2 DEF j, r, t
<1>8. CASE n < 0
  <2> DEFINE j == t + 1
  <2>1. j \in Int /\ n + Scale <= j * Scale
    BY <1>1, <1>2, <1>6, <1>8
  <2> HIDE DEF j
  <2>2. r <= j
    BY <1>4, <2>1
  <2> QED
    BY <2>2 DEF j, r, t
<1> QED
  BY <1>7, <1>8

\* The coins that a cost x comes to, taken from a wallet, added to it and subtracted
\* from it: each time it is rounded to no more than the next whole number of coins.
LEMMA CoinBounds ==
  ASSUME NEW b \in Int, NEW x \in Int
  PROVE  /\ Trunc(Round(x)) \in Int
         /\ AddOMG(b, Round(x)) \in Int /\ AddOMG(b, -Round(x)) \in Int
         /\ \A m \in Int : m * Scale <= x =>
              m <= Trunc(Round(x)) /\ b + m <= AddOMG(b, Round(x))
                                   /\ AddOMG(b, -Round(x)) <= b - m
         /\ \A m \in Int : x <= m * Scale =>
              Trunc(Round(x)) <= m /\ AddOMG(b, Round(x)) <= b + m
                                   /\ b - m <= AddOMG(b, -Round(x))
<1> DEFINE R == Round(x)
           h == b * Scale + R
           l == b * Scale + (-R)
<1>1. Scale \in Nat
  BY DoublesAssumption
<1>2. /\ R \in Int
      /\ \A m \in Int : m * Scale <= x => m * Scale <= R
      /\ \A m \in Int : x <= m * Scale => R <= m * Scale
  BY RoundBetween
<1> HIDE DEF R
<1>3. h \in Int /\ l \in Int
  BY <1>1, <1>2
<1>4. /\ Trunc(R) \in Int
      /\ \A m \in Int : m * Scale <= R => m <= Trunc(R)
      /\ \A m \in Int : R <= m * Scale => Trunc(R) <= m
  BY <1>2, TruncBetween
<1>5. ASSUME NEW n \in Int
      PROVE  /\ Trunc(Round(n)) \in Int
             /\ \A m \in Int : m * Scale <= n => m <= Trunc(Round(n))
             /\ \A m \in Int : n <= m * Scale => Trunc(Round(n)) <= m
  <2> DEFINE r == Round(n)
  <2>1. /\ r \in Int
        /\ \A m \in Int : m * Scale <= n => m * Scale <= r
        /\ \A m \in Int : n <= m * Scale => r <= m * Scale
    BY RoundBetween
  <2> HIDE DEF r
  <2>2. /\ Trunc(r) \in Int
        /\ \A m \in Int : m * Scale <= r => m <= Trunc(r)
        /\ \A m \in Int : r <= m * Scale => Trunc(r) <= m
    BY <2>1, TruncBetween
  <2> QED
    BY <2>1, <2>2 DEF r
<1>6. AddOMG(b, R) = Trunc(Round(h)) /\ AddOMG(b, -R) = Trunc(Round(l))
  BY DEF AddOMG
<1>7. ASSUME NEW m \in Int
      PROVE  /\ b + m \in Int /\ (b + m) * Scale = b * Scale + m * Scale
             /\ b - m \in Int /\ (b - m) * Scale = b * Scale - m * Scale
             /\ m * Scale \in Int /\ b * Scale \in Int
  BY <1>1
<1>8. ASSUME NEW m \in Int, m * Scale <= x
      PROVE  m <= Trunc(R) /\ b + m <= AddOMG(b, R) /\ AddOMG(b, -R) <= b - m
  <2>1. m * Scale <= R
    BY <1>2, <1>8
  <2>2. (b + m) * Scale <= h /\ l <= (b - m) * Scale
    <3> DEFINE p == b * Scale
               q == m * Scale
    <3>1. /\ p \in Int /\ q \in Int /\ q <= R
          /\ (b + m) * Scale = p + q /\ (b - m) * Scale = p - q
          /\ h = p + R /\ l = p + (-R)
      BY <1>7, <2>1
    <3> HIDE DEF p, q, h, l
    <3> QED
      BY <1>2, <3>1
  <2> HIDE DEF h, l
  <2>3. m <= Trunc(R)
    BY <1>4, <2>1
  <2>4. b + m <= Trunc(Round(h))
    BY <1>3, <1>5, <1>7, <2>2
  <2>5. Trunc(Round(l)) <= b - m
    BY <1>3, <1>5, <1>7, <2>2
  <2> QED
    BY <1>6, <2>3, <2>4, <2>5
<1>9. ASSUME NEW m \in Int, x <= m * Scale
      PROVE  Trunc(R) <= m /\ AddOMG(b, R) <= b + m /\ b - m <= AddOMG(b, -R)
  <2>1. R <= m * Scale
    BY <1>2, <1>9
  <2>2. h <= (b + m) * Scale /\ (b - m) * Scale <= l
    <3> DEFINE p == b * Scale
               q == m * Scale
    <3>1. /\ p \in Int /\ q \in Int /\ R <= q
          /\ (b + m) * Scale = p + q /\ (b - m) * Scale = p - q
          /\ h = p + R /\ l = p + (-R)
      BY <1>7, <2>1
    <3> HIDE DEF p, q, h, l
    <3> QED
      BY <1>2, <3>1
  <2> HIDE DEF h, l
  <2>3. Trunc(R) <= m
    BY <1>4, <2>1
  <2>4. Trunc(Round(h)) <= b + m
    BY <1>3, <1>5, <1>7, <2>2
  <2>5. b - m <= Trunc(Round(l))
    BY <1>3, <1>5, <1>7, <2>2
  <2> QED
    BY <1>6, <2>3, <2>4, <2>5
<1>10. AddOMG(b, R) \in Int /\ AddOMG(b, -R) \in Int
  BY <1>3, <1>5, <1>6
<1> QED
  BY <1>4, <1>8, <1>9, <1>10 DEF R

-----------------------------------------------------------------------------
(* Wallets *)

\* The arithmetic of the balance columns stays inside the type of a wallet.
LEMMA AddCoinType ==
  ASSUME NEW w \in Wallet, NEW c \in Coins, NEW n \in Int
  PROVE  AddCoin(w, c, n) \in Wallet
  BY DEF AddCoin, Wallet

LEMMA AddCostType ==
  ASSUME NEW w \in Wallet, NEW n \in Int
  PROVE  AddCost(w, n) \in Wallet
<1>1. "OMG" \in Coins
  BY DEF Coins
<1>2. w["OMG"] * Scale + n \in Int
  BY <1>1, DoublesAssumption DEF Wallet
<1>3. AddOMG(w["OMG"], n) \in Int
  BY <1>2, RoundBetween, TruncBetween DEF AddOMG
<1> QED
  BY <1>1, <1>3 DEF AddCost, Wallet

\* Quantity and cost of a trade are integers.
LEMMA TxType ==
  ASSUME NEW o \in Order, NEW m \in Order
  PROVE  TxQuantity(o, m) \in Int /\ TxCost(o, m) \in Int
<1>1. TxQuantity(o, m) \in Int
  BY DEF TxQuantity, Order
<1>2. TxQuantity(o, m) * m.unitPrice \in Int
  BY <1>1 DEF Order
<1> QED
  BY <1>1, <1>2, RoundBetween DEF TxCost

\* The wallets a trade writes are wallets.
LEMMA TradeType ==
  ASSUME NEW o \in Order, NEW m \in Order, NEW w \in Wallet
  PROVE  /\ TakerWallet(o, m, w) \in Wallet
         /\ MakerWallet(o, m, w) \in Wallet
<1> DEFINE q == TxQuantity(o, m)
           k == TxCost(o, m)
<1>1. q \in Int /\ -q \in Int /\ k \in Int /\ -k \in Int
  BY TxType
<1>2. o.item \in Coins /\ m.item \in Coins
  BY DEF Order
<1> HIDE DEF q, k
<1>3. AddCost(w, k) \in Wallet /\ AddCost(w, -k) \in Wallet
  BY <1>1, AddCostType
<1>4. AddCoin(w, o.item, -q) \in Wallet
  BY <1>1, <1>2, AddCoinType
<1>5. /\ AddCoin(AddCost(w, -k), o.item, q) \in Wallet
      /\ AddCost(AddCoin(w, o.item, -q), k) \in Wallet
      /\ AddCoin(AddCost(w, k), m.item, -q) \in Wallet
      /\ AddCoin(AddCost(w, -k), m.item, q) \in Wallet
  BY <1>1, <1>2, <1>3, <1>4, AddCoinType, AddCostType
<1> QED
  BY <1>5 DEF TakerWallet, MakerWallet, q, k

\* So are the wallets insert_order and cancel_order write.
LEMMA EscrowType ==
  ASSUME NEW o \in Order, NEW w \in Wallet
  PROVE  Reserve(o, w) \in Wallet /\ Refund(o, w) \in Wallet
<1>1. /\ o.item \in Coins /\ "OMG" \in Coins
      /\ o.quantity \in Int /\ -o.quantity \in Int
      /\ o.quantity * o.unitPrice \in Int
  BY DEF Order, Coins
<1>2. Cost(o) \in Int
  BY <1>1, RoundBetween DEF Cost
<1>3. Trunc(Cost(o)) \in Int
  BY <1>2, TruncBetween
<1>4. -Trunc(Cost(o)) \in Int
  BY <1>3
<1> QED
  BY <1>1, <1>2, <1>4, AddCoinType, AddCostType DEF Reserve, Refund

-----------------------------------------------------------------------------
(* Types *)

\* The blank locals are of their types.
LEMMA BlankType == BlankOrder \in Order /\ BlankWallet \in Wallet
  BY DEF BlankOrder, BlankWallet, Order, Wallet, Coins, Sides

\* Every wallet of a new user is a wallet.
LEMMA DefaultType == DefaultWallet \in Wallet
  BY DEF DefaultWallet, Wallet, Coins

\* A returning command leaves well-typed locals behind.
LEMMA ReturnType ==
  ASSUME LocalsOK, UNCHANGED user, NEW s \in Sessions,
         NEW r \in {OK, Failure, SqliteError}, Return(s, r)
  PROVE  LocalsOK'
<1>1. /\ pc' \in [Sessions -> Labels]
      /\ ord' \in [Sessions -> Order]
      /\ found' \in [Sessions -> Int]
      /\ match' \in [Sessions -> Order]
      /\ wal' \in [Sessions -> Wallet]
      /\ ret' \in [Sessions -> {OK, Failure, SqliteError}]
  BY BlankType DEF LocalsOK, Return, Goto, Labels, NoMatch
<1>2. ASSUME NEW t \in Sessions, t # s
      PROVE  /\ pc'[t] = pc[t] /\ ord'[t] = ord[t]
             /\ match'[t] = match[t] /\ user'[t] = user[t]
  BY <1>2 DEF LocalsOK, Return, Goto
<1>3. pc'[s] = "idle"
  BY DEF LocalsOK, Return, Goto
<1> QED
  BY <1>1, <1>2, <1>3 DEF LocalsOK, HasOrder, HasMatch, Settling, Cancelling

\* So do a step that changes no local but the label, and the read of a wallet.
LEMMA GotoType ==
  ASSUME LocalsOK, UNCHANGED <<user, locals, ret>>, NEW s \in Sessions,
         NEW l \in Labels, Goto(s, l),
         HasOrder(l) => HasOrder(pc[s]), HasMatch(l) => HasMatch(pc[s])
  PROVE  LocalsOK'
  BY DEF LocalsOK, locals, Goto

LEMMA ReadWalletType ==
  ASSUME LocalsOK, TablesOK, UNCHANGED user, NEW s \in Sessions, NEW u \in Users,
         NEW l \in Labels, ReadWallet(s, u), Goto(s, l),
         HasOrder(l) => HasOrder(pc[s]), HasMatch(l) => HasMatch(pc[s])
  PROVE  LocalsOK'
  BY DEF LocalsOK, TablesOK, ReadWallet, Goto

\* And a step that changes found, the result of find_matching_* or the id given
\* to cancel_order.
LEMMA FoundType ==
  ASSUME LocalsOK, UNCHANGED <<user, ord, match, wal, ret>>, NEW s \in Sessions,
         NEW l \in Labels, Goto(s, l), NEW id \in Int,
         found' = [found EXCEPT ![s] = id],
         HasOrder(l) => HasOrder(pc[s]), HasMatch(l) => HasMatch(pc[s])
  PROVE  LocalsOK'
  BY DEF LocalsOK, Goto

\* The statements keep the tables well typed.
LEMMA BalanceType ==
  ASSUME TablesOK, NEW u, NEW w \in Wallet, UpdateUserBalance(u, w),
         UNCHANGED <<orders, orderSeq, archives>>
  PROVE  TablesOK'
  BY DEF TablesOK, UpdateUserBalance

LEMMA ArchiveType ==
  ASSUME TablesOK, NEW o \in Order, InsertArchive(o),
         UNCHANGED <<users, orders, orderSeq>>
  PROVE  TablesOK'
  BY DEF TablesOK, InsertArchive

LEMMA DeleteType ==
  ASSUME TablesOK, NEW id, DeleteOrder(id), UNCHANGED <<users, orderSeq, archives>>
  PROVE  TablesOK'
  BY DEF TablesOK, DeleteOrder

LEMMA UpdateType ==
  ASSUME TablesOK, NEW id, NEW o \in Order, o.userID \in Users, UpdateOrder(id, o),
         UNCHANGED <<users, orderSeq, archives>>
  PROVE  TablesOK'
  BY DEF TablesOK, UpdateOrder, Order

LEMMA InsertType ==
  ASSUME TablesOK, now \in Nat, NEW o \in Order, o.userID \in Users, InsertRow(o),
         UNCHANGED <<users, archives>>
  PROVE  TablesOK'
<1> DEFINE n == orderSeq + 1
<1>1. [o EXCEPT !.created_at = now] \in Order
  BY DEF Order
<1>2. [o EXCEPT !.created_at = now].userID \in Users
  BY DEF Order
<1>3. /\ orderSeq' = n
      /\ orders' = [i \in DOMAIN orders \cup {n} |->
                      IF i = n THEN [o EXCEPT !.created_at = now] ELSE orders[i]]
  BY DEF InsertRow, WithRow, NewOrderID
<1>4. DOMAIN orders' = DOMAIN orders \cup {n}
  BY <1>3
<1>5. \A i \in DOMAIN orders' : orders'[i] \in Order /\ orders'[i].userID \in Users
  BY <1>1, <1>2, <1>3 DEF TablesOK
<1>6. DOMAIN orders' \subseteq 1..orderSeq' /\ orderSeq' \in Nat
  BY <1>3, <1>4 DEF TablesOK
<1>7. orders' = [i \in DOMAIN orders' |-> orders'[i]]
  BY <1>3
<1> QED
  BY <1>5, <1>6, <1>7 DEF TablesOK

\* The first state is well typed.
LEMMA InitType == Init => TypeOK
<1> SUFFICES ASSUME Init PROVE TypeOK
  OBVIOUS
<1> USE DEF Init
<1>1. TablesOK
  <2>1. users \in [Users -> Wallet]
    BY DefaultType
  <2>2. DOMAIN orders = {}
    OBVIOUS
  <2>3. archives \in Seq(Order)
    OBVIOUS
  <2> QED
    BY <2>1, <2>2, <2>3 DEF TablesOK
<1>2. LocalsOK
  BY BlankType DEF LocalsOK, Labels, HasOrder, HasMatch, Settling, Cancelling,
                   NoMatch
<1> QED
  BY <1>1, <1>2 DEF TypeOK

\* Every statement keeps the types.
LEMMA TypeStep == TypeOK /\ [Next]_vars => TypeOK'
<1> SUFFICES ASSUME TypeOK, [Next]_vars
             PROVE  TypeOK'
  OBVIOUS
<1> USE DEF TypeOK
<1>1. CASE UNCHANGED vars
  BY <1>1 DEF vars, tables, locals, bounds, TablesOK, LocalsOK
<1>2. ASSUME NEW s \in Sessions, Issue(s)
      PROVE  TypeOK'
  <2> USE <1>2 DEF Issue, bounds, locals
  <2>1. PICK c \in Items, d \in Sides, q \in Quantities, p \in Prices :
          ord' = [ord EXCEPT ![s] =
                    [item |-> c, side |-> d, quantity |-> q, unitPrice |-> p,
                     userID |-> user[s], created_at |-> 0]]
    OBVIOUS
  <2>2. [item |-> c, side |-> d, quantity |-> q, unitPrice |-> p,
         userID |-> user[s], created_at |-> 0] \in Order
    <3>1. c \in Coins /\ q \in Int /\ p \in Int
      BY ONLY MarketAssumption, c \in Items, q \in Quantities, p \in Prices
    <3>2. user[s] \in Nat
      BY ONLY MarketAssumption, user \in [Sessions -> Users], s \in Sessions
    <3> QED
      BY <3>1, <3>2 DEF Order
  <2>3. LocalsOK'
    BY <2>1, <2>2 DEF LocalsOK, Goto, At, Labels, HasOrder, HasMatch, Settling, Cancelling
  <2>4. TablesOK'
    BY DEF tables, TablesOK
  <2> QED
    BY <2>3, <2>4
<1>3. ASSUME NEW s \in Sessions, IssueCancel(s)
      PROVE  TypeOK'
  <2> USE <1>3 DEF IssueCancel, bounds, locals
  <2>1. PICK id \in OrderIDs : found' = [found EXCEPT ![s] = id]
    OBVIOUS
  <2>2. id \in Int
    BY MarketAssumption
  <2>3. /\ ~HasOrder("cancel_get_order") /\ ~HasMatch("cancel_get_order")
        /\ "cancel_get_order" \in Labels
    BY DEF Labels, HasOrder, HasMatch, Settling, Cancelling
  <2>4. LocalsOK'
    BY <2>1, <2>2, <2>3, FoundType
  <2>5. TablesOK'
    BY DEF tables, TablesOK
  <2> QED
    BY <2>4, <2>5
<1>4. ASSUME NEW s \in Sessions, GetUser(s)
      PROVE  TypeOK'
  <2> USE <1>4 DEF GetUser, bounds, locals
  <2>1. TablesOK'
    BY DEF tables, TablesOK
  <2>2. CASE Goto(s, "find_matching") /\ ReadWallet(s, user[s])
    <3>1. user[s] \in Users
      OBVIOUS
    <3>2. LocalsOK'
      BY <2>2, <3>1, ReadWalletType DEF At, Labels, HasOrder, HasMatch, Settling, Cancelling, Inserting
    <3> QED
      BY <2>1, <3>2
  <2>3. CASE Return(s, Failure)
    BY <2>1, <2>3, ReturnType
  <2> QED
    BY <2>2, <2>3
<1>5. ASSUME NEW s \in Sessions, FindMatching(s)
      PROVE  TypeOK'
  <2> USE <1>5 DEF FindMatching, bounds, locals
  <2>1. TablesOK'
    BY DEF tables, TablesOK
  <2>2. ASSUME NEW id \in Matching(ord[s]), found' = [found EXCEPT ![s] = id],
               Goto(s, "get_order")
        PROVE  TypeOK'
    <3>1. id \in Int
      BY DEF Matching, FindMatchingSell, FindMatchingBuy, Oldest, TablesOK
    <3>2. HasOrder("get_order") => HasOrder(pc[s])
      BY DEF At, HasOrder, Cancelling
    <3>3. ~HasMatch("get_order") /\ "get_order" \in Labels
      BY DEF Labels, HasOrder, HasMatch, Settling, Cancelling, Inserting
    <3>4. LocalsOK'
      BY <2>2, <3>1, <3>2, <3>3, FoundType
    <3> QED
      BY <2>1, <3>4
  <2>3. CASE found' = [found EXCEPT ![s] = NoMatch] /\ Goto(s, "insert_get_user")
    <3>1. NoMatch \in Int
      BY DEF NoMatch
    <3>2. HasOrder("insert_get_user") => HasOrder(pc[s])
      BY DEF At, HasOrder, Cancelling
    <3>3. ~HasMatch("insert_get_user") /\ "insert_get_user" \in Labels
      BY DEF Labels, HasOrder, HasMatch, Settling, Cancelling, Inserting
    <3>4. LocalsOK'
      BY <2>3, <3>1, <3>2, <3>3, FoundType
    <3> QED
      BY <2>1, <3>4
  <2> QED
    BY <2>2, <2>3
<1>6. ASSUME NEW s \in Sessions, GetOrder(s)
      PROVE  TypeOK'
  <2> USE <1>6 DEF GetOrder, bounds, locals
  <2>1. TablesOK'
    BY DEF tables, TablesOK
  <2>2. CASE TakeMatch(s)
    <3>1. orders[found[s]] \in Order /\ orders[found[s]].userID \in Users
      BY <2>2 DEF TakeMatch, TablesOK
    <3>2. ord[s] \in Order
      BY DEF LocalsOK
    <3>3. /\ [ord[s] EXCEPT !.created_at = now] \in Order
          /\ [ord[s] EXCEPT !.created_at = now].userID = ord[s].userID
      BY <3>2 DEF Order
    <3>4. ord' = [ord EXCEPT ![s] = [ord[s] EXCEPT !.created_at = now]]
      BY <2>2 DEF TakeMatch
    <3>5. LocalsOK'
      BY <2>2, <3>1, <3>3, <3>4 DEF TakeMatch, LocalsOK, Goto, At, Labels, HasOrder, HasMatch, Settling, Cancelling, Inserting
    <3> QED
      BY <2>1, <3>5
  <2>3. CASE Return(s, Failure)
    BY <2>1, <2>3, ReturnType
  <2> QED
    BY <2>2, <2>3
<1>7. ASSUME NEW s \in Sessions, ArchiveMatched(s)
      PROVE  TypeOK'
  <2> USE <1>7 DEF ArchiveMatched, bounds, locals
  <2>1. match[s] \in Order
    BY DEF LocalsOK
  <2>2. TablesOK'
    BY <2>1, ArchiveType
  <2>3. LocalsOK'
    BY GotoType DEF At, Labels, HasOrder, HasMatch, Settling, Cancelling, Inserting
  <2> QED
    BY <2>2, <2>3
<1>8. ASSUME NEW s \in Sessions, ArchiveOrder(s)
      PROVE  TypeOK'
  <2> USE <1>8 DEF ArchiveOrder, bounds, locals
  <2>1. ord[s] \in Order
    BY DEF LocalsOK
  <2>2. TablesOK'
    BY <2>1, ArchiveType
  <2>3. LocalsOK'
    BY GotoType DEF At, Labels, HasOrder, HasMatch, Settling, Cancelling, Inserting
  <2> QED
    BY <2>2, <2>3
<1>9. ASSUME NEW s \in Sessions, UpdateSelf(s)
      PROVE  TypeOK'
  <2> USE <1>9 DEF UpdateSelf, bounds, locals
  <2>1. ord[s] \in Order /\ match[s] \in Order /\ wal[s] \in Wallet
    BY DEF LocalsOK
  <2>2. TakerWallet(ord[s], match[s], wal[s]) \in Wallet
    BY <2>1, TradeType
  <2>3. TablesOK'
    BY <2>2, BalanceType
  <2>4. LocalsOK'
    BY GotoType DEF At, Labels, HasOrder, HasMatch, Settling, Cancelling, Inserting
  <2> QED
    BY <2>3, <2>4
<1>10. ASSUME NEW s \in Sessions, GetCounterparty(s)
      PROVE  TypeOK'
  <2> USE <1>10 DEF GetCounterparty, bounds, locals
  <2>1. TablesOK'
    BY DEF tables, TablesOK
  <2>2. match[s].userID \in Users
    BY DEF LocalsOK, At, HasMatch, Settling, Cancelling
  <2>3. LocalsOK'
    BY <2>2, ReadWalletType DEF At, Labels, HasOrder, HasMatch, Settling, Cancelling, Inserting
  <2> QED
    BY <2>1, <2>3
<1>11. ASSUME NEW s \in Sessions, UpdateCounterparty(s)
      PROVE  TypeOK'
  <2> USE <1>11 DEF UpdateCounterparty, bounds, locals
  <2>1. ord[s] \in Order /\ match[s] \in Order /\ wal[s] \in Wallet
    BY DEF LocalsOK
  <2>2. MakerWallet(ord[s], match[s], wal[s]) \in Wallet
    BY <2>1, TradeType
  <2>3. TablesOK'
    BY <2>2, BalanceType
  <2>4. LocalsOK'
    BY GotoType DEF At, Labels, HasOrder, HasMatch, Settling, Cancelling, Inserting
  <2> QED
    BY <2>3, <2>4
<1>12. ASSUME NEW s \in Sessions, SettleMatched(s)
      PROVE  TypeOK'
  <2> USE <1>12 DEF SettleMatched, bounds, locals
  <2> DEFINE q == TxQuantity(ord[s], match[s])
  <2>1. ord[s] \in Order /\ match[s] \in Order /\ match[s].userID \in Users
    BY DEF LocalsOK, At, HasMatch, Settling, Cancelling
  <2>2. q \in Int
    BY <2>1, TxType
  <2> HIDE DEF q
  <2>3. /\ Less(match[s], q) \in Order /\ Less(match[s], q).userID \in Users
        /\ Less(ord[s], q) \in Order /\ Less(ord[s], q).userID = ord[s].userID
    BY <2>1, <2>2 DEF Less, Order
  <2>4. TablesOK'
    <3>1. WriteBack(found[s], Less(match[s], q))
      BY DEF q
    <3>2. CASE DeleteOrder(found[s])
      BY <3>2, DeleteType
    <3>3. CASE UpdateOrder(found[s], Less(match[s], q))
      BY <2>3, <3>3, UpdateType
    <3> QED
      BY <3>1, <3>2, <3>3 DEF WriteBack
  <2>5. CASE /\ ord' = [ord EXCEPT ![s] = Less(@, q)]
             /\ Goto(s, "insert_get_user")
             /\ UNCHANGED <<found, match, wal, ret>>
    <3>1. LocalsOK'
      BY <2>3, <2>5 DEF LocalsOK, Goto, At, Labels, HasOrder, HasMatch, Settling, Cancelling, Inserting
    <3> QED
      BY <2>4, <3>1
  <2>6. CASE Return(s, OK)
    BY <2>4, <2>6, ReturnType
  <2> QED
    BY <2>5, <2>6 DEF q
<1>13. ASSUME NEW s \in Sessions, InsertGetUser(s)
      PROVE  TypeOK'
  <2> USE <1>13 DEF InsertGetUser, bounds, locals
  <2>1. TablesOK'
    BY DEF tables, TablesOK
  <2>2. CASE Goto(s, "insert_order") /\ ReadWallet(s, user[s])
    <3>1. user[s] \in Users
      OBVIOUS
    <3>2. LocalsOK'
      BY <2>2, <3>1, ReadWalletType DEF At, Labels, HasOrder, HasMatch, Settling, Cancelling, Inserting
    <3> QED
      BY <2>1, <3>2
  <2>3. CASE InsertFails(s)
    BY <2>1, <2>3, ReturnType DEF InsertFails
  <2> QED
    BY <2>2, <2>3
<1>14. ASSUME NEW s \in Sessions, InsertOrder(s)
      PROVE  TypeOK'
  <2> USE <1>14 DEF InsertOrder, bounds, locals
  <2>1. ord[s] \in Order /\ ord[s].userID \in Users
    BY DEF LocalsOK, At, HasOrder, Cancelling
  <2>2. TablesOK'
    BY <2>1, InsertType
  <2>3. LocalsOK'
    BY GotoType DEF At, Labels, HasOrder, HasMatch, Settling, Cancelling, Inserting
  <2> QED
    BY <2>2, <2>3
<1>15. ASSUME NEW s \in Sessions, InsertUpdateUser(s)
      PROVE  TypeOK'
  <2> USE <1>15 DEF InsertUpdateUser, bounds, locals
  <2>1. ord[s] \in Order /\ match[s] \in Order /\ wal[s] \in Wallet
    BY DEF LocalsOK
  <2>2. Reserve(ord[s], wal[s]) \in Wallet
    BY <2>1, EscrowType
  <2>3. TablesOK'
    BY <2>2, BalanceType
  <2>4. LocalsOK'
    BY ReturnType
  <2> QED
    BY <2>3, <2>4
<1>16. ASSUME NEW s \in Sessions, CancelGetOrder(s)
      PROVE  TypeOK'
  <2> USE <1>16 DEF CancelGetOrder, bounds, locals
  <2>1. TablesOK'
    BY DEF tables, TablesOK
  <2>2. CASE /\ OwnOrder(s)
             /\ match' = [match EXCEPT ![s] = orders[found[s]]]
             /\ Goto(s, "cancel_get_user")
             /\ UNCHANGED <<ord, found, wal, ret>>
    <3>1. orders[found[s]] \in Order /\ orders[found[s]].userID \in Users
      BY <2>2 DEF OwnOrder, TablesOK
    <3>2. LocalsOK'
      BY <2>2, <3>1 DEF LocalsOK, Goto, At, Labels, HasOrder, HasMatch, Settling, Cancelling, Inserting
    <3> QED
      BY <2>1, <3>2
  <2>3. CASE Return(s, Failure)
    BY <2>1, <2>3, ReturnType
  <2> QED
    BY <2>2, <2>3
<1>17. ASSUME NEW s \in Sessions, CancelGetUser(s)
      PROVE  TypeOK'
  <2> USE <1>17 DEF CancelGetUser, bounds, locals
  <2>1. TablesOK'
    BY DEF tables, TablesOK
  <2>2. match[s].userID \in Users
    BY DEF LocalsOK, At, HasMatch, Settling, Cancelling
  <2>3. LocalsOK'
    BY <2>2, ReadWalletType DEF At, Labels, HasOrder, HasMatch, Settling, Cancelling, Inserting
  <2> QED
    BY <2>1, <2>3
<1>18. ASSUME NEW s \in Sessions, CancelUpdateUser(s)
      PROVE  TypeOK'
  <2> USE <1>18 DEF CancelUpdateUser, bounds, locals
  <2>1. ord[s] \in Order /\ match[s] \in Order /\ wal[s] \in Wallet
    BY DEF LocalsOK
  <2>2. Refund(match[s], wal[s]) \in Wallet
    BY <2>1, EscrowType
  <2>3. TablesOK'
    BY <2>2, BalanceType
  <2>4. LocalsOK'
    BY GotoType DEF At, Labels, HasOrder, HasMatch, Settling, Cancelling, Inserting
  <2> QED
    BY <2>3, <2>4
<1>19. ASSUME NEW s \in Sessions, CancelDelete(s)
      PROVE  TypeOK'
  <2> USE <1>19 DEF CancelDelete, bounds, locals
  <2>1. TablesOK'
    BY DeleteType
  <2>2. LocalsOK'
    BY ReturnType
  <2> QED
    BY <2>1, <2>2
<1>20. ASSUME NEW s \in Sessions, StatementFails(s)
      PROVE  TypeOK'
  <2> USE <1>20 DEF StatementFails, bounds, locals
  <2>1. TablesOK'
    BY DEF tables, TablesOK
  <2>2. CASE /\ At(s, "find_matching")
             /\ found' = [found EXCEPT ![s] = NoMatch]
             /\ Goto(s, "insert_get_user")
             /\ UNCHANGED <<ord, match, wal, ret>>
    <3>1. NoMatch \in Int
      BY DEF NoMatch
    <3>2. HasOrder("insert_get_user") => HasOrder(pc[s])
      BY <2>2 DEF At, HasOrder, Cancelling
    <3>3. ~HasMatch("insert_get_user") /\ "insert_get_user" \in Labels
      BY DEF Labels, HasOrder, HasMatch, Settling, Cancelling, Inserting
    <3>4. LocalsOK'
      BY <2>2, <3>1, <3>2, <3>3, FoundType
    <3> QED
      BY <2>1, <3>4
  <2>3. CASE InsertFails(s)
    BY <2>1, <2>3, ReturnType DEF InsertFails
  <2>4. CASE Return(s, Failure)
    BY <2>1, <2>4, ReturnType
  <2> QED
    BY <2>2, <2>3, <2>4
<1>21. ASSUME NEW s \in Sessions, PrepareFails(s)
      PROVE  TypeOK'
  <2> USE <1>21 DEF PrepareFails, bounds, locals
  <2>1. TablesOK'
    BY DEF tables, TablesOK
  <2>2. PICK code \in PrepareCodes : found' = [found EXCEPT ![s] = code]
    OBVIOUS
  <2>3. code \in Int
    BY MarketAssumption
  <2>4. HasOrder("get_order") => HasOrder(pc[s])
    BY DEF At, HasOrder, Cancelling
  <2>5. ~HasMatch("get_order") /\ "get_order" \in Labels
    BY DEF Labels, HasOrder, HasMatch, Settling, Cancelling, Inserting
  <2>6. LocalsOK'
    BY <2>2, <2>3, <2>4, <2>5, FoundType
  <2> QED
    BY <2>1, <2>6
<1>22. CASE Tick
  BY <1>22 DEF Tick, tables, locals, bounds, TablesOK, LocalsOK
<1> QED
  BY <1>1, <1>2, <1>3, <1>4, <1>5, <1>6, <1>7, <1>8, <1>9, <1>10, <1>11, <1>12, <1>13, <1>14, <1>15, <1>16, <1>17, <1>18, <1>19, <1>20, <1>21, <1>22 DEF Next, Step, Waiting

\* Types hold in every state of every behaviour: buy, sell and cancel_order only
\* ever pass rows of users to update_user_balance and rows of orders to
\* update_order, and get_user is only asked for users that exist.
THEOREM TypeCorrect == Spec => []TypeOK
  BY InitType, TypeStep, PTL DEF Spec

-----------------------------------------------------------------------------
(* The terms of a row *)

\* Why the write-back of a stale snapshot harms no terms: the snapshot has the
\* terms of the row, ids are not reused, and no timestamp is in the future.
BookInv ==
  /\ \A i \in DOMAIN orders : orders[i].created_at <= now
  /\ \A s \in Sessions : pc[s] \in Settling =>
       /\ found[s] \in 1..orderSeq
       /\ match[s].created_at <= now
       /\ found[s] \in DOMAIN orders => Terms(match[s]) = Terms(orders[found[s]])

-----------------------------------------------------------------------------
(* What a step does to table orders, and to the locals of one session *)

RowsKept ==
  /\ orderSeq' = orderSeq
  /\ \/ DOMAIN orders' = DOMAIN orders
     \/ \E id \in DOMAIN orders : DOMAIN orders' = DOMAIN orders \ {id}
  /\ \A i \in DOMAIN orders' : Terms(orders'[i]) = Terms(orders[i])

RowPosted ==
  /\ orderSeq' = orderSeq + 1
  /\ DOMAIN orders' = DOMAIN orders \cup {orderSeq + 1}
  /\ \A i \in DOMAIN orders : orders'[i] = orders[i]
  /\ orders'[orderSeq + 1].created_at = now

\* Deleting a row, or deleting none, keeps the others.
LEMMA DeleteKeeps ==
  ASSUME TablesOK, NEW id, DeleteOrder(id), UNCHANGED orderSeq
  PROVE  RowsKept
<1>1. DOMAIN orders' = DOMAIN orders \ {id}
  BY DEF DeleteOrder
<1>2. \A i \in DOMAIN orders' : orders'[i] = orders[i]
  BY DEF DeleteOrder
<1>3. CASE id \in DOMAIN orders
  BY <1>1, <1>2, <1>3 DEF RowsKept
<1>4. CASE id \notin DOMAIN orders
  <2>1. DOMAIN orders' = DOMAIN orders
    BY <1>1, <1>4
  <2> QED
    BY <1>2, <2>1 DEF RowsKept
<1> QED
  BY <1>3, <1>4

\* Writing back an order with the terms of its row keeps the terms of all.
LEMMA UpdateKeeps ==
  ASSUME TablesOK, NEW id, NEW o \in Order, UpdateOrder(id, o), UNCHANGED orderSeq,
         id \in DOMAIN orders => Terms(o) = Terms(orders[id])
  PROVE  RowsKept
<1>1. DOMAIN orders' = DOMAIN orders
  BY DEF UpdateOrder
<1>2. ASSUME NEW i \in DOMAIN orders
      PROVE  Terms(orders'[i]) = Terms(orders[i])
  <2>1. CASE i # id
    BY <2>1 DEF UpdateOrder
  <2>2. CASE i = id
    <3>1. orders'[i] = [o EXCEPT !.created_at = orders[i].created_at]
      BY <2>2 DEF UpdateOrder
    <3>2. orders[i] \in Order
      BY DEF TablesOK
    <3>3. Terms(o) = Terms(orders[i])
      BY <2>2
    <3> QED
      BY <3>1, <3>2, <3>3 DEF Terms, Order
  <2> QED
    BY <2>1, <2>2
<1> QED
  BY <1>1, <1>2 DEF RowsKept

\* Every step keeps the rows or posts one, and time does not run backwards.
LEMMA OrdersStep ==
  ASSUME TypeOK, BookInv, [Next]_vars
  PROVE  (RowsKept \/ RowPosted) /\ now <= now'
<1> USE DEF TypeOK
<1>1. CASE UNCHANGED <<orders, orderSeq>> /\ now <= now'
  BY <1>1 DEF RowsKept
<1>2. ASSUME NEW s \in Sessions, SettleMatched(s)
      PROVE  (RowsKept \/ RowPosted) /\ now <= now'
  <2> DEFINE o == Less(match[s], TxQuantity(ord[s], match[s]))
  <2>1. ord[s] \in Order /\ match[s] \in Order
    BY DEF LocalsOK
  <2>2. TxQuantity(ord[s], match[s]) \in Int
    BY <2>1, TxType
  <2>3. o \in Order /\ Terms(o) = Terms(match[s])
    BY <2>1, <2>2 DEF Less, Terms, Order
  <2>4. WriteBack(found[s], o) /\ UNCHANGED <<orderSeq, now>>
    BY <1>2 DEF SettleMatched
  <2>5. found[s] \in DOMAIN orders => Terms(o) = Terms(orders[found[s]])
    BY <1>2, <2>3 DEF BookInv, SettleMatched, At, Settling
  <2> HIDE DEF o
  <2>6. DeleteOrder(found[s]) \/ UpdateOrder(found[s], o)
    BY <2>4 DEF WriteBack
  <2> QED
    BY <2>3, <2>4, <2>5, <2>6, DeleteKeeps, UpdateKeeps
<1>3. ASSUME NEW s \in Sessions, InsertOrder(s)
      PROVE  (RowsKept \/ RowPosted) /\ now <= now'
  <2>1. ord[s] \in Order
    BY DEF LocalsOK
  <2>2. UNCHANGED now /\ orderSeq' = orderSeq + 1
    BY <1>3 DEF InsertOrder, InsertRow, NewOrderID
  <2>3. orders' = [i \in DOMAIN orders \cup {orderSeq + 1} |->
                     IF i = orderSeq + 1 THEN [ord[s] EXCEPT !.created_at = now]
                     ELSE orders[i]]
    BY <1>3 DEF InsertOrder, InsertRow, WithRow, NewOrderID
  <2>4. orders'[orderSeq + 1].created_at = now
    BY <2>1, <2>3 DEF Order
  <2>5. orderSeq + 1 \notin DOMAIN orders
    BY DEF TablesOK
  <2> QED
    BY <2>2, <2>3, <2>4, <2>5 DEF RowPosted
<1>4. ASSUME NEW s \in Sessions, CancelDelete(s)
      PROVE  (RowsKept \/ RowPosted) /\ now <= now'
  <2>1. DeleteOrder(found[s]) /\ UNCHANGED <<orderSeq, now>>
    BY <1>4 DEF CancelDelete
  <2> QED
    BY <2>1, DeleteKeeps
<1>5. CASE UNCHANGED vars
  BY <1>1, <1>5 DEF vars, tables
<1>6. CASE Tick
  BY <1>1, <1>6 DEF Tick, tables
<1>7. ASSUME NEW s \in Sessions,
             \/ Issue(s) \/ IssueCancel(s) \/ StatementFails(s) \/ PrepareFails(s)
             \/ GetUser(s) \/ FindMatching(s) \/ GetOrder(s)
             \/ ArchiveMatched(s) \/ ArchiveOrder(s)
             \/ UpdateSelf(s) \/ GetCounterparty(s) \/ UpdateCounterparty(s)
             \/ InsertGetUser(s) \/ InsertUpdateUser(s)
             \/ CancelGetOrder(s) \/ CancelGetUser(s) \/ CancelUpdateUser(s)
      PROVE  UNCHANGED <<orders, orderSeq, now>>
  BY <1>7 DEF tables, Issue, IssueCancel, StatementFails, PrepareFails, GetUser,
              FindMatching, GetOrder, ArchiveMatched, ArchiveOrder, UpdateSelf,
              GetCounterparty, UpdateCounterparty, InsertGetUser,
              InsertUpdateUser, CancelGetOrder, CancelGetUser, CancelUpdateUser
<1> QED
  BY <1>1, <1>2, <1>3, <1>4, <1>5, <1>6, <1>7 DEF Next, Step, Waiting

\* The locals of session t stay, or it has just read the row it found.
LocalsStay(t) == found'[t] = found[t] /\ match'[t] = match[t] /\ ord'[t] = ord[t]
JustTaken(t) ==
  /\ At(t, "get_order") /\ TakeMatch(t)
  /\ UNCHANGED <<orders, orderSeq, now>>

\* A step of one session touches no local of another.
Acts(s) ==
  Issue(s) \/ IssueCancel(s) \/ Step(s) \/ StatementFails(s) \/ PrepareFails(s)

LEMMA OthersStay ==
  ASSUME TypeOK, NEW s \in Sessions, NEW t \in Sessions, s # t, Acts(s)
  PROVE  pc'[t] = pc[t] /\ LocalsStay(t)
  BY DEF TypeOK, Acts, LocalsStay, LocalsOK, Goto, Return, ReadWallet, InsertFails,
         locals, Issue, IssueCancel, Step, StatementFails, PrepareFails, GetUser,
         FindMatching, GetOrder, TakeMatch, ArchiveMatched, ArchiveOrder,
         UpdateSelf, GetCounterparty, UpdateCounterparty, SettleMatched,
         InsertGetUser, InsertOrder, InsertUpdateUser, CancelGetOrder,
         CancelGetUser, CancelUpdateUser, CancelDelete

\* A session that is settling a trade after a step was settling it before, with
\* the same two orders, or has just read the matched one.
LEMMA SettlingStep ==
  ASSUME TypeOK, [Next]_vars, NEW t \in Sessions, pc'[t] \in Settling
  PROVE  (pc[t] \in Settling /\ LocalsStay(t)) \/ JustTaken(t)
<1> USE DEF TypeOK
<1>1. CASE UNCHANGED <<pc, found, match, ord>>
  BY <1>1 DEF LocalsStay
<1>2. ASSUME NEW s \in Sessions, s # t, Acts(s)
      PROVE  pc'[t] = pc[t] /\ LocalsStay(t)
  BY <1>2, OthersStay
<1>3. CASE GetOrder(t)
  <2>1. CASE TakeMatch(t)
    BY <1>3, <2>1 DEF GetOrder, JustTaken, tables
  <2>2. CASE Return(t, Failure)
    BY <2>2 DEF Return, Goto, LocalsOK, Settling
  <2> QED
    BY <1>3, <2>1, <2>2 DEF GetOrder
<1>4. CASE \/ ArchiveMatched(t) \/ ArchiveOrder(t) \/ UpdateSelf(t)
           \/ GetCounterparty(t) \/ UpdateCounterparty(t)
  BY <1>4 DEF LocalsStay, At, Settling, locals, ReadWallet, ArchiveMatched,
              ArchiveOrder, UpdateSelf, GetCounterparty, UpdateCounterparty
<1>5. CASE \/ Issue(t) \/ IssueCancel(t) \/ StatementFails(t) \/ PrepareFails(t)
           \/ GetUser(t) \/ FindMatching(t) \/ SettleMatched(t)
           \/ InsertGetUser(t) \/ InsertOrder(t) \/ InsertUpdateUser(t)
           \/ CancelGetOrder(t) \/ CancelGetUser(t) \/ CancelUpdateUser(t)
           \/ CancelDelete(t)
  <2>1. pc'[t] \notin Settling
    BY <1>5 DEF LocalsOK, Settling, Goto, Return, InsertFails, Issue, IssueCancel,
                StatementFails, PrepareFails, GetUser, FindMatching, SettleMatched,
                InsertGetUser, InsertOrder, InsertUpdateUser, CancelGetOrder,
                CancelGetUser, CancelUpdateUser, CancelDelete
  <2> QED
    BY <2>1
<1>6. CASE UNCHANGED vars \/ Tick
  BY <1>1, <1>6 DEF vars, locals, Tick
<1> QED
  BY <1>2, <1>3, <1>4, <1>5, <1>6 DEF Next, Acts, Step, Waiting

\* A session that has found an order had found it before the step, or finds it
\* in the step, in a table the step leaves alone.
JustFound(t) ==
  /\ At(t, "find_matching") /\ found'[t] \in Matching(ord[t]) /\ ord'[t] = ord[t]
  /\ UNCHANGED <<orders, orderSeq, now>>

LEMMA SearchStep ==
  ASSUME TypeOK, [Next]_vars, NEW t \in Sessions, pc'[t] = "get_order"
  PROVE  (At(t, "get_order") /\ LocalsStay(t)) \/ JustFound(t) \/ PrepareFails(t)
<1> USE DEF TypeOK
<1>1. CASE UNCHANGED <<pc, found, match, ord>>
  BY <1>1 DEF LocalsStay, At
<1>2. ASSUME NEW s \in Sessions, s # t, Acts(s)
      PROVE  pc'[t] = pc[t] /\ LocalsStay(t)
  BY <1>2, OthersStay
<1>3. CASE FindMatching(t)
  <2>1. CASE Goto(t, "insert_get_user")
    BY <2>1 DEF Goto, LocalsOK
  <2>2. CASE \E id \in Matching(ord[t]) : found' = [found EXCEPT ![t] = id]
    <3>1. found'[t] \in Matching(ord[t])
      BY <2>2 DEF LocalsOK
    <3> QED
      BY <1>3, <3>1 DEF FindMatching, JustFound, tables
  <2> QED
    BY <1>3, <2>1, <2>2 DEF FindMatching
<1>4. CASE \/ Issue(t) \/ IssueCancel(t) \/ StatementFails(t)
           \/ GetUser(t) \/ GetOrder(t)
           \/ ArchiveMatched(t) \/ ArchiveOrder(t) \/ UpdateSelf(t)
           \/ GetCounterparty(t) \/ UpdateCounterparty(t) \/ SettleMatched(t)
           \/ InsertGetUser(t) \/ InsertOrder(t) \/ InsertUpdateUser(t)
           \/ CancelGetOrder(t) \/ CancelGetUser(t) \/ CancelUpdateUser(t)
           \/ CancelDelete(t)
  <2>1. pc'[t] # "get_order"
    BY <1>4 DEF LocalsOK, Goto, Return, InsertFails, TakeMatch, Issue, IssueCancel,
                StatementFails, GetUser, GetOrder, ArchiveMatched, ArchiveOrder,
                UpdateSelf, GetCounterparty, UpdateCounterparty, SettleMatched,
                InsertGetUser, InsertOrder, InsertUpdateUser, CancelGetOrder,
                CancelGetUser, CancelUpdateUser, CancelDelete
  <2> QED
    BY <2>1
<1>5. CASE UNCHANGED vars \/ Tick
  BY <1>1, <1>5 DEF vars, locals, Tick
<1> QED
  BY <1>2, <1>3, <1>4, <1>5 DEF Next, Acts, Step, Waiting, At

-----------------------------------------------------------------------------
(* The snapshots and the book *)

LEMMA BookInvInit == Init => BookInv
<1> SUFFICES ASSUME Init PROVE BookInv
  OBVIOUS
<1>1. DOMAIN orders = {}
  BY DEF Init
<1>2. \A s \in Sessions : pc[s] \notin Settling
  BY DEF Init, Settling
<1> QED
  BY <1>1, <1>2 DEF BookInv

LEMMA BookInvStep == TypeOK /\ BookInv /\ [Next]_vars => BookInv'
<1> SUFFICES ASSUME TypeOK, BookInv, [Next]_vars
             PROVE  BookInv'
  OBVIOUS
<1>1. (RowsKept \/ RowPosted) /\ now <= now'
  BY OrdersStep
<1>2. TypeOK'
  BY TypeStep
<1>3. /\ now \in Nat /\ now' \in Nat /\ orderSeq \in Nat
      /\ DOMAIN orders \subseteq 1..orderSeq
      /\ \A i \in DOMAIN orders : orders[i] \in Order
      /\ \A i \in DOMAIN orders' : orders'[i] \in Order
  BY <1>2 DEF TypeOK, TablesOK
<1>4. ASSUME NEW i \in DOMAIN orders'
      PROVE  orders'[i].created_at <= now'
  <2>1. CASE RowsKept
    <3>1. i \in DOMAIN orders /\ Terms(orders'[i]) = Terms(orders[i])
      BY <2>1 DEF RowsKept
    <3>2. orders'[i].created_at = orders[i].created_at
      BY <3>1 DEF Terms
    <3>3. orders[i].created_at <= now /\ orders[i].created_at \in Nat
      BY <1>3, <3>1 DEF BookInv, Order
    <3> QED
      BY <1>1, <1>3, <3>2, <3>3
  <2>2. CASE RowPosted /\ i \in DOMAIN orders
    <3>1. orders'[i] = orders[i]
      BY <2>2 DEF RowPosted
    <3>2. orders[i].created_at <= now /\ orders[i].created_at \in Nat
      BY <1>3, <2>2 DEF BookInv, Order
    <3> QED
      BY <1>1, <1>3, <3>1, <3>2
  <2>3. CASE RowPosted /\ i \notin DOMAIN orders
    BY <1>1, <1>3, <2>3 DEF RowPosted
  <2> QED
    BY <1>1, <2>1, <2>2, <2>3
<1>5. ASSUME NEW s \in Sessions, pc'[s] \in Settling
      PROVE  /\ found'[s] \in 1..orderSeq'
             /\ match'[s].created_at <= now'
             /\ found'[s] \in DOMAIN orders'
                  => Terms(match'[s]) = Terms(orders'[found'[s]])
  <2>1. /\ found'[s] \in 1..orderSeq
        /\ match'[s].created_at <= now
        /\ match'[s].created_at \in Nat
        /\ found'[s] \in DOMAIN orders => Terms(match'[s]) = Terms(orders[found'[s]])
    <3>1. CASE pc[s] \in Settling /\ LocalsStay(s)
      <4>1. match[s] \in Order
        BY DEF TypeOK, LocalsOK
      <4> QED
        BY <3>1, <4>1 DEF BookInv, LocalsStay, Order
    <3>2. CASE JustTaken(s)
      <4>1. /\ found'[s] = found[s] /\ found[s] \in DOMAIN orders
            /\ match'[s] = orders[found[s]]
        BY <3>2 DEF JustTaken, TakeMatch, TypeOK, LocalsOK
      <4> QED
        BY <1>3, <4>1 DEF BookInv, Order
    <3> QED
      BY <1>5, <3>1, <3>2, SettlingStep
  <2>2. CASE RowsKept
    <3>1. match'[s].created_at <= now'
      BY <1>1, <1>3, <2>1
    <3>2. /\ orderSeq' = orderSeq
          /\ \A i \in DOMAIN orders' :
               i \in DOMAIN orders /\ Terms(orders'[i]) = Terms(orders[i])
      BY <2>2 DEF RowsKept
    <3> QED
      BY <2>1, <3>1, <3>2
  <2>3. CASE RowPosted
    <3>1. found'[s] # orderSeq + 1
      BY <1>3, <2>1
    <3> QED
      BY <1>1, <1>3, <2>1, <2>3, <3>1 DEF RowPosted
  <2> QED
    BY <1>1, <2>2, <2>3
<1> QED
  BY <1>4, <1>5 DEF BookInv

LEMMA BookInvariant == Spec => [](TypeOK /\ BookInv)
<1>1. Init => TypeOK /\ BookInv
  BY InitType, BookInvInit
<1>2. TypeOK /\ BookInv /\ [Next]_vars => (TypeOK /\ BookInv)'
  BY TypeStep, BookInvStep
<1> QED
  BY <1>1, <1>2, PTL DEF Spec

\* Table orders implements Book whatever the schedule and whatever fails:
\* update_order from a stale snapshot never changes the terms of a row.
THEOREM BookRefined == Spec => BookSpec
<1>1. Init => AbstractBook!Init
  BY DEF Init, AbstractBook!Init
<1>2. TypeOK /\ BookInv /\ [Next]_vars
        => [AbstractBook!Next]_<<[i \in DOMAIN orders |-> Terms(orders[i])], orderSeq>>
  <2> SUFFICES ASSUME TypeOK, BookInv, [Next]_vars
               PROVE  [AbstractBook!Next]_<<[i \in DOMAIN orders |-> Terms(orders[i])], orderSeq>>
    OBVIOUS
  <2> DEFINE book == [i \in DOMAIN orders |-> Terms(orders[i])]
  <2>1. CASE RowsKept
    <3>1. \A i \in DOMAIN orders' : i \in DOMAIN orders
      BY <2>1 DEF RowsKept
    <3>2. \A i \in DOMAIN book' : book'[i] = book[i]
      BY <2>1, <3>1 DEF RowsKept
    <3>3. CASE DOMAIN orders' = DOMAIN orders
      <4>1. book' = book
        BY <3>2, <3>3
      <4> QED
        BY <2>1, <4>1 DEF RowsKept
    <3>4. CASE \E id \in DOMAIN orders : DOMAIN orders' = DOMAIN orders \ {id}
      <4>1. AbstractBook!Remove
        BY <2>1, <3>2, <3>4 DEF RowsKept, AbstractBook!Remove, AbstractBook!Kept
      <4> QED
        BY <4>1 DEF AbstractBook!Next
    <3> QED
      BY <2>1, <3>3, <3>4 DEF RowsKept
  <2>2. CASE RowPosted
    <3>1. \A i \in DOMAIN orders : book'[i] = book[i]
      BY <2>2 DEF RowPosted
    <3>2. book'[orderSeq'].created_at = now
      BY <2>2 DEF RowPosted, Terms
    <3>3. \A i \in DOMAIN orders : book[i].created_at <= now
      BY DEF BookInv, Terms
    <3>4. DOMAIN book' = DOMAIN book \cup {orderSeq'} /\ orderSeq' = orderSeq + 1
      BY <2>2 DEF RowPosted
    <3>5. AbstractBook!Post
      BY <3>1, <3>2, <3>3, <3>4 DEF AbstractBook!Post, AbstractBook!Kept
    <3> QED
      BY <3>5 DEF AbstractBook!Next
  <2> QED
    BY <2>1, <2>2, OrdersStep
<1> QED
  BY <1>1, <1>2, BookInvariant, PTL DEF Spec, BookSpec, AbstractBook!Spec

-----------------------------------------------------------------------------
(* The search *)

\* The order found is compatible and is still the oldest such order, unless it
\* has gone.
SearchInv ==
  /\ \A s \in Sessions : At(s, "get_order") =>
       /\ found[s] \in 1..orderSeq
       /\ found[s] \in DOMAIN orders => Compatible(ord[s], orders[found[s]])
  /\ TradesHonourOrders
  /\ TimePriority

\* Whether an order fits depends on the terms of the two orders alone, and not
\* on the timestamp of the one in hand.
LEMMA CompatibleTerms ==
  ASSUME NEW o, NEW p, NEW m, NEW n,
         Terms(m) = Terms(n),
         o.item = p.item, o.side = p.side, o.unitPrice = p.unitPrice,
         o.userID = p.userID
  PROVE  Compatible(o, m) <=> Compatible(p, n)
<1>1. m.item = n.item /\ m.side = n.side /\ m.unitPrice = n.unitPrice
      /\ m.userID = n.userID
  BY DEF Terms
<1> QED
  BY <1>1 DEF Compatible

\* find_matching_sell and find_matching_buy return an oldest compatible order.
LEMMA MatchingOldest ==
  ASSUME TypeOK, NEW o \in Order, NEW id \in Matching(o)
  PROVE  /\ id \in DOMAIN orders
         /\ Compatible(o, orders[id])
         /\ \A j \in DOMAIN orders :
              Compatible(o, orders[j]) => orders[id].created_at <= orders[j].created_at
<1>1. \A j \in DOMAIN orders : orders[j] \in Order
  BY DEF TypeOK, TablesOK
<1>2. CASE o.side = "buy"
  BY <1>1, <1>2 DEF Matching, FindMatchingSell, Oldest, Compatible, Order, Sides
<1>3. CASE o.side = "sell"
  BY <1>1, <1>3 DEF Matching, FindMatchingBuy, Oldest, Compatible, Order, Sides
<1> QED
  BY <1>2, <1>3 DEF Order, Sides

LEMMA SearchInit == Init => SearchInv
<1> SUFFICES ASSUME Init PROVE SearchInv
  OBVIOUS
<1>1. \A s \in Sessions : pc[s] = "idle"
  BY DEF Init
<1>2. \A s \in Sessions : pc[s] \notin Settling /\ ~At(s, "get_order")
  BY <1>1 DEF Settling, At
<1> QED
  BY <1>2 DEF SearchInv, TradesHonourOrders, TimePriority

\* After a step, a row is a row of before with the same terms, or the one
\* posted in the step, which is not older than any.
LEMMA RowOrigin ==
  ASSUME TypeOK, BookInv, [Next]_vars, NEW i \in DOMAIN orders'
  PROVE  \/ /\ i \in DOMAIN orders
            /\ Terms(orders'[i]) = Terms(orders[i])
            /\ orders'[i].created_at = orders[i].created_at
         \/ /\ i = orderSeq + 1
            /\ orders'[i].created_at = now
<1>1. CASE RowsKept
  BY <1>1 DEF RowsKept, Terms
<1>2. CASE RowPosted
  BY <1>2 DEF RowPosted
<1> QED
  BY <1>1, <1>2, OrdersStep

LEMMA SearchInvStep ==
  ASSUME PrepareCodes = {}
  PROVE  TypeOK /\ BookInv /\ SearchInv /\ [Next]_vars => SearchInv'
<1> SUFFICES ASSUME TypeOK, BookInv, SearchInv, [Next]_vars
             PROVE  SearchInv'
  OBVIOUS
<1>1. /\ ord \in [Sessions -> Order] /\ match \in [Sessions -> Order]
      /\ orderSeq \in Nat /\ now \in Nat
      /\ DOMAIN orders \subseteq 1..orderSeq
      /\ \A i \in DOMAIN orders : orders[i] \in Order
  BY DEF TypeOK, TablesOK, LocalsOK
<1>2. ASSUME NEW s \in Sessions, pc'[s] = "get_order"
      PROVE  /\ found'[s] \in 1..orderSeq'
             /\ found'[s] \in DOMAIN orders' =>
                  /\ Compatible(ord'[s], orders'[found'[s]])
                  /\ \A i \in DOMAIN orders' :
                       Compatible(ord'[s], orders'[i])
                         => orders'[found'[s]].created_at <= orders'[i].created_at
  <2>1. /\ ord'[s] = ord[s]
        /\ found'[s] \in 1..orderSeq
        /\ found'[s] \in DOMAIN orders =>
             /\ Compatible(ord[s], orders[found'[s]])
             /\ \A i \in DOMAIN orders :
                  Compatible(ord[s], orders[i])
                    => orders[found'[s]].created_at <= orders[i].created_at
    <3>1. CASE At(s, "get_order") /\ LocalsStay(s)
      BY <3>1 DEF SearchInv, TimePriority, LocalsStay
    <3>2. CASE JustFound(s)
      <4>1. found'[s] \in Matching(ord[s]) /\ ord'[s] = ord[s]
        BY <3>2 DEF JustFound
      <4>2. found'[s] \in DOMAIN orders
        BY <1>1, <4>1, MatchingOldest
      <4> QED
        BY <1>1, <4>1, <4>2, MatchingOldest
    <3>3. ~PrepareFails(s)
      BY DEF PrepareFails
    <3> QED
      BY <1>2, <3>1, <3>2, <3>3, SearchStep
  <2>2. orderSeq' \in Nat /\ orderSeq <= orderSeq'
    BY <1>1, OrdersStep DEF RowsKept, RowPosted
  <2>3. ASSUME found'[s] \in DOMAIN orders'
        PROVE  /\ found'[s] \in DOMAIN orders
               /\ Terms(orders'[found'[s]]) = Terms(orders[found'[s]])
               /\ orders'[found'[s]].created_at = orders[found'[s]].created_at
    <3>1. found'[s] # orderSeq + 1
      BY <1>1, <2>1
    <3> QED
      BY <2>3, <3>1, RowOrigin
  <2>4. ASSUME found'[s] \in DOMAIN orders', NEW i \in DOMAIN orders',
               Compatible(ord'[s], orders'[i])
        PROVE  orders'[found'[s]].created_at <= orders'[i].created_at
    <3>1. CASE /\ i \in DOMAIN orders
               /\ Terms(orders'[i]) = Terms(orders[i])
               /\ orders'[i].created_at = orders[i].created_at
      <4>1. Compatible(ord[s], orders[i])
        BY <2>1, <2>4, <3>1, CompatibleTerms
      <4> QED
        BY <2>1, <2>3, <2>4, <3>1, <4>1
    <3>2. CASE i = orderSeq + 1 /\ orders'[i].created_at = now
      BY <2>3, <2>4, <3>2 DEF BookInv
    <3> QED
      BY <3>1, <3>2, RowOrigin
  <2>5. ASSUME found'[s] \in DOMAIN orders'
        PROVE  Compatible(ord'[s], orders'[found'[s]])
    BY <2>1, <2>3, <2>5, CompatibleTerms
  <2> QED
    BY <1>1, <2>1, <2>2, <2>4, <2>5
<1>3. ASSUME NEW s \in Sessions, pc'[s] \in Settling
      PROVE  /\ Compatible(ord'[s], match'[s])
             /\ match'[s].created_at <= now
             /\ \A i \in DOMAIN orders :
                  Compatible(ord'[s], orders[i])
                    => match'[s].created_at <= orders[i].created_at
  <2>1. CASE pc[s] \in Settling /\ LocalsStay(s)
    BY <2>1 DEF LocalsStay, SearchInv, TradesHonourOrders, TimePriority, BookInv
  <2>2. CASE JustTaken(s)
    <3>1. /\ At(s, "get_order") /\ found[s] \in DOMAIN orders
          /\ match'[s] = orders[found[s]]
          /\ ord'[s] = [ord[s] EXCEPT !.created_at = now]
      BY <1>1, <2>2 DEF JustTaken, TakeMatch, TypeOK, LocalsOK
    <3>2. /\ ord'[s].item = ord[s].item /\ ord'[s].side = ord[s].side
          /\ ord'[s].unitPrice = ord[s].unitPrice
          /\ ord'[s].userID = ord[s].userID
      BY <1>1, <3>1 DEF Order
    <3>3. \A i \in DOMAIN orders :
            Compatible(ord'[s], orders[i]) <=> Compatible(ord[s], orders[i])
      BY <3>2 DEF Compatible
    <3> QED
      BY <3>1, <3>3 DEF SearchInv, TimePriority, BookInv
  <2> QED
    BY <1>3, <2>1, <2>2, SettlingStep
<1>4. ASSUME NEW s \in Sessions, NEW i \in DOMAIN orders', pc'[s] \in Settling,
             Compatible(ord'[s], orders'[i])
      PROVE  match'[s].created_at <= orders'[i].created_at
  <2>1. CASE /\ i \in DOMAIN orders
             /\ Terms(orders'[i]) = Terms(orders[i])
             /\ orders'[i].created_at = orders[i].created_at
    <3>1. Compatible(ord'[s], orders[i])
      BY <1>4, <2>1, CompatibleTerms
    <3> QED
      BY <1>3, <1>4, <2>1, <3>1
  <2>2. CASE i = orderSeq + 1 /\ orders'[i].created_at = now
    BY <1>3, <1>4, <2>2
  <2> QED
    BY <2>1, <2>2, RowOrigin
<1> QED
  BY <1>2, <1>3, <1>4 DEF SearchInv, TradesHonourOrders, TimePriority, At

\* Every trade the marketplace writes is between an order and a compatible one,
\* unless an SQLite error code was taken for an orderID.
THEOREM TradesAreHonest ==
  ASSUME PrepareCodes = {}
  PROVE  Spec => []TradesHonourOrders
<1>1. Init => TypeOK /\ BookInv /\ SearchInv
  BY InitType, BookInvInit, SearchInit
<1>2. TypeOK /\ BookInv /\ SearchInv /\ [Next]_vars
        => (TypeOK /\ BookInv /\ SearchInv)'
  BY TypeStep, BookInvStep, SearchInvStep
<1>3. SearchInv => TradesHonourOrders
  BY DEF SearchInv
<1> QED
  BY <1>1, <1>2, <1>3, PTL DEF Spec

\* And it is with an oldest one: no schedule lets a command trade with an order
\* while an older one that fits rests.
THEOREM TimePriorityHolds ==
  ASSUME PrepareCodes = {}
  PROVE  Spec => []TimePriority
<1>1. Init => TypeOK /\ BookInv /\ SearchInv
  BY InitType, BookInvInit, SearchInit
<1>2. TypeOK /\ BookInv /\ SearchInv /\ [Next]_vars
        => (TypeOK /\ BookInv /\ SearchInv)'
  BY TypeStep, BookInvStep, SearchInvStep
<1>3. SearchInv => TimePriority
  BY DEF SearchInv
<1> QED
  BY <1>1, <1>2, <1>3, PTL DEF Spec
=============================================================================
