--------------------------- MODULE AccountsProofs ---------------------------
(***************************************************************************)
(* What the users own, one command at a time: the coins in their wallets   *)
(* and in the book are never more than what was issued, but for a coin of  *)
(* OMG per command and what one order is worth per statement that failed,  *)
(* unless an order for a negative quantity or price is traded; and as long *)
(* as nothing is traded every user owns what he was given, again but for a *)
(* coin of OMG per command.                                                *)
(***************************************************************************)
EXTENDS Accounts, SerialProofs, FiniteSetTheorems

-----------------------------------------------------------------------------
(* Induction on the size of a set *)

\* A set that holds 0 and each successor holds every natural number.
LEMMA Induction ==
  ASSUME NEW Q, 0 \in Q, \A k \in Nat : k \in Q => k + 1 \in Q
  PROVE  Nat \subseteq Q
<1> SUFFICES ASSUME Nat \ Q # {}
             PROVE  FALSE
  OBVIOUS
<1>1. PICK m \in Nat \ Q : \A y \in Nat \ Q : m <= y
  <2> DEFINE T == Nat \ Q
  <2>1. T \subseteq Nat /\ T # {}
    OBVIOUS
  <2> HIDE DEF T
  <2>2. \E x \in T : \A y \in T : x <= y
    BY <2>1, NatMin
  <2> QED
    BY <2>2 DEF T
<1>2. m # 0 /\ m \in Nat
  OBVIOUS
<1>3. m - 1 \in Nat /\ ~(m <= m - 1) /\ (m - 1) + 1 = m
  BY <1>2
<1>4. m - 1 \in Q
  BY <1>1, <1>3
<1> QED
  BY <1>3, <1>4

-----------------------------------------------------------------------------
(* Sums over finite sets *)

Choice(s) == CHOOSE x \in s : TRUE

\* f sums g over the subsets of S, taking out one element after the other.
Sums(f, g, S) ==
  f = [s \in SUBSET S |-> IF s = {} THEN 0
                          ELSE g[Choice(s)] + f[s \ {Choice(s)}]]

\* One level of such a function, from the values of f.
Level(f, g, S) ==
  [s \in SUBSET S |-> IF s = {} THEN 0 ELSE g[Choice(s)] + f[s \ {Choice(s)}]]

\* The library sums with such a function.
LEMMA SumChosen ==
  ASSUME NEW g, NEW S
  PROVE  SumFunctionOnSet(g, S) = (CHOOSE f : Sums(f, g, S))[S]
  BY DEF SumFunctionOnSet, FoldFunctionOnSet, MapThenFoldSet, Sums, Choice

\* What is left when an element is taken out.
LEMMA Smaller ==
  ASSUME NEW S, IsFiniteSet(S), NEW s \in SUBSET S, s # {}
  PROVE  /\ Choice(s) \in s /\ s \ {Choice(s)} \in SUBSET S
         /\ Cardinality(s) \in Nat /\ Cardinality(s) >= 1
         /\ Cardinality(s \ {Choice(s)}) = Cardinality(s) - 1
<1>1. Choice(s) \in s
  BY DEF Choice
<1>2. IsFiniteSet(s)
  BY FS_Subset
<1>3. Cardinality(s) \in Nat
  BY <1>2, FS_CardinalityType
<1>4. Cardinality(s) # 0
  BY <1>2, FS_EmptySet
<1>5. Cardinality(s \ {Choice(s)}) = Cardinality(s) - 1
  BY <1>1, <1>2, FS_RemoveElement
<1> QED
  BY <1>1, <1>3, <1>4, <1>5

\* There is one.
LEMMA SumsExist ==
  ASSUME NEW g, NEW S, IsFiniteSet(S), \A x \in S : g[x] \in Int
  PROVE  \E f \in [SUBSET S -> Int] : Sums(f, g, S)
<1> DEFINE UpTo(f, k) ==
             \A s \in SUBSET S : Cardinality(s) <= k => f[s] = Level(f, g, S)[s]
           Q == {k \in Nat : \E f \in [SUBSET S -> Int] : UpTo(f, k)}
<1>1. 0 \in Q
  <2> DEFINE f == [s \in SUBSET S |-> 0]
  <2>1. ASSUME NEW s \in SUBSET S, Cardinality(s) <= 0
        PROVE  f[s] = Level(f, g, S)[s]
    <3>1. s = {}
      <4>1. s # {} => Cardinality(s) \in Nat /\ Cardinality(s) >= 1
        BY Smaller
      <4> QED
        BY <2>1, <4>1
    <3> QED
      BY <3>1 DEF Level
  <2>2. f \in [SUBSET S -> Int] /\ UpTo(f, 0)
    BY <2>1
  <2> QED
    BY <2>2
<1>2. ASSUME NEW k \in Nat, k \in Q
      PROVE  k + 1 \in Q
  <2>1. PICK f \in [SUBSET S -> Int] : UpTo(f, k)
    BY <1>2
  <2> DEFINE h == Level(f, g, S)
  <2>2. h \in [SUBSET S -> Int]
    <3>1. ASSUME NEW s \in SUBSET S, s # {}
          PROVE  g[Choice(s)] + f[s \ {Choice(s)}] \in Int
      <4>1. Choice(s) \in S /\ s \ {Choice(s)} \in SUBSET S
        BY <3>1, Smaller
      <4> QED
        BY <4>1
    <3> QED
      BY <3>1 DEF Level
  <2>3. ASSUME NEW s \in SUBSET S, Cardinality(s) <= k + 1
        PROVE  h[s] = Level(h, g, S)[s]
    <3>1. CASE s = {}
      BY <3>1 DEF Level
    <3>2. CASE s # {}
      <4> DEFINE r == s \ {Choice(s)}
      <4>1. r \in SUBSET S /\ Cardinality(r) <= k
        BY <2>3, <3>2, Smaller
      <4> HIDE DEF r
      <4>2. f[r] = h[r]
        BY <2>1, <4>1
      <4>3. h[s] = g[Choice(s)] + f[r]
        BY <3>2 DEF Level, r
      <4> HIDE DEF h
      <4>4. Level(h, g, S)[s] = g[Choice(s)] + h[r]
        BY <3>2 DEF Level, r
      <4> QED
        BY <4>2, <4>3, <4>4
    <3> QED
      BY <3>1, <3>2
  <2> HIDE DEF h
  <2>4. UpTo(h, k + 1)
    BY <2>3
  <2> QED
    BY <2>2, <2>4
<1> HIDE DEF Q
<1>3. Cardinality(S) \in Q
  <2>1. Nat \subseteq Q
    BY <1>1, <1>2, Induction
  <2> QED
    BY <2>1, FS_CardinalityType
<1>4. PICK f \in [SUBSET S -> Int] : UpTo(f, Cardinality(S))
  BY <1>3 DEF Q
<1>5. \A s \in SUBSET S : f[s] = Level(f, g, S)[s]
  BY <1>4, FS_Subset
<1>6. f = Level(f, g, S)
  BY <1>5 DEF Level
<1> QED
  BY <1>6 DEF Sums, Level

\* And only one, on the subsets of S.
LEMMA SumsAgree ==
  ASSUME NEW g, NEW S, IsFiniteSet(S), NEW T \in SUBSET S, NEW f, NEW h,
         Sums(f, g, S), Sums(h, g, T), NEW s \in SUBSET T
  PROVE  f[s] = h[s]
<1> DEFINE Q == {k \in Nat : \A r \in SUBSET T : Cardinality(r) = k => f[r] = h[r]}
<1>1. \A r \in SUBSET T : r \in SUBSET S /\ IsFiniteSet(r)
  BY FS_Subset
<1>2. \A r \in SUBSET T : /\ f[r] = Level(f, g, S)[r]
                          /\ h[r] = Level(h, g, T)[r]
  BY <1>1 DEF Sums, Level
<1>3. 0 \in Q
  <2>1. ASSUME NEW r \in SUBSET T, Cardinality(r) = 0
        PROVE  f[r] = h[r]
    <3>1. r = {}
      BY <1>1, <2>1, FS_EmptySet
    <3> QED
      BY <1>1, <1>2, <3>1 DEF Level
  <2> QED
    BY <2>1
<1>4. ASSUME NEW k \in Nat, k \in Q
      PROVE  k + 1 \in Q
  <2>1. ASSUME NEW r \in SUBSET T, Cardinality(r) = k + 1
        PROVE  f[r] = h[r]
    <3> DEFINE q == r \ {Choice(r)}
    <3>1. r # {}
      BY <1>1, <2>1, FS_EmptySet
    <3>2. q \in SUBSET T /\ Cardinality(q) = k
      BY <1>1, <2>1, <3>1, Smaller
    <3> HIDE DEF q
    <3>3. f[q] = h[q]
      BY <1>4, <3>2
    <3>4. Level(f, g, S)[r] = g[Choice(r)] + f[q] /\ Level(h, g, T)[r] = g[Choice(r)] + h[q]
      BY <1>1, <3>1 DEF Level, q
    <3> QED
      BY <1>2, <3>3, <3>4
  <2> QED
    BY <2>1
<1> HIDE DEF Q
<1>5. Cardinality(s) \in Q
  BY <1>1, <1>3, <1>4, Induction, FS_CardinalityType
<1> QED
  BY <1>5 DEF Q

\* So the sum over a subset is the value of any of them.
LEMMA SumIs ==
  ASSUME NEW g, NEW S, IsFiniteSet(S), \A x \in S : g[x] \in Int,
         NEW f \in [SUBSET S -> Int], Sums(f, g, S), NEW T \in SUBSET S
  PROVE  SumFunctionOnSet(g, T) = f[T]
<1>1. IsFiniteSet(T) /\ \A x \in T : g[x] \in Int
  BY FS_Subset
<1>2. \E h : Sums(h, g, T)
  BY <1>1, SumsExist
<1> DEFINE h == CHOOSE k : Sums(k, g, T)
<1>3. Sums(h, g, T)
  BY <1>2
<1> HIDE DEF h
<1>4. f[T] = h[T]
  BY <1>3, SumsAgree
<1> QED
  BY <1>4, SumChosen DEF h

\* The sum, by the element that is taken out first.
LEMMA SumChoice ==
  ASSUME NEW g, NEW S, IsFiniteSet(S), \A x \in S : g[x] \in Int
  PROVE  /\ SumFunctionOnSet(g, S) \in Int
         /\ S = {} => SumFunctionOnSet(g, S) = 0
         /\ S # {} => SumFunctionOnSet(g, S)
                        = g[Choice(S)] + SumFunctionOnSet(g, S \ {Choice(S)})
<1>1. PICK f \in [SUBSET S -> Int] : Sums(f, g, S)
  BY SumsExist
<1>2. \A T \in SUBSET S : SumFunctionOnSet(g, T) = f[T]
  BY <1>1, SumIs
<1>3. f[S] = Level(f, g, S)[S]
  BY <1>1 DEF Sums, Level
<1>4. S \in SUBSET S /\ S \ {Choice(S)} \in SUBSET S
  OBVIOUS
<1> QED
  BY <1>2, <1>3, <1>4 DEF Level

\* Any element may be taken out first.
LEMMA SumRemove ==
  ASSUME NEW g, NEW S, IsFiniteSet(S), \A x \in S : g[x] \in Int, NEW x \in S
  PROVE  SumFunctionOnSet(g, S) = g[x] + SumFunctionOnSet(g, S \ {x})
<1> DEFINE Q == {k \in Nat : \A s \in SUBSET S : Cardinality(s) = k =>
                   \A y \in s : SumFunctionOnSet(g, s)
                                  = g[y] + SumFunctionOnSet(g, s \ {y})}
<1>1. \A s \in SUBSET S : /\ IsFiniteSet(s) /\ Cardinality(s) \in Nat
                          /\ \A y \in s : Cardinality(s \ {y}) = Cardinality(s) - 1
  BY FS_Subset, FS_CardinalityType, FS_RemoveElement
<1>2. \A s \in SUBSET S : SumFunctionOnSet(g, s) \in Int
  BY <1>1, SumChoice
<1>3. 0 \in Q
  <2>1. ASSUME NEW s \in SUBSET S, Cardinality(s) = 0
        PROVE  s = {}
    BY <1>1, <2>1, FS_EmptySet
  <2> QED
    BY <2>1
<1>4. ASSUME NEW k \in Nat, k \in Q
      PROVE  k + 1 \in Q
  <2>1. ASSUME NEW s \in SUBSET S, Cardinality(s) = k + 1, NEW y \in s
        PROVE  SumFunctionOnSet(g, s) = g[y] + SumFunctionOnSet(g, s \ {y})
    <3> DEFINE c == Choice(s)
    <3>1. c \in s
      BY DEF Choice
    <3>2. SumFunctionOnSet(g, s) = g[c] + SumFunctionOnSet(g, s \ {c})
      BY <1>1, SumChoice
    <3> HIDE DEF c
    <3>3. CASE y = c
      BY <3>2, <3>3
    <3>4. CASE y # c
      <4> DEFINE r == s \ {c}
                 q == s \ {y}
                 p == (s \ {c}) \ {y}
      <4>1. r \in SUBSET S /\ q \in SUBSET S /\ p \in SUBSET S /\ y \in r /\ c \in q
            /\ r \ {y} = p /\ q \ {c} = p
        BY <3>1, <3>4
      <4>2. Cardinality(r) = k /\ Cardinality(q) = k
        BY <1>1, <2>1, <3>1
      <4> HIDE DEF r, q, p
      <4>3. SumFunctionOnSet(g, r) = g[y] + SumFunctionOnSet(g, p)
        BY <1>4, <4>1, <4>2
      <4>4. SumFunctionOnSet(g, q) = g[c] + SumFunctionOnSet(g, p)
        BY <1>4, <4>1, <4>2
      <4>5. g[c] \in Int /\ g[y] \in Int /\ SumFunctionOnSet(g, p) \in Int
        BY <1>2, <3>1, <4>1
      <4>6. SumFunctionOnSet(g, s) = g[c] + SumFunctionOnSet(g, r)
        BY <3>2 DEF r
      <4>7. SumFunctionOnSet(g, s) = g[y] + SumFunctionOnSet(g, q)
        BY <4>3, <4>4, <4>5, <4>6
      <4> QED
        BY <4>7 DEF q
    <3> QED
      BY <3>3, <3>4
  <2> QED
    BY <2>1
<1> HIDE DEF Q
<1>5. Cardinality(S) \in Q
  BY <1>1, <1>3, <1>4, Induction
<1> QED
  BY <1>5 DEF Q

\* Sums grow with what is summed.
LEMMA SumMonotone ==
  ASSUME NEW g, NEW h, NEW S, IsFiniteSet(S), \A x \in S : g[x] \in Int /\ h[x] \in Int,
         \A x \in S : g[x] <= h[x]
  PROVE  SumFunctionOnSet(g, S) <= SumFunctionOnSet(h, S)
<1> DEFINE Q == {k \in Nat : \A s \in SUBSET S : Cardinality(s) = k =>
                   SumFunctionOnSet(g, s) <= SumFunctionOnSet(h, s)}
<1>1. \A s \in SUBSET S : /\ IsFiniteSet(s) /\ Cardinality(s) \in Nat
                          /\ \A y \in s : Cardinality(s \ {y}) = Cardinality(s) - 1
  BY FS_Subset, FS_CardinalityType, FS_RemoveElement
<1>2. \A s \in SUBSET S : SumFunctionOnSet(g, s) \in Int /\ SumFunctionOnSet(h, s) \in Int
  BY <1>1, SumChoice
<1>3. 0 \in Q
  <2>1. ASSUME NEW s \in SUBSET S, Cardinality(s) = 0
        PROVE  SumFunctionOnSet(g, s) = 0 /\ SumFunctionOnSet(h, s) = 0
    <3>1. s = {}
      BY <1>1, <2>1, FS_EmptySet
    <3> QED
      BY <1>1, <3>1, SumChoice
  <2> QED
    BY <2>1
<1>4. ASSUME NEW k \in Nat, k \in Q
      PROVE  k + 1 \in Q
  <2>1. ASSUME NEW s \in SUBSET S, Cardinality(s) = k + 1
        PROVE  SumFunctionOnSet(g, s) <= SumFunctionOnSet(h, s)
    <3>1. s # {}
      BY <1>1, <2>1, FS_EmptySet
    <3>2. PICK y \in s : TRUE
      BY <3>1
    <3> DEFINE r == s \ {y}
    <3>3. r \in SUBSET S /\ Cardinality(r) = k
      BY <1>1, <2>1
    <3>4. /\ SumFunctionOnSet(g, s) = g[y] + SumFunctionOnSet(g, r)
          /\ SumFunctionOnSet(h, s) = h[y] + SumFunctionOnSet(h, r)
      BY <1>1, SumRemove
    <3> HIDE DEF r
    <3>5. SumFunctionOnSet(g, r) <= SumFunctionOnSet(h, r)
      BY <1>4, <3>3
    <3> QED
      BY <1>2, <3>3, <3>4, <3>5
  <2> QED
    BY <2>1
<1> HIDE DEF Q
<1>5. Cardinality(S) \in Q
  BY <1>1, <1>3, <1>4, Induction
<1> QED
  BY <1>5 DEF Q

\* Sums are equal when what is summed is.
LEMMA SumEqual ==
  ASSUME NEW g, NEW h, NEW S, IsFiniteSet(S), \A x \in S : g[x] \in Int /\ h[x] = g[x]
  PROVE  SumFunctionOnSet(h, S) = SumFunctionOnSet(g, S)
<1>1. \A x \in S : /\ g[x] \in Int /\ h[x] \in Int
                   /\ g[x] <= h[x] /\ h[x] <= g[x]
  OBVIOUS
<1>2. SumFunctionOnSet(g, S) <= SumFunctionOnSet(h, S)
  BY <1>1, SumMonotone
<1>3. SumFunctionOnSet(h, S) <= SumFunctionOnSet(g, S)
  BY <1>1, SumMonotone
<1>4. SumFunctionOnSet(g, S) \in Int /\ SumFunctionOnSet(h, S) \in Int
  BY <1>1, SumChoice
<1> QED
  BY <1>2, <1>3, <1>4

\* One summand changes.
LEMMA SumChange ==
  ASSUME NEW g, NEW h, NEW S, IsFiniteSet(S), \A x \in S : g[x] \in Int /\ h[x] \in Int,
         NEW y \in S, \A x \in S \ {y} : h[x] = g[x]
  PROVE  /\ SumFunctionOnSet(g, S) \in Int
         /\ SumFunctionOnSet(h, S) = SumFunctionOnSet(g, S) - g[y] + h[y]
<1> DEFINE r == S \ {y}
<1>1. IsFiniteSet(r)
  BY FS_Subset
<1>2. /\ SumFunctionOnSet(g, S) = g[y] + SumFunctionOnSet(g, r)
      /\ SumFunctionOnSet(h, S) = h[y] + SumFunctionOnSet(h, r)
  BY SumRemove
<1>3. SumFunctionOnSet(h, r) = SumFunctionOnSet(g, r)
  BY <1>1, SumEqual
<1>4. SumFunctionOnSet(g, r) \in Int
  BY <1>1, SumChoice
<1> QED
  BY <1>2, <1>3, <1>4

\* The same for all.
LEMMA SumConstant ==
  ASSUME NEW g, NEW S, IsFiniteSet(S), NEW n \in Int, \A x \in S : g[x] = n
  PROVE  SumFunctionOnSet(g, S) = Cardinality(S) * n
<1> DEFINE Q == {k \in Nat : \A s \in SUBSET S : Cardinality(s) = k =>
                   SumFunctionOnSet(g, s) = k * n}
<1>1. \A s \in SUBSET S : /\ IsFiniteSet(s) /\ Cardinality(s) \in Nat
                          /\ \A y \in s : Cardinality(s \ {y}) = Cardinality(s) - 1
  BY FS_Subset, FS_CardinalityType, FS_RemoveElement
<1>2. \A x \in S : g[x] \in Int
  OBVIOUS
<1>3. 0 \in Q
  <2>1. ASSUME NEW s \in SUBSET S, Cardinality(s) = 0
        PROVE  SumFunctionOnSet(g, s) = 0 * n
    <3>1. s = {}
      BY <1>1, <2>1, FS_EmptySet
    <3>2. SumFunctionOnSet(g, s) = 0
      BY <1>1, <3>1, SumChoice
    <3> QED
      BY <3>2
  <2> QED
    BY <2>1
<1>4. ASSUME NEW k \in Nat, k \in Q
      PROVE  k + 1 \in Q
  <2>1. ASSUME NEW s \in SUBSET S, Cardinality(s) = k + 1
        PROVE  SumFunctionOnSet(g, s) = (k + 1) * n
    <3>1. s # {}
      BY <1>1, <2>1, FS_EmptySet
    <3>2. PICK y \in s : TRUE
      BY <3>1
    <3> DEFINE r == s \ {y}
    <3>3. r \in SUBSET S /\ Cardinality(r) = k
      <4>1. Cardinality(r) = Cardinality(s) - 1
        BY <1>1
      <4> QED
        BY <2>1, <4>1
    <3>4. SumFunctionOnSet(g, s) = n + SumFunctionOnSet(g, r)
      BY <1>1, <1>2, SumRemove
    <3> HIDE DEF r
    <3>5. SumFunctionOnSet(g, r) = k * n
      BY <1>4, <3>3
    <3>6. (k + 1) * n = n + k * n
      OBVIOUS
    <3> QED
      BY <3>4, <3>5, <3>6
  <2> QED
    BY <2>1
<1> HIDE DEF Q
<1>5. Cardinality(S) \in Q
  BY <1>1, <1>3, <1>4, Induction
<1> QED
  BY <1>5 DEF Q

-----------------------------------------------------------------------------
(* What the invariant says *)

\* What the rows os of table orders hold for user u.
HeldIn(os, u, c) ==
  SumFunctionOnSet([i \in DOMAIN os |-> Reserved(os[i], c)],
                   {i \in DOMAIN os : os[i].userID = u})

\* What wallets us and orders os are worth to u, and to all users.
Worth(us, os, u, c) == us[u][c] + HeldIn(os, u, c)
Worths(us, os, c) == [u \in Users |-> Worth(us, os, u, c)]
TotalIn(us, os, c) == SumFunctionOnSet(Worths(us, os, c), Users)
Assets(c) == TotalIn(users, orders, c)

\* What the rounding of one command may make of nothing, of n commands,
Rounding(c) == IF c = "OMG" THEN 1 ELSE 0
Made(c, n) == IF c = "OMG" THEN n ELSE 0

\* and by how much there is more than was issued, rounded and lost to failures.
Excess(c) ==
  Assets(c) - Issued(c) - faults * LargestReserve(c) - Made(c, issued)

\* What the exact cost of a trade is.
TxExact(o, m) == TxQuantity(o, m) * m.unitPrice

\* The most that the two users of a trade of o with m get out of it.
TakerGain(o, m, c) ==
  LET n == IF c = o.item THEN TxQuantity(o, m) ELSE 0
  IN  IF o.side = "buy" THEN n - Made(c, Floor(TxExact(o, m)))
                        ELSE Made(c, Ceiling(TxExact(o, m))) - n
MakerGain(o, m, c) ==
  LET n == IF c = m.item THEN TxQuantity(o, m) ELSE 0
  IN  IF o.side = "buy" THEN Made(c, Ceiling(TxExact(o, m))) - n
                        ELSE n - Made(c, Floor(TxExact(o, m)))

\* The match of the order in hand is for the same coin: always, unless it is an
\* error code that was taken for an orderID.
Fitting(s) ==
  /\ pc[s] = "get_order" /\ found[s] \in DOMAIN orders => orders[found[s]].item = ord[s].item
  /\ pc[s] \in Settling => match[s].item = ord[s].item

\* The labels of a command that has rounded nothing yet, those of a trade before
\* the first wallet is written and between the two, and the labels at which a
\* session has created nothing.
Fresh == {"get_user", "find_matching", "cancel_get_order", "cancel_get_user",
          "cancel_update_user"}
Untraded == {"get_order", "archive_matched", "archive_order", "update_self"}
HalfPaid == {"get_counterparty", "update_counterparty"}
Balanced == {"idle", "settle_matched", "insert_get_user", "insert_order"}

ExcessOf(s, c) ==
  LET e == Excess(c) IN
  /\ pc[s] \in Fresh => e <= -Rounding(c)
  /\ pc[s] \in Untraded =>
       e <= -Rounding(c) /\ (Fitting(s) \/ e <= -(LargestReserve(c) + Rounding(c)))
  /\ pc[s] \in HalfPaid =>
       e <= LargestReserve(c) /\ e + MakerGain(ord[s], match[s], c) <= 0
  /\ pc[s] \in Balanced => e <= 0
  /\ pc[s] = "insert_update_user" => e <= Reserved(ord[s], c)
  /\ pc[s] = "cancel_delete" => e <= Reserved(match[s], c)
ExcessInv ==
  \A c \in Coins : /\ Quiet => Excess(c) <= 0
                   /\ \A s \in Sessions : ~At(s, "idle") => ExcessOf(s, c)

\* A session holds the rows it will write.
FundsOf(s) ==
  /\ pc[s] \in Checked \cup {"insert_order", "insert_update_user"} => wal[s] = users[user[s]]
  /\ pc[s] \in {"update_counterparty", "cancel_update_user"} =>
       wal[s] = users[match[s].userID]
  /\ pc[s] \in Refunding => found[s] \in DOMAIN orders /\ orders[found[s]] = match[s]
FundsInv == \A s \in Sessions : FundsOf(s)

\* A trade is written to the wallets after both of its orders are in the archives.
TradedOf(s) ==
  /\ pc[s] \in Recorded => \E k \in DOMAIN archives : archives[k] = match[s]
  /\ pc[s] \in Recorded \ {"archive_order"} => \E k \in DOMAIN archives : archives[k] = ord[s]
TradedInv == \A s \in Sessions : TradedOf(s)

\* Nothing is larger than what a command was given.
Sized(o) ==
  /\ o.item \in Items /\ o.unitPrice \in Prices
  /\ \E q \in Quantities : o.quantity = q \/ (0 <= o.quantity /\ o.quantity <= q)
SizeInv ==
  /\ \A i \in DOMAIN orders : Sized(orders[i])
  /\ \A s \in Sessions : /\ HasOrder(pc[s]) => Sized(ord[s])
                         /\ HasMatch(pc[s]) => Sized(match[s])

\* As long as nothing is traded, every user owns what he was given, up to n coins.
Owned(s, u, c) ==
  DefaultWallet[c]
    + (IF pc[s] = "insert_update_user" /\ u = user[s] THEN Reserved(ord[s], c) ELSE 0)
    + (IF pc[s] = "cancel_delete" /\ u = match[s].userID THEN Reserved(match[s], c) ELSE 0)
Near(c, x, y, n) == x - y <= Made(c, n) /\ y - x <= Made(c, n)

\* The commands that may have rounded something.
Spent(s) ==
  IF pc[s] \in {"cancel_get_order", "cancel_get_user", "cancel_update_user"}
  THEN issued - 1 ELSE issued
EscrowInv ==
  faults = 0 /\ archives = << >> =>
    /\ \A s \in Sessions : pc[s] \notin Recorded
    /\ \A u \in Users, c \in Coins :
         /\ Quiet => Near(c, Holdings(u, c), DefaultWallet[c], issued)
         /\ \A s \in Sessions :
              ~At(s, "idle") => Near(c, Holdings(u, c), Owned(s, u, c), Spent(s))

-----------------------------------------------------------------------------
(* What a statement makes of the sums *)

\* What table orders is, as far as sums over it go.
Listing(os) == \E n \in Nat : DOMAIN os \subseteq 1..n /\ \A i \in DOMAIN os : os[i] \in Order

\* What a row holds is a number of coins.
LEMMA ReservedType ==
  ASSUME NEW o \in Order, NEW c \in Coins
  PROVE  Reserved(o, c) \in Int
<1>1. o.quantity \in Int /\ o.quantity * o.unitPrice \in Int
  BY DEF Order
<1>2. Trunc(Cost(o)) \in Int
  BY <1>1, RoundBetween, TruncBetween DEF Cost
<1> QED
  BY <1>1, <1>2 DEF Reserved

\* The orders of a user are finitely many.
LEMMA HeldType ==
  ASSUME NEW os, Listing(os), NEW u, NEW c \in Coins
  PROVE  /\ IsFiniteSet({i \in DOMAIN os : os[i].userID = u})
         /\ \A i \in DOMAIN os : Reserved(os[i], c) \in Int
         /\ HeldIn(os, u, c) \in Int
<1> DEFINE A == {i \in DOMAIN os : os[i].userID = u}
           g == [i \in DOMAIN os |-> Reserved(os[i], c)]
<1>1. PICK n \in Nat : DOMAIN os \subseteq 1..n /\ \A i \in DOMAIN os : os[i] \in Order
  BY DEF Listing
<1>2. IsFiniteSet(1..n) /\ A \subseteq 1..n
  BY <1>1, FS_Interval
<1>3. IsFiniteSet(A)
  BY <1>2, FS_Subset
<1>4. \A i \in DOMAIN os : Reserved(os[i], c) \in Int
  BY <1>1, ReservedType
<1>5. \A i \in A : g[i] \in Int
  BY <1>4
<1>6. SumFunctionOnSet(g, A) \in Int
  <2> HIDE DEF g, A
  <2> QED
    BY <1>3, <1>5, SumChoice
<1> QED
  BY <1>3, <1>4, <1>6 DEF HeldIn

\* One row more.
LEMMA RowAdded ==
  ASSUME NEW os, NEW ps, Listing(os), Listing(ps), NEW i, i \notin DOMAIN os,
         DOMAIN ps = DOMAIN os \cup {i}, \A j \in DOMAIN os : ps[j] = os[j],
         NEW u, NEW c \in Coins
  PROVE  HeldIn(ps, u, c)
           = HeldIn(os, u, c) + (IF ps[i].userID = u THEN Reserved(ps[i], c) ELSE 0)
<1> DEFINE A == {j \in DOMAIN os : os[j].userID = u}
           B == {j \in DOMAIN ps : ps[j].userID = u}
           g == [j \in DOMAIN os |-> Reserved(os[j], c)]
           h == [j \in DOMAIN ps |-> Reserved(ps[j], c)]
<1>1. /\ IsFiniteSet(A) /\ \A j \in A : g[j] \in Int
      /\ IsFiniteSet(B) /\ \A j \in B : h[j] \in Int
      /\ HeldIn(os, u, c) \in Int
  BY HeldType
<1>2. \A j \in A : h[j] = g[j]
  OBVIOUS
<1>3. i \notin A /\ h[i] = Reserved(ps[i], c)
  OBVIOUS
<1>4. B = IF ps[i].userID = u THEN A \cup {i} ELSE A
  OBVIOUS
<1>5. HeldIn(os, u, c) = SumFunctionOnSet(g, A) /\ HeldIn(ps, u, c) = SumFunctionOnSet(h, B)
  BY DEF HeldIn
<1> HIDE DEF A, B, g, h
<1>6. SumFunctionOnSet(h, A) = SumFunctionOnSet(g, A)
  BY <1>1, <1>2, SumEqual
<1>7. CASE ps[i].userID = u
  <2>1. i \in B /\ B \ {i} = A
    BY <1>3, <1>4, <1>7
  <2>2. SumFunctionOnSet(h, B) = h[i] + SumFunctionOnSet(h, B \ {i})
    BY <1>1, <2>1, SumRemove
  <2>3. h[i] \in Int
    BY <1>1, <2>1
  <2> QED
    <3>1. HeldIn(ps, u, c) = h[i] + HeldIn(os, u, c)
      BY <1>5, <1>6, <2>1, <2>2
    <3> QED
      BY <1>1, <1>3, <1>7, <2>3, <3>1
<1>8. CASE ps[i].userID # u
  BY <1>1, <1>4, <1>5, <1>6, <1>8
<1> QED
  BY <1>7, <1>8

\* One row changed.
LEMMA RowChanged ==
  ASSUME NEW os, NEW ps, Listing(os), Listing(ps), DOMAIN ps = DOMAIN os, NEW i \in DOMAIN os,
         \A j \in DOMAIN os : j # i => ps[j] = os[j], ps[i].userID = os[i].userID,
         NEW u, NEW c \in Coins
  PROVE  HeldIn(ps, u, c)
           = HeldIn(os, u, c) + (IF os[i].userID = u
                                 THEN Reserved(ps[i], c) - Reserved(os[i], c) ELSE 0)
<1> DEFINE A == {j \in DOMAIN os : os[j].userID = u}
           g == [j \in DOMAIN os |-> Reserved(os[j], c)]
           h == [j \in DOMAIN ps |-> Reserved(ps[j], c)]
<1>1. /\ IsFiniteSet(A) /\ \A j \in A : g[j] \in Int /\ h[j] \in Int
      /\ HeldIn(os, u, c) \in Int
  BY HeldType
<1>2. \A j \in A : j # i => h[j] = g[j]
  OBVIOUS
<1>3. h[i] = Reserved(ps[i], c) /\ g[i] = Reserved(os[i], c)
  OBVIOUS
<1>4. A = {j \in DOMAIN ps : ps[j].userID = u} /\ (i \in A <=> os[i].userID = u)
  OBVIOUS
<1>5. HeldIn(os, u, c) = SumFunctionOnSet(g, A) /\ HeldIn(ps, u, c) = SumFunctionOnSet(h, A)
  BY <1>4 DEF HeldIn
<1> HIDE DEF A, g, h
<1>6. CASE i \in A
  <2>1. SumFunctionOnSet(h, A) = SumFunctionOnSet(g, A) - g[i] + h[i]
    BY <1>1, <1>2, <1>6, SumChange
  <2>2. g[i] \in Int /\ h[i] \in Int
    BY <1>1, <1>6
  <2> QED
    BY <1>1, <1>3, <1>4, <1>5, <1>6, <2>1, <2>2
<1>7. CASE i \notin A
  <2>1. SumFunctionOnSet(h, A) = SumFunctionOnSet(g, A)
    BY <1>1, <1>2, <1>7, SumEqual
  <2> QED
    BY <1>1, <1>4, <1>5, <1>7, <2>1
<1> QED
  BY <1>6, <1>7

\* The wallet and the orders of one user change.
LEMMA WorthChanged ==
  ASSUME IsFiniteSet(Users), NEW us \in [Users -> Wallet], NEW ws \in [Users -> Wallet],
         NEW os, NEW ps, Listing(os), Listing(ps), NEW u \in Users, NEW c \in Coins,
         \A v \in Users : v # u => Worth(ws, ps, v, c) = Worth(us, os, v, c)
  PROVE  /\ TotalIn(us, os, c) \in Int
         /\ Worth(us, os, u, c) \in Int /\ Worth(ws, ps, u, c) \in Int
         /\ TotalIn(ws, ps, c)
              = TotalIn(us, os, c) - Worth(us, os, u, c) + Worth(ws, ps, u, c)
<1> DEFINE g == Worths(us, os, c)
           h == Worths(ws, ps, c)
<1>1. ASSUME NEW v \in Users
      PROVE  /\ g[v] \in Int /\ h[v] \in Int
             /\ g[v] = Worth(us, os, v, c) /\ h[v] = Worth(ws, ps, v, c)
  <2>1. us[v][c] \in Int /\ ws[v][c] \in Int
    BY DEF Wallet
  <2>2. HeldIn(os, v, c) \in Int /\ HeldIn(ps, v, c) \in Int
    BY HeldType
  <2> QED
    BY <2>1, <2>2 DEF Worths, Worth
<1>2. \A v \in Users \ {u} : h[v] = g[v]
  BY <1>1
<1> HIDE DEF g, h
<1>3. /\ SumFunctionOnSet(g, Users) \in Int
      /\ SumFunctionOnSet(h, Users) = SumFunctionOnSet(g, Users) - g[u] + h[u]
  BY <1>1, <1>2, SumChange
<1> QED
  BY <1>1, <1>3 DEF TotalIn, g, h

\* This is what Accounts calls the total.
LEMMA TotalIs ==
  ASSUME NEW c \in Coins
  PROVE  Total(c) = TotalIn(users, orders, c)
<1>1. \A u \in Users : Holdings(u, c) = Worth(users, orders, u, c)
  BY DEF Holdings, Reserves, OrdersOf, HeldIn, Worth
<1> QED
  BY <1>1 DEF Total, SumFunction, SumFunctionOnSet, FoldFunction, TotalIn, Worths

-----------------------------------------------------------------------------
(* What a trade makes of two wallets *)

\* One coin of a wallet after it is written.
LEMMA CoinOf ==
  ASSUME NEW w \in Wallet, NEW c \in Coins, NEW d \in Coins, NEW n
  PROVE  /\ AddCoin(w, c, n)[d] = IF d = c THEN w[d] + n ELSE w[d]
         /\ AddCost(w, n)[d] = IF d = "OMG" THEN AddOMG(w[d], n) ELSE w[d]
  BY DEF AddCoin, AddCost, Wallet

\* The quantity of a trade, its exact cost and the rounded one.
LEMMA TxOf ==
  ASSUME NEW o \in Order, NEW m \in Order
  PROVE  /\ TxQuantity(o, m) \in Int /\ TxExact(o, m) \in Int
         /\ TxCost(o, m) = Round(TxExact(o, m)) /\ TxCost(o, m) \in Int
         /\ Floor(TxExact(o, m)) \in Int /\ Ceiling(TxExact(o, m)) \in Int
<1>1. TxQuantity(o, m) \in Int /\ TxCost(o, m) \in Int
  BY TxType
<1>2. TxExact(o, m) \in Int
  BY <1>1 DEF TxExact, Order
<1> QED
  BY <1>1, <1>2, WholeCoins DEF TxExact, TxCost

\* Who gives the order gets TakerGain at most,
LEMMA TakerGains ==
  ASSUME NEW o \in Order, NEW m \in Order, NEW w \in Wallet, NEW c \in Coins
  PROVE  /\ TakerGain(o, m, c) \in Int
         /\ w[c] \in Int /\ TakerWallet(o, m, w)[c] \in Int
         /\ TakerWallet(o, m, w)[c] - w[c] <= TakerGain(o, m, c)
<1> DEFINE n == TxQuantity(o, m)
           x == TxExact(o, m)
           k == TxCost(o, m)
           b == w[c]
           z == TakerWallet(o, m, w)[c]
<1>1. /\ n \in Int /\ -n \in Int /\ x \in Int /\ k = Round(x) /\ k \in Int /\ -k \in Int
      /\ Floor(x) \in Int /\ Ceiling(x) \in Int /\ b \in Int
      /\ o.item \in Coins /\ "OMG" \in Coins
  BY TxOf DEF Order, Wallet, Coins
<1>2. AddCost(w, -k) \in Wallet /\ AddCoin(w, o.item, -n) \in Wallet
  <2> HIDE DEF k, n
  <2> QED
    BY <1>1, AddCostType, AddCoinType
<1>3. TakerGain(o, m, c)
        = IF o.side = "buy"
          THEN (IF c = o.item THEN n ELSE 0) - (IF c = "OMG" THEN Floor(x) ELSE 0)
          ELSE (IF c = "OMG" THEN Ceiling(x) ELSE 0) - (IF c = o.item THEN n ELSE 0)
  BY DEF TakerGain, Made
<1>4. CASE o.side = "buy"
  <2>1. z = (IF c = "OMG" THEN AddOMG(b, -k) ELSE b) + (IF c = o.item THEN n ELSE 0)
    <3>1. AddCost(w, -k)[c] = IF c = "OMG" THEN AddOMG(b, -k) ELSE b
      BY <1>1, CoinOf
    <3>2. AddCost(w, -k)[c] \in Int
      BY <1>2 DEF Wallet
    <3>3. z = IF c = o.item THEN AddCost(w, -k)[c] + n ELSE AddCost(w, -k)[c]
      BY <1>1, <1>2, <1>4, CoinOf DEF TakerWallet
    <3> HIDE DEF k, n, z
    <3> QED
      BY <3>1, <3>2, <3>3
  <2>2. AddOMG(b, -k) \in Int /\ AddOMG(b, -k) <= b - Floor(x)
    BY <1>1, CostBounds
  <2> HIDE DEF n, x, k, b, z
  <2> QED
    <3>1. z \in Int /\ z - b <= TakerGain(o, m, c) /\ TakerGain(o, m, c) \in Int
      BY <1>1, <1>3, <1>4, <2>1, <2>2
    <3> QED
      BY <1>1, <3>1 DEF b, z
<1>5. CASE o.side # "buy"
  <2> DEFINE y == IF c = o.item THEN b + (-n) ELSE b
  <2>1. z = IF c = "OMG" THEN AddOMG(y, k) ELSE y
    <3>1. AddCoin(w, o.item, -n)[c] = y
      BY <1>1, CoinOf
    <3> QED
      BY <1>2, <1>5, <3>1, CoinOf DEF TakerWallet
  <2>2. y \in Int
    BY <1>1
  <2>3. AddOMG(y, k) \in Int /\ AddOMG(y, k) <= y + Ceiling(x)
    <3> HIDE DEF y
    <3> QED
      BY <1>1, <2>2, CostBounds
  <2> HIDE DEF n, x, k, b, z
  <2> QED
    <3>1. z \in Int /\ z - b <= TakerGain(o, m, c) /\ TakerGain(o, m, c) \in Int
      BY <1>1, <1>3, <1>5, <2>1, <2>2, <2>3
    <3> QED
      BY <1>1, <3>1 DEF b, z
<1> QED
  BY <1>4, <1>5

\* and the other user MakerGain.
LEMMA MakerGains ==
  ASSUME NEW o \in Order, NEW m \in Order, NEW w \in Wallet, NEW c \in Coins
  PROVE  /\ MakerGain(o, m, c) \in Int
         /\ w[c] \in Int /\ MakerWallet(o, m, w)[c] \in Int
         /\ MakerWallet(o, m, w)[c] - w[c] <= MakerGain(o, m, c)
<1> DEFINE n == TxQuantity(o, m)
           x == TxExact(o, m)
           k == TxCost(o, m)
           b == w[c]
           z == MakerWallet(o, m, w)[c]
           p == AddCost(w, k)
           q == AddCost(w, -k)
<1>1. /\ n \in Int /\ -n \in Int /\ x \in Int /\ k = Round(x) /\ k \in Int /\ -k \in Int
      /\ Floor(x) \in Int /\ Ceiling(x) \in Int /\ b \in Int
      /\ m.item \in Coins /\ "OMG" \in Coins
  BY TxOf DEF Order, Wallet, Coins
<1>2. p \in Wallet /\ q \in Wallet
  <2> HIDE DEF k
  <2> QED
    BY <1>1, AddCostType
<1>3. MakerGain(o, m, c)
        = IF o.side = "buy"
          THEN (IF c = "OMG" THEN Ceiling(x) ELSE 0) - (IF c = m.item THEN n ELSE 0)
          ELSE (IF c = m.item THEN n ELSE 0) - (IF c = "OMG" THEN Floor(x) ELSE 0)
  BY DEF MakerGain, Made
<1>4. /\ p[c] = IF c = "OMG" THEN AddOMG(b, k) ELSE b
      /\ q[c] = IF c = "OMG" THEN AddOMG(b, -k) ELSE b
  BY <1>1, CoinOf
<1>5. /\ AddOMG(b, -k) \in Int /\ AddOMG(b, -k) <= b - Floor(x)
      /\ AddOMG(b, k) \in Int /\ AddOMG(b, k) <= b + Ceiling(x)
  BY <1>1, CostBounds
<1>6. /\ o.side = "buy" => z = IF c = m.item THEN p[c] + (-n) ELSE p[c]
      /\ o.side # "buy" => z = IF c = m.item THEN q[c] + n ELSE q[c]
  <2>1. /\ o.side = "buy" => MakerWallet(o, m, w) = AddCoin(p, m.item, -n)
        /\ o.side # "buy" => MakerWallet(o, m, w) = AddCoin(q, m.item, n)
    BY DEF MakerWallet
  <2> HIDE DEF p, q, n
  <2> QED
    BY <1>1, <1>2, <2>1, CoinOf
<1> HIDE DEF n, x, k, b, z, p, q
<1>7. z \in Int /\ z - b <= MakerGain(o, m, c) /\ MakerGain(o, m, c) \in Int
  BY <1>1, <1>3, <1>4, <1>5, <1>6
<1> QED
  BY <1>1, <1>7 DEF b, z

\* Two orders for the same coin make a coin at most,
LEMMA FairTrade ==
  ASSUME NEW o \in Order, NEW m \in Order, NEW c \in Coins, o.item = m.item
  PROVE  TakerGain(o, m, c) + MakerGain(o, m, c) <= Rounding(c)
<1> DEFINE n == TxQuantity(o, m)
           f == Floor(TxExact(o, m))
           g == Ceiling(TxExact(o, m))
<1>1. n \in Int /\ f \in Int /\ g \in Int /\ g <= f + 1
  BY TxOf, WholeCoins
<1>2. /\ TakerGain(o, m, c) = IF o.side = "buy" THEN (IF c = o.item THEN n ELSE 0) - Made(c, f)
                              ELSE Made(c, g) - (IF c = o.item THEN n ELSE 0)
      /\ MakerGain(o, m, c) = IF o.side = "buy" THEN Made(c, g) - (IF c = o.item THEN n ELSE 0)
                              ELSE (IF c = o.item THEN n ELSE 0) - Made(c, f)
  BY DEF TakerGain, MakerGain
<1> HIDE DEF n, f, g
<1> QED
  BY <1>1, <1>2 DEF Made, Rounding

\* and any two that are not negative what a bound L of the trade says.
LEMMA AnyTrade ==
  ASSUME NEW o \in Order, NEW m \in Order, NEW c \in Coins, NEW L \in Nat,
         TxQuantity(o, m) >= 0, TxExact(o, m) >= 0,
         c \in {o.item, m.item} => TxQuantity(o, m) <= L,
         c = "OMG" => Floor(TxExact(o, m)) <= L
  PROVE  /\ TakerGain(o, m, c) <= L + Rounding(c)
         /\ TakerGain(o, m, c) + MakerGain(o, m, c) <= L + Rounding(c)
<1> DEFINE n == TxQuantity(o, m)
           f == Floor(TxExact(o, m))
           g == Ceiling(TxExact(o, m))
<1>1. n \in Nat /\ f \in Nat /\ g \in Nat /\ g <= f + 1
  BY TxOf, WholeCoins
<1>2. /\ TakerGain(o, m, c) = IF o.side = "buy" THEN (IF c = o.item THEN n ELSE 0) - Made(c, f)
                              ELSE Made(c, g) - (IF c = o.item THEN n ELSE 0)
      /\ MakerGain(o, m, c) = IF o.side = "buy" THEN Made(c, g) - (IF c = m.item THEN n ELSE 0)
                              ELSE (IF c = m.item THEN n ELSE 0) - Made(c, f)
  BY DEF TakerGain, MakerGain
<1>3. (c = o.item => n <= L) /\ (c = m.item => n <= L) /\ (c = "OMG" => f <= L)
  OBVIOUS
<1> HIDE DEF n, f, g
<1> QED
  BY <1>1, <1>2, <1>3 DEF Made, Rounding

\* insert_order takes what the order then holds.
LEMMA ReserveGains ==
  ASSUME NEW o \in Order, NEW w \in Wallet, NEW c \in Coins
  PROVE  /\ w[c] \in Int /\ Reserved(o, c) \in Int
         /\ Reserve(o, w)[c] = w[c] - Reserved(o, c)
<1> DEFINE k == Trunc(Cost(o))
<1>1. o.quantity \in Int /\ o.item \in Coins /\ "OMG" \in Coins
  BY DEF Order, Coins
<1>2. w[c] \in Int /\ Reserved(o, c) \in Int
  BY ReservedType DEF Wallet
<1>3. k \in Int
  <2>1. o.quantity * o.unitPrice \in Int
    BY DEF Order
  <2> QED
    BY <2>1, RoundBetween, TruncBetween DEF Cost
<1>4. Reserve(o, w)[c] = w[c] - Reserved(o, c)
  <2> HIDE DEF k
  <2>1. Reserve(o, w) = IF o.side = "buy" THEN AddCoin(w, "OMG", -k)
                                        ELSE AddCoin(w, o.item, -o.quantity)
    BY DEF Reserve, k
  <2>2. Reserved(o, c) = IF o.side = "buy" THEN IF c = "OMG" THEN k ELSE 0
                         ELSE IF c = o.item THEN o.quantity ELSE 0
    BY DEF Reserved, k
  <2> QED
    BY <1>1, <1>2, <1>3, <2>1, <2>2, CoinOf
<1> QED
  BY <1>2, <1>4

\* What cancel_order gives back is what the order held, up to a coin of OMG.
LEMMA RefundGains ==
  ASSUME NEW o \in Order, NEW w \in Wallet, NEW c \in Coins
  PROVE  /\ w[c] \in Int /\ Reserved(o, c) \in Int /\ Refund(o, w)[c] \in Int
         /\ Refund(o, w)[c] <= w[c] + Reserved(o, c) + Rounding(c)
         /\ Refund(o, w)[c] >= w[c] + Reserved(o, c) - Rounding(c)
<1> DEFINE x == o.quantity * o.unitPrice
           b == w[c]
           r == Reserved(o, c)
           z == Refund(o, w)[c]
<1>1. o.quantity \in Int /\ o.item \in Coins /\ "OMG" \in Coins /\ x \in Int
  BY DEF Order, Coins
<1>2. b \in Int /\ r \in Int
  BY ReservedType DEF Wallet
<1>3. z = IF o.side = "buy" THEN IF c = "OMG" THEN AddOMG(b, Round(x)) ELSE b
          ELSE IF c = o.item THEN b + o.quantity ELSE b
  BY <1>1, CoinOf DEF Refund, Cost
<1>4. r = IF o.side = "buy" THEN IF c = "OMG" THEN Trunc(Round(x)) ELSE 0
          ELSE IF c = o.item THEN o.quantity ELSE 0
  BY DEF Reserved, Cost
<1> HIDE DEF x, b, r, z
<1>5. /\ Trunc(Round(x)) \in Int /\ AddOMG(b, Round(x)) \in Int
      /\ Floor(x) <= Trunc(Round(x)) /\ Trunc(Round(x)) <= Ceiling(x)
      /\ b + Floor(x) <= AddOMG(b, Round(x)) /\ AddOMG(b, Round(x)) <= b + Ceiling(x)
      /\ Floor(x) \in Int /\ Ceiling(x) \in Int /\ Ceiling(x) <= Floor(x) + 1
  BY <1>1, <1>2, CostBounds, WholeCoins
<1>6. z \in Int /\ z <= b + r + Rounding(c) /\ z >= b + r - Rounding(c)
  BY <1>1, <1>2, <1>3, <1>4, <1>5 DEF Rounding
<1> QED
  BY <1>2, <1>6 DEF b, r, z

-----------------------------------------------------------------------------
(* The largest order *)

\* A finite set of integers has a bound.
LEMMA Bounded ==
  ASSUME NEW S, S \subseteq Int, IsFiniteSet(S)
  PROVE  \E b \in Nat : \A x \in S : x <= b /\ -x <= b
<1> DEFINE Low(s) == \E b \in Nat : \A x \in s : x <= b /\ -x <= b
           Q == {k \in Nat : \A s \in SUBSET S : Cardinality(s) = k => Low(s)}
<1>1. \A s \in SUBSET S : /\ IsFiniteSet(s) /\ Cardinality(s) \in Nat
                          /\ \A y \in s : Cardinality(s \ {y}) = Cardinality(s) - 1
  BY FS_Subset, FS_CardinalityType, FS_RemoveElement
<1>2. 0 \in Q
  <2>1. ASSUME NEW s \in SUBSET S, Cardinality(s) = 0
        PROVE  Low(s)
    <3>1. s = {}
      BY <1>1, <2>1, FS_EmptySet
    <3> QED
      BY <3>1
  <2> HIDE DEF Low
  <2> QED
    BY <2>1
<1>3. ASSUME NEW k \in Nat, k \in Q
      PROVE  k + 1 \in Q
  <2>1. ASSUME NEW s \in SUBSET S, Cardinality(s) = k + 1
        PROVE  Low(s)
    <3>1. s # {}
      BY <1>1, <2>1, FS_EmptySet
    <3>2. PICK y \in s : TRUE
      BY <3>1
    <3>3. y \in Int /\ s \ {y} \in SUBSET S /\ Cardinality(s \ {y}) = k
      <4>1. Cardinality(s \ {y}) = Cardinality(s) - 1
        BY <1>1
      <4> QED
        BY <2>1, <4>1
    <3>4. PICK b \in Nat : \A x \in s \ {y} : x <= b /\ -x <= b
      BY <1>3, <3>3
    <3> DEFINE d == IF y >= 0 THEN y ELSE -y
    <3>5. d \in Nat /\ y <= d /\ -y <= d
      BY <3>3
    <3> HIDE DEF d
    <3>6. b + d \in Nat /\ \A x \in s : x <= b + d /\ -x <= b + d
      BY <3>3, <3>4, <3>5
    <3> QED
      BY <3>6
  <2> HIDE DEF Low
  <2> QED
    BY <2>1
<1> HIDE DEF Q
<1>4. Cardinality(S) \in Q
  BY <1>1, <1>2, <1>3, Induction
<1> QED
  BY <1>4 DEF Q

\* And, unless it is empty, a largest element.
LEMMA BoundedMax ==
  ASSUME NEW S, S \subseteq Int, S # {}, NEW b \in Int, \A x \in S : x <= b
  PROVE  Max(S) \in S /\ \A x \in S : x <= Max(S)
<1> DEFINE T == {b - x : x \in S}
<1>0. \A x \in S : x \in Int /\ b - x \in Nat
  OBVIOUS
<1>1. T \subseteq Nat /\ T # {}
  BY <1>0
<1>2. PICK y \in T : \A z \in T : y <= z
  <2> HIDE DEF T
  <2> QED
    BY <1>1, NatMin
<1>3. PICK x \in S : y = b - x
  OBVIOUS
<1>4. \A z \in S : b - z \in T
  OBVIOUS
<1>5. ASSUME NEW z \in S
      PROVE  x >= z
  <2>1. x \in Int /\ z \in Int
    OBVIOUS
  <2>2. b - z \in T
    OBVIOUS
  <2>3. y <= b - z
    BY <1>2, <2>2
  <2> QED
    BY <1>3, <2>1, <2>3
<1>6. x \in S /\ \A z \in S : x >= z
  BY <1>3, <1>5
<1>7. \A z \in S : z \in Int
  OBVIOUS
<1> DEFINE M == CHOOSE z \in S : \A v \in S : z >= v
<1>8. M \in S /\ \A v \in S : M >= v
  BY <1>6
<1>9. Max(S) = M
  BY DEF Max
<1> HIDE DEF M
<1> QED
  BY <1>7, <1>8, <1>9

\* A larger product costs more coins.
LEMMA CoinsMonotone ==
  ASSUME NEW x \in Int, NEW y \in Nat, x <= y
  PROVE  /\ Trunc(Round(x)) \in Int /\ Trunc(Round(y)) \in Nat
         /\ Trunc(Round(x)) <= Trunc(Round(y))
<1>1. /\ Round(x) \in Int /\ Round(y) \in Int
      /\ Trunc(Round(x)) \in Int /\ Trunc(Round(y)) \in Int
  BY RoundBetween, CostBounds
<1>2. /\ y >= 0 => 0 <= Trunc(Round(y))
      /\ x <= 0 => Trunc(Round(x)) <= 0
  <2>1. 0 \in Int /\ 0 * Scale = 0 /\ y \in Int
    BY DoublesAssumption
  <2>2. y >= 0 => 0 <= Trunc(Round(y))
    BY <2>1, CoinBounds
  <2>3. x <= 0 => Trunc(Round(x)) <= 0
    BY <2>1, CoinBounds
  <2> QED
    BY <2>2, <2>3
<1>3. CASE x >= 0
  <2>1. Round(x) <= Round(y)
    BY <1>3, RoundMonotone
  <2> QED
    BY <1>1, <1>2, <2>1, TruncMonotone
<1>4. CASE x < 0
  BY <1>1, <1>2, <1>4
<1> QED
  BY <1>3, <1>4

\* A product is at most that of bounds of its factors.
LEMMA ProductBound ==
  ASSUME NEW a \in Nat, NEW b \in Nat, NEW q \in Int, NEW p \in Int,
         q <= a, -q <= a, p <= b, -p <= b
  PROVE  q * p \in Int /\ a * b \in Nat /\ q * p <= a * b
<1>1. ASSUME NEW r \in Nat, NEW t \in Int, r <= a, t <= b
      PROVE  r * t <= a * b
  <2>1. r * t <= r * b
    BY <1>1
  <2>2. r * b <= a * b
    BY <1>1
  <2>3. r * t \in Int /\ r * b \in Int /\ a * b \in Int
    OBVIOUS
  <2> QED
    BY <2>1, <2>2, <2>3
<1>2. CASE q >= 0
  BY <1>1, <1>2
<1>3. CASE q < 0
  <2>1. -q \in Nat /\ -p \in Int /\ (-q) * (-p) = q * p
    BY <1>3
  <2>2. (-q) * (-p) <= a * b
    BY <1>1, <2>1
  <2> QED
    BY <2>1, <2>2
<1> QED
  BY <1>2, <1>3

\* No order that is sized holds more than LargestReserve.
LEMMA Largest ==
  ASSUME IsFiniteSet(Quantities), IsFiniteSet(Prices), NEW c \in Coins
  PROVE  /\ LargestReserve(c) \in Nat
         /\ \A o \in Order : Sized(o) => Reserved(o, c) <= LargestReserve(c)
<1> DEFINE B(i, d, q, p) == [BlankOrder EXCEPT !.item = i, !.side = d, !.quantity = q,
                                               !.unitPrice = p]
           S == {Reserved(B(i, d, q, p), c) :
                   i \in Items, d \in Sides, q \in Quantities, p \in Prices}
           U == {0} \cup S
<1>1. /\ \A q \in Quantities : q \in Int
      /\ \A p \in Prices : p \in Int
      /\ \A i \in Items : i \in Coins
      /\ Quantities \subseteq Int /\ Prices \subseteq Int
  BY MarketAssumption
<1>2. PICK a \in Nat : \A q \in Quantities : q <= a /\ -q <= a
  BY <1>1, Bounded
<1>3. PICK b \in Nat : \A p \in Prices : p <= b /\ -p <= b
  BY <1>1, Bounded
<1>4. ASSUME NEW i \in Items, NEW d \in Sides, NEW q \in Quantities, NEW p \in Prices
      PROVE  /\ B(i, d, q, p) \in Order
             /\ B(i, d, q, p).item = i /\ B(i, d, q, p).side = d
             /\ B(i, d, q, p).quantity = q /\ B(i, d, q, p).unitPrice = p
  <2>1. B(i, d, q, p) = [item |-> i, side |-> d, quantity |-> q, unitPrice |-> p,
                         userID |-> 0, created_at |-> 0]
    <3> DEFINE r(j, e, n, l) == [item |-> j, side |-> e, quantity |-> n, unitPrice |-> l,
                                 userID |-> 0, created_at |-> 0]
    <3>1. /\ [r("OMG", "buy", 0, 0) EXCEPT !.item = i] = r(i, "buy", 0, 0)
          /\ [r(i, "buy", 0, 0) EXCEPT !.side = d] = r(i, d, 0, 0)
          /\ [r(i, d, 0, 0) EXCEPT !.quantity = q] = r(i, d, q, 0)
          /\ [r(i, d, q, 0) EXCEPT !.unitPrice = p] = r(i, d, q, p)
      OBVIOUS
    <3>2. B(i, d, q, p) = [[[[BlankOrder EXCEPT !.item = i] EXCEPT !.side = d]
                                         EXCEPT !.quantity = q] EXCEPT !.unitPrice = p]
      OBVIOUS
    <3>3. BlankOrder = r("OMG", "buy", 0, 0)
      BY DEF BlankOrder
    <3> QED
      BY <3>1, <3>2, <3>3
  <2> HIDE DEF B
  <2>2. i \in Coins /\ q \in Int /\ p \in Int
    BY <1>1
  <2> QED
    BY <2>1, <2>2 DEF Order
<1> DEFINE N == a + Trunc(Round(a * b))
<1>5. a * b \in Nat /\ Trunc(Round(a * b)) \in Nat /\ N \in Nat
  <2>1. a * b \in Nat /\ a * b <= a * b
    OBVIOUS
  <2> QED
    BY <2>1, CoinsMonotone
<1>6. ASSUME NEW i \in Items, NEW d \in Sides, NEW q \in Quantities, NEW p \in Prices
      PROVE  Reserved(B(i, d, q, p), c) \in Int /\ Reserved(B(i, d, q, p), c) <= N
  <2>1. q \in Int /\ p \in Int /\ q <= a
    BY <1>1, <1>2
  <2>2. q * p \in Int /\ q * p <= a * b
    BY <1>2, <1>3, <2>1, ProductBound
  <2>3. Trunc(Round(q * p)) \in Int /\ Trunc(Round(q * p)) <= Trunc(Round(a * b))
    BY <1>5, <2>2, CoinsMonotone
  <2>4. Reserved(B(i, d, q, p), c)
          = IF d = "buy" THEN IF c = "OMG" THEN Trunc(Round(q * p)) ELSE 0
            ELSE IF c = i THEN q ELSE 0
    <3> HIDE DEF B
    <3> QED
      BY <1>4 DEF Reserved, Cost
  <2> HIDE DEF B
  <2> QED
    BY <1>5, <2>1, <2>3, <2>4
<1>7. U \subseteq Int /\ U # {} /\ \A x \in U : x <= N
  <2> HIDE DEF B, N
  <2> QED
    BY <1>5, <1>6
<1>8. Max(U) \in U /\ \A x \in U : x <= Max(U)
  <2> HIDE DEF U, N
  <2>1. N \in Int
    BY <1>5
  <2>2. U \subseteq Int /\ U # {}
    BY <1>7
  <2>3. \A x \in U : x <= N
    BY <1>7
  <2> QED
    BY <2>1, <2>2, <2>3, BoundedMax, Zenon
<1>9. LargestReserve(c) = Max(U)
  BY DEF LargestReserve
<1>10. Max(U) \in Nat
  <2>1. 0 \in U
    OBVIOUS
  <2> DEFINE M == Max(U)
  <2>2. M \in U /\ 0 <= M
    <3> HIDE DEF U
    <3> QED
      BY <1>8, <2>1, Zenon
  <2> HIDE DEF M, U
  <2>3. M \in Nat
    BY <1>7, <2>2
  <2> QED
    BY <2>3 DEF M
<1>11. ASSUME NEW o \in Order, Sized(o)
       PROVE  Reserved(o, c) <= Max(U)
  <2>1. PICK q \in Quantities : o.quantity = q \/ (0 <= o.quantity /\ o.quantity <= q)
    BY <1>11 DEF Sized
  <2>2. /\ o.item \in Items /\ o.side \in Sides /\ o.unitPrice \in Prices
        /\ o.quantity \in Int /\ q \in Int /\ o.unitPrice \in Int
    BY <1>1, <1>11 DEF Sized, Order
  <2> DEFINE m == B(o.item, o.side, q, o.unitPrice)
  <2>3. /\ m \in Order /\ m.item = o.item /\ m.side = o.side
        /\ m.quantity = q /\ m.unitPrice = o.unitPrice
    <3> HIDE DEF B
    <3> QED
      BY <1>4, <2>2
  <2>4. Reserved(m, c) \in U
    <3> HIDE DEF B
    <3> QED
      BY <2>2
  <2> HIDE DEF m, B, U, N
  <2>5. Reserved(m, c) <= Max(U) /\ Reserved(m, c) \in Int /\ Reserved(o, c) \in Int
    BY <1>7, <1>8, <2>3, <2>4, ReservedType
  <2>6. CASE o.quantity = q
    <3>1. Reserved(o, c) = Reserved(m, c)
      BY <2>3, <2>6 DEF Reserved, Cost
    <3> QED
      BY <2>5, <3>1
  <2>7. CASE 0 <= o.quantity /\ o.quantity <= q
    <3> DEFINE x == o.quantity * o.unitPrice
               y == q * o.unitPrice
    <3>1. x \in Int /\ y \in Int
      BY <2>2
    <3>2. CASE o.unitPrice >= 0
      <4>1. y \in Nat /\ x <= y
        BY <2>2, <2>7, <3>2
      <4> HIDE DEF x, y
      <4>2. Trunc(Round(x)) <= Trunc(Round(y))
        BY <3>1, <4>1, CoinsMonotone
      <4>3. Reserved(o, c) <= Reserved(m, c)
        BY <2>2, <2>3, <2>7, <4>2 DEF Reserved, Cost, x, y
      <4> QED
        BY <1>10, <2>5, <4>3
    <3>3. CASE o.unitPrice < 0
      <4>1. x <= 0
        BY <2>2, <2>7, <3>3
      <4> HIDE DEF x
      <4>2. Trunc(Round(x)) <= 0 /\ Trunc(Round(x)) \in Int
        <5>1. 0 \in Int /\ x <= 0 * Scale
          BY <4>1, DoublesAssumption
        <5> QED
          BY <3>1, <5>1, CoinBounds
      <4>3. o.side = "buy" => Reserved(o, c) <= 0
        BY <4>2 DEF Reserved, Cost, x
      <4>4. o.side # "buy" => Reserved(o, c) <= Reserved(m, c)
        BY <2>2, <2>3, <2>7 DEF Reserved
      <4> QED
        BY <1>10, <2>5, <4>3, <4>4
    <3> QED
      BY <2>2, <3>2, <3>3
  <2> QED
    BY <2>1, <2>6, <2>7
<1> HIDE DEF U, N
<1> QED
  BY <1>9, <1>10, <1>11

\* What is no order of the user is sized like one.
LEMMA SizedPart ==
  ASSUME NEW o \in Order, Sized(o), NEW p \in Order, p.item = o.item,
         p.unitPrice = o.unitPrice, 0 <= p.quantity, p.quantity <= o.quantity
  PROVE  Sized(p)
<1>1. PICK q \in Quantities : o.quantity = q \/ (0 <= o.quantity /\ o.quantity <= q)
  BY DEF Sized
<1>2. q \in Int /\ o.quantity \in Int /\ p.quantity \in Int
  BY MarketAssumption DEF Order
<1>3. 0 <= p.quantity /\ p.quantity <= q
  BY <1>1, <1>2
<1> QED
  BY <1>3 DEF Sized

\* An order like o on side d for n coins.
Part(o, d, n) == [item |-> o.item, side |-> d, quantity |-> n, unitPrice |-> o.unitPrice,
                  userID |-> o.userID, created_at |-> o.created_at]
LEMMA SizedPartOf ==
  ASSUME NEW o \in Order, Sized(o), NEW n \in Int, 0 <= n, n <= o.quantity, NEW d \in Sides
  PROVE  /\ Part(o, d, n) \in Order /\ Sized(Part(o, d, n))
         /\ Part(o, d, n).item = o.item /\ Part(o, d, n).side = d
         /\ Part(o, d, n).quantity = n /\ Part(o, d, n).unitPrice = o.unitPrice
<1> DEFINE p == Part(o, d, n)
<1>1. /\ p \in Order /\ p.item = o.item /\ p.side = d /\ p.quantity = n
      /\ p.unitPrice = o.unitPrice
  BY DEF Part, Order
<1> HIDE DEF p
<1>2. Sized(p)
  BY <1>1, SizedPart
<1> QED
  BY <1>1, <1>2 DEF p

\* Neither the coins of a trade nor their cost are worth more.
LEMMA LargestTrade ==
  ASSUME IsFiniteSet(Quantities), IsFiniteSet(Prices), NEW c \in Coins,
         NEW o \in Order, NEW m \in Order, Sized(o), Sized(m),
         o.quantity >= 0, m.quantity >= 0, m.unitPrice >= 0
  PROVE  /\ LargestReserve(c) \in Nat
         /\ TxQuantity(o, m) >= 0 /\ TxExact(o, m) >= 0
         /\ c \in {o.item, m.item} => TxQuantity(o, m) <= LargestReserve(c)
         /\ c = "OMG" => Floor(TxExact(o, m)) <= LargestReserve(c)
<1> DEFINE n == TxQuantity(o, m)
           x == Part(o, "sell", n)
           y == Part(m, "sell", n)
           z == Part(m, "buy", n)
<1>1. n \in Int /\ 0 <= n /\ n <= o.quantity /\ n <= m.quantity
  BY DEF TxQuantity, Order
<1>2. n * m.unitPrice >= 0 /\ TxExact(o, m) = n * m.unitPrice /\ n * m.unitPrice \in Int
  BY <1>1 DEF Order, TxExact
<1> HIDE DEF n
<1>3. /\ x \in Order /\ Sized(x) /\ x.item = o.item /\ x.side = "sell" /\ x.quantity = n
      /\ y \in Order /\ Sized(y) /\ y.item = m.item /\ y.side = "sell" /\ y.quantity = n
      /\ z \in Order /\ Sized(z) /\ z.side = "buy" /\ z.quantity = n
      /\ z.unitPrice = m.unitPrice
  <2>1. "buy" \in Sides /\ "sell" \in Sides
    BY DEF Sides
  <2>2. /\ x \in Order /\ Sized(x)
        /\ x.item = o.item /\ x.side = "sell" /\ x.quantity = n
    BY <1>1, <2>1, SizedPartOf
  <2>3. /\ y \in Order /\ Sized(y)
        /\ y.item = m.item /\ y.side = "sell" /\ y.quantity = n
    BY <1>1, <2>1, SizedPartOf
  <2>4. /\ z \in Order /\ Sized(z) /\ z.side = "buy" /\ z.quantity = n
        /\ z.unitPrice = m.unitPrice
    BY <1>1, <2>1, SizedPartOf
  <2> QED
    BY <2>2, <2>3, <2>4
<1> HIDE DEF x, y, z
<1>4. /\ LargestReserve(c) \in Nat /\ Reserved(x, c) <= LargestReserve(c)
      /\ Reserved(y, c) <= LargestReserve(c) /\ Reserved(z, c) <= LargestReserve(c)
  BY <1>3, Largest
<1>5. c = "OMG" => Floor(TxExact(o, m)) <= Reserved(z, c)
  <2>1. c = "OMG" => Reserved(z, c) = Trunc(Round(n * m.unitPrice))
    BY <1>3 DEF Reserved, Cost
  <2>2. Floor(n * m.unitPrice) <= Trunc(Round(n * m.unitPrice))
    <3>1. 0 \in Int
      OBVIOUS
    <3> QED
      BY <1>2, <3>1, CostBounds
  <2> QED
    BY <1>2, <2>1, <2>2
<1>6. (c = o.item => Reserved(x, c) = n) /\ (c = m.item => Reserved(y, c) = n)
  BY <1>3 DEF Reserved
<1>7. Floor(TxExact(o, m)) \in Int /\ Reserved(z, c) \in Int
  BY <1>2, <1>3, WholeCoins, ReservedType
<1> QED
  BY <1>1, <1>2, <1>4, <1>5, <1>6, <1>7 DEF n

-----------------------------------------------------------------------------
(* What a session has checked and holds *)

\* A step of a session keeps what it holds true.
LEMMA FundsOfStep ==
  ASSUME TypeOK, NEW s \in Sessions, FundsOf(s), Acts(s)
  PROVE  FundsOf(s)'
<1> USE DEF TypeOK
<1>1. CASE GetUser(s)
  <2>1. CASE Return(s, Failure)
    BY <2>1 DEF Return, Goto, LocalsOK, FundsOf, Checked, Refunding, Cancelling
  <2>2. CASE /\ Covered(ord[s], users[user[s]]) /\ Goto(s, "find_matching")
             /\ ReadWallet(s, user[s])
    BY <1>1, <2>2
    DEF GetUser, tables, ReadWallet, Goto, LocalsOK, FundsOf, Checked, Refunding, Cancelling
  <2> QED
    BY <1>1, <2>1, <2>2 DEF GetUser
<1>2. CASE FindMatching(s) \/ PrepareFails(s)
  BY <1>2 DEF FindMatching, PrepareFails, At, tables, Goto, LocalsOK, FundsOf, Checked,
              Refunding, Cancelling
<1>3. CASE GetOrder(s)
  <2>1. CASE Return(s, Failure)
    BY <2>1 DEF Return, Goto, LocalsOK, FundsOf, Checked, Refunding, Cancelling
  <2>2. CASE TakeMatch(s)
    <3>1. pc[s] \in Checked /\ UNCHANGED <<users, user>>
      BY <1>3 DEF GetOrder, At, Checked, tables
    <3>2. UNCHANGED wal /\ pc'[s] = "archive_matched"
      BY <2>2 DEF TakeMatch, Goto, LocalsOK
    <3> QED
      BY <3>1, <3>2 DEF FundsOf, Checked, Refunding, Cancelling
  <2> QED
    BY <1>3, <2>1, <2>2 DEF GetOrder
<1>4. CASE ArchiveMatched(s) \/ ArchiveOrder(s) \/ InsertOrder(s)
  BY <1>4 DEF ArchiveMatched, ArchiveOrder, InsertOrder, At, locals, Goto, LocalsOK, FundsOf,
              Checked, Refunding, Cancelling
<1>5. CASE UpdateSelf(s) \/ UpdateCounterparty(s)
  BY <1>5 DEF UpdateSelf, UpdateCounterparty, Goto, LocalsOK, FundsOf, Checked, Refunding,
              Cancelling
<1>6. CASE GetCounterparty(s) \/ CancelGetUser(s)
  BY <1>6 DEF GetCounterparty, CancelGetUser, At, tables, ReadWallet, Goto, LocalsOK, FundsOf,
              Checked, Refunding, Cancelling
<1>7. CASE SettleMatched(s)
  BY <1>7 DEF SettleMatched, Return, Goto, LocalsOK, FundsOf, Checked, Refunding, Cancelling
<1>8. CASE InsertGetUser(s)
  <2>1. CASE InsertFails(s)
    BY <2>1 DEF InsertFails, Return, Goto, LocalsOK, FundsOf, Checked, Refunding, Cancelling
  <2>2. CASE /\ CanReserve(ord[s], users[user[s]]) /\ Goto(s, "insert_order")
             /\ ReadWallet(s, user[s])
    BY <1>8, <2>2
    DEF InsertGetUser, tables, ReadWallet, Goto, LocalsOK, FundsOf, Checked, Refunding,
        Cancelling
  <2> QED
    BY <1>8, <2>1, <2>2 DEF InsertGetUser
<1>9. CASE CancelGetOrder(s)
  BY <1>9 DEF CancelGetOrder, OwnOrder, tables, Return, Goto, LocalsOK, FundsOf, Checked,
              Refunding, Cancelling
<1>10. CASE CancelUpdateUser(s)
  BY <1>10 DEF CancelUpdateUser, At, locals, Goto, LocalsOK, FundsOf, Checked, Refunding,
               Cancelling
<1>11. CASE InsertUpdateUser(s) \/ CancelDelete(s) \/ Issue(s) \/ IssueCancel(s)
  BY <1>11 DEF InsertUpdateUser, CancelDelete, Issue, IssueCancel, Return, Goto, LocalsOK,
               FundsOf, Checked, Refunding, Cancelling
<1>12. CASE StatementFails(s)
  BY <1>12 DEF StatementFails, InsertFails, Return, Goto, LocalsOK, FundsOf, Checked,
               Refunding, Cancelling
<1> QED
  BY <1>1, <1>2, <1>3, <1>4, <1>5, <1>6, <1>7, <1>8, <1>9, <1>10, <1>11, <1>12 DEF Acts, Step

\* And so does every step, one command at a time.
LEMMA FundsInvStep ==
  ASSUME TypeOK, OneAtATime, FundsInv, [Next /\ OneAtATime']_vars
  PROVE  FundsInv'
<1>1. CASE UNCHANGED <<users, orders, user, pc, ord, found, match, wal>>
  BY <1>1 DEF FundsInv, FundsOf
<1>2. ASSUME NEW s \in Sessions, Acts(s), OneAtATime', NEW t \in Sessions
      PROVE  FundsOf(t)'
  <2>1. CASE t = s
    BY <1>2, <2>1, FundsOfStep DEF FundsInv
  <2>2. CASE t # s
    <3>1. pc'[t] = "idle"
      BY <1>2, <2>2, OthersIdle
    <3> QED
      BY <3>1 DEF FundsOf, Checked, Refunding, Cancelling
  <2> QED
    BY <2>1, <2>2
<1>3. CASE UNCHANGED vars \/ Tick
  BY <1>1, <1>3 DEF vars, tables, locals, Tick
<1> QED
  BY <1>2, <1>3 DEF FundsInv, Next, Acts, Waiting

\* What is recorded of a trade stays recorded.
LEMMA TradedInvStep ==
  ASSUME TypeOK, TradedInv, [Next]_vars
  PROVE  TradedInv'
<1> SUFFICES ASSUME NEW t \in Sessions
             PROVE  TradedOf(t)'
  BY DEF TradedInv
<1>0. /\ \A k \in DOMAIN archives : k \in DOMAIN archives' /\ archives'[k] = archives[k]
      /\ archives \in Seq(Order)
  BY ArchivesGrow DEF TypeOK, TablesOK
<1>1. ASSUME NEW o \in Order, InsertArchive(o)
      PROVE  \E k \in DOMAIN archives' : archives'[k] = o
  BY <1>0, <1>1, AppendProperties DEF InsertArchive
<1>2. ord[t] \in Order /\ match[t] \in Order
  BY InHand
<1>3. CASE pc'[t] \in Recorded
  <2>1. LocalsStay(t) /\ (pc[t] \in Recorded \/ InsertArchive(match[t]))
    BY <1>3, RecordedStep
  <2>2. \E k \in DOMAIN archives' : archives'[k] = match'[t]
    BY <1>0, <1>1, <1>2, <2>1 DEF TradedInv, TradedOf, LocalsStay
  <2>3. CASE pc'[t] # "archive_order"
    <3>1. \/ pc[t] \in Recorded \ {"archive_order"}
          \/ InsertArchive(ord[t])
      <4>1. CASE pc'[t] = pc[t]
        BY <1>3, <2>3, <4>1
      <4>2. CASE Acts(t)
        BY <1>3, <2>3, <4>2
        DEF Acts, Step, Issue, IssueCancel, StatementFails, PrepareFails, InsertFails, GetUser,
            FindMatching, GetOrder, TakeMatch, ArchiveMatched, ArchiveOrder, UpdateSelf,
            GetCounterparty, UpdateCounterparty, SettleMatched, InsertGetUser, InsertOrder,
            InsertUpdateUser, CancelGetOrder, CancelGetUser, CancelUpdateUser, CancelDelete,
            At, Goto, Return, Recorded, Settling, TypeOK, LocalsOK
      <4>3. ASSUME NEW s \in Sessions, s # t, Acts(s)
            PROVE  pc'[t] = pc[t]
        BY <4>3, OthersStay
      <4>4. CASE UNCHANGED vars \/ Tick
        BY <4>1, <4>4 DEF vars, Tick
      <4> QED
        BY <4>1, <4>2, <4>3, <4>4 DEF Next, Acts, Waiting
    <3> QED
      BY <1>0, <1>1, <1>2, <2>1, <2>2, <3>1 DEF TradedInv, TradedOf, LocalsStay
  <2> QED
    BY <2>2, <2>3 DEF TradedOf
<1>4. CASE pc'[t] \notin Recorded
  BY <1>4 DEF TradedOf
<1> QED
  BY <1>3, <1>4

\* No trade is taken back.
LEMMA NoNegativeBefore ==
  ASSUME TypeOK, [Next]_vars, NoNegativeTrade'
  PROVE  NoNegativeTrade
<1>1. \A k \in DOMAIN archives : k \in DOMAIN archives' /\ archives'[k] = archives[k]
  BY ArchivesGrow
<1> QED
  BY <1>1 DEF NoNegativeTrade

\* The orders of a trade that is written to the wallets are for nothing negative.
LEMMA TradeAmounts ==
  ASSUME TypeOK, TradedInv, NoNegativeTrade, NEW s \in Sessions
  PROVE  /\ pc[s] \in Recorded => match[s].quantity >= 0 /\ match[s].unitPrice >= 0
         /\ pc[s] \in Recorded \ {"archive_order"} => ord[s].quantity >= 0 /\ ord[s].unitPrice >= 0
  BY DEF TradedInv, TradedOf, NoNegativeTrade

\* What a trade of o with m leaves of either is sized.
LEMMA SizedLess ==
  ASSUME NEW o \in Order, NEW m \in Order, o.quantity >= 0, m.quantity >= 0
  PROVE  LET n == TxQuantity(o, m) IN
         /\ Sized(o) => Sized(Less(o, n)) /\ Less(o, n) \in Order
         /\ Sized(m) => Sized(Less(m, n)) /\ Less(m, n) \in Order
<1> DEFINE n == TxQuantity(o, m)
<1>1. n \in Int /\ 0 <= n /\ n <= o.quantity /\ n <= m.quantity
  BY DEF TxQuantity, Order
<1>2. ASSUME NEW p \in Order, Sized(p), n <= p.quantity
      PROVE  Sized(Less(p, n)) /\ Less(p, n) \in Order
  <2>1. /\ Less(p, n) \in Order
        /\ Less(p, n).quantity = p.quantity - n /\ Less(p, n).unitPrice = p.unitPrice
        /\ Less(p, n).item = p.item
    BY <1>1, RestOf
  <2>2. p.quantity \in Int
    BY DEF Order
  <2>3. 0 <= Less(p, n).quantity /\ Less(p, n).quantity <= p.quantity
    BY <1>1, <1>2, <2>1, <2>2
  <2> QED
    BY <1>2, <2>1, <2>3, SizedPart
<1> QED
  BY <1>1, <1>2

\* Whatever its timestamp.
LEMMA SizedTimed ==
  ASSUME NEW o \in Order, NEW n
  PROVE  Sized(o) <=> Sized([o EXCEPT !.created_at = n])
<1> DEFINE p == [o EXCEPT !.created_at = n]
<1>1. p.item = o.item /\ p.unitPrice = o.unitPrice /\ p.quantity = o.quantity
  BY DEF Order
<1> QED
  BY <1>1 DEF Sized

\* The rows stay sized.
LEMMA SizedRows ==
  ASSUME TypeOK, TradedInv, NoNegativeTrade, SizeInv, NEW s \in Sessions, Acts(s), NEW i \in DOMAIN orders'
  PROVE  Sized(orders'[i])
<1>0. /\ ord[s] \in Order /\ match[s] \in Order
      /\ \A j \in DOMAIN orders : orders[j] \in Order /\ Sized(orders[j])
  BY DEF TypeOK, TablesOK, LocalsOK, SizeInv
<1>1. CASE UNCHANGED orders
  BY <1>0, <1>1
<1>2. CASE InsertOrder(s)
  <2>1. Sized(ord[s])
    BY <1>2 DEF InsertOrder, At, HasOrder, Cancelling, SizeInv
  <2>2. Sized([ord[s] EXCEPT !.created_at = now])
    BY <1>0, <2>1, SizedTimed
  <2> QED
    BY <1>0, <1>2, <2>2 DEF InsertOrder, InsertRow, WithRow
<1>3. CASE CancelDelete(s)
  BY <1>0, <1>3 DEF CancelDelete, DeleteOrder
<1>4. CASE SettleMatched(s)
  <2> DEFINE n == TxQuantity(ord[s], match[s])
             o == Less(match[s], n)
  <2>1. /\ pc[s] \in Recorded \ {"archive_order"} /\ HasMatch(pc[s])
        /\ WriteBack(found[s], o)
    BY <1>4 DEF SettleMatched, At, Settling, Recorded, HasMatch
  <2>2. Sized(match[s]) /\ match[s].quantity >= 0 /\ ord[s].quantity >= 0
    BY <2>1, TradeAmounts DEF SizeInv, Recorded
  <2>3. Sized(o) /\ o \in Order
    BY <1>0, <2>2, SizedLess
  <2> HIDE DEF o, n
  <2>4. \A x : Sized([o EXCEPT !.created_at = x])
    BY <2>3, SizedTimed
  <2> QED
    BY <1>0, <2>1, <2>4 DEF WriteBack, DeleteOrder, UpdateOrder
<1>5. \/ UNCHANGED orders
      \/ CancelDelete(s) \/ SettleMatched(s) \/ InsertOrder(s)
  BY DEF Acts, Step, tables, Issue, IssueCancel, StatementFails,
         PrepareFails, GetUser, FindMatching, GetOrder, ArchiveMatched, ArchiveOrder,
         UpdateSelf, GetCounterparty, UpdateCounterparty, InsertGetUser, InsertUpdateUser,
         CancelGetOrder, CancelGetUser, CancelUpdateUser
<1> QED
  BY <1>1, <1>2, <1>3, <1>4, <1>5

\* And so do the orders in hand.
LEMMA SizedLocals ==
  ASSUME TypeOK, TradedInv, NoNegativeTrade, SizeInv, NEW s \in Sessions, Acts(s)
  PROVE  /\ HasOrder(pc'[s]) => Sized(ord'[s])
         /\ HasMatch(pc'[s]) => Sized(match'[s])
<1> USE DEF TypeOK
<1>0. /\ ord[s] \in Order /\ match[s] \in Order
      /\ \A j \in DOMAIN orders : Sized(orders[j])
      /\ HasOrder(pc[s]) => Sized(ord[s])
      /\ HasMatch(pc[s]) => Sized(match[s])
  BY DEF TablesOK, LocalsOK, SizeInv
<1>1. ASSUME NEW r, Return(s, r)
      PROVE  ~HasOrder(pc'[s]) /\ ~HasMatch(pc'[s])
  BY <1>1 DEF Return, Goto, LocalsOK, HasOrder, HasMatch, Settling, Cancelling
<1>2. CASE Issue(s)
  <2>1. PICK c \in Items, d \in Sides, q \in Quantities, p \in Prices :
           ord'[s] = [item |-> c, side |-> d, quantity |-> q, unitPrice |-> p,
                      userID |-> user[s], created_at |-> 0]
    BY <1>2 DEF Issue, LocalsOK
  <2>3. Sized(ord'[s])
    BY <2>1 DEF Sized
  <2>4. ~HasMatch(pc'[s])
    BY <1>2 DEF Issue, Goto, LocalsOK, HasMatch, Settling, Cancelling
  <2> QED
    BY <2>3, <2>4
<1>3. CASE GetOrder(s)
  <2>1. CASE TakeMatch(s)
    <3>1. /\ ord'[s] = [ord[s] EXCEPT !.created_at = now] /\ match'[s] = orders[found[s]]
          /\ found[s] \in DOMAIN orders
      BY <2>1 DEF TakeMatch, LocalsOK
    <3>2. HasOrder(pc[s])
      BY <1>3 DEF GetOrder, At, HasOrder, Cancelling
    <3> QED
      BY <1>0, <3>1, <3>2, SizedTimed
  <2> QED
    BY <1>1, <1>3, <2>1 DEF GetOrder
<1>4. CASE CancelGetOrder(s)
  <2>1. CASE OwnOrder(s) /\ match' = [match EXCEPT ![s] = orders[found[s]]]
             /\ Goto(s, "cancel_get_user")
    <3>1. ~HasOrder(pc'[s])
      BY <2>1 DEF Goto, LocalsOK, HasOrder, Cancelling
    <3>2. match'[s] = orders[found[s]] /\ found[s] \in DOMAIN orders
      BY <2>1 DEF LocalsOK, OwnOrder
    <3> QED
      BY <1>0, <3>1, <3>2
  <2> QED
    BY <1>1, <1>4, <2>1 DEF CancelGetOrder
<1>5. CASE SettleMatched(s)
  <2> DEFINE n == TxQuantity(ord[s], match[s])
  <2>1. /\ pc[s] \in Recorded \ {"archive_order"} /\ HasOrder(pc[s])
    BY <1>5 DEF SettleMatched, At, Settling, Recorded, HasOrder, Cancelling
  <2>2. ord[s].quantity >= 0 /\ match[s].quantity >= 0
    BY <2>1, TradeAmounts DEF Recorded
  <2>3. CASE /\ ord' = [ord EXCEPT ![s] = Less(@, n)] /\ Goto(s, "insert_get_user")
    <3>1. ord'[s] = Less(ord[s], n)
      BY <2>3 DEF LocalsOK
    <3>2. Sized(Less(ord[s], n))
      BY <1>0, <2>1, <2>2, SizedLess
    <3>3. ~HasMatch(pc'[s])
      BY <2>3 DEF Goto, LocalsOK, HasMatch, Settling, Cancelling
    <3> QED
      BY <3>1, <3>2, <3>3
  <2> QED
    BY <1>1, <1>5, <2>3 DEF SettleMatched
<1>6. CASE StatementFails(s)
  <2>1. CASE At(s, "find_matching") /\ Goto(s, "insert_get_user") /\ UNCHANGED <<ord, match>>
    BY <1>0, <2>1 DEF At, Goto, LocalsOK, HasOrder, HasMatch, Settling, Cancelling
  <2> QED
    BY <1>1, <1>6, <2>1 DEF StatementFails, InsertFails
<1>7. CASE InsertGetUser(s)
  <2>1. CASE At(s, "insert_get_user") /\ Goto(s, "insert_order") /\ UNCHANGED <<ord, match>>
    BY <1>0, <2>1 DEF At, Goto, LocalsOK, HasOrder, HasMatch, Settling, Cancelling
  <2> QED
    BY <1>1, <1>7, <2>1 DEF InsertGetUser, InsertFails, ReadWallet
<1>8. CASE GetUser(s)
  <2>1. CASE At(s, "get_user") /\ Goto(s, "find_matching") /\ UNCHANGED <<ord, match>>
    BY <1>0, <2>1 DEF At, Goto, LocalsOK, HasOrder, HasMatch, Settling, Cancelling
  <2> QED
    BY <1>1, <1>8, <2>1 DEF GetUser, ReadWallet
<1>9. CASE InsertUpdateUser(s) \/ CancelDelete(s)
  BY <1>1, <1>9 DEF InsertUpdateUser, CancelDelete
<1>10. CASE IssueCancel(s) \/ PrepareFails(s) \/ FindMatching(s)
  BY <1>0, <1>10 DEF IssueCancel, PrepareFails, FindMatching, At, Goto, LocalsOK, HasOrder,
                     HasMatch, Settling, Cancelling
<1>11. CASE ArchiveMatched(s) \/ ArchiveOrder(s) \/ UpdateSelf(s) \/ InsertOrder(s)
  BY <1>0, <1>11 DEF ArchiveMatched, ArchiveOrder, UpdateSelf, InsertOrder, locals, At, Goto,
                     LocalsOK, HasOrder, HasMatch, Settling, Cancelling
<1>12. CASE GetCounterparty(s) \/ UpdateCounterparty(s)
  BY <1>0, <1>12 DEF GetCounterparty, UpdateCounterparty, ReadWallet, locals, At, Goto,
                     LocalsOK, HasOrder, HasMatch, Settling, Cancelling
<1>13. CASE CancelGetUser(s) \/ CancelUpdateUser(s)
  BY <1>0, <1>13 DEF CancelGetUser, CancelUpdateUser, ReadWallet, locals, At, Goto,
                     LocalsOK, HasOrder, HasMatch, Settling, Cancelling
<1> QED
  BY <1>2, <1>3, <1>4, <1>5, <1>6, <1>7, <1>8, <1>9, <1>10, <1>11, <1>12, <1>13
  DEF Acts, Step

\* Every step keeps all sizes.
LEMMA SizeInvStep ==
  ASSUME TypeOK, TradedInv, NoNegativeTrade, SizeInv, [Next]_vars
  PROVE  SizeInv'
<1>1. CASE UNCHANGED <<orders, pc, ord, match>>
  BY <1>1 DEF SizeInv
<1>2. ASSUME NEW s \in Sessions, Acts(s)
      PROVE  SizeInv'
  <2>1. \A i \in DOMAIN orders' : Sized(orders'[i])
    BY <1>2, SizedRows
  <2>2. ASSUME NEW t \in Sessions
        PROVE  /\ HasOrder(pc'[t]) => Sized(ord'[t])
               /\ HasMatch(pc'[t]) => Sized(match'[t])
    <3>1. CASE t = s
      BY <1>2, <3>1, SizedLocals
    <3>2. CASE t # s
      BY <1>2, <3>2, OthersStay DEF LocalsStay, SizeInv
    <3> QED
      BY <3>1, <3>2
  <2> QED
    BY <2>1, <2>2 DEF SizeInv
<1>3. CASE UNCHANGED vars \/ Tick
  BY <1>1, <1>3 DEF vars, tables, locals, Tick
<1> QED
  BY <1>2, <1>3 DEF Next, Acts, Waiting

-----------------------------------------------------------------------------
(* What a statement makes of the assets *)

\* The tables are what the sums need.
LEMMA Tables ==
  ASSUME TypeOK
  PROVE  Listing(orders) /\ users \in [Users -> Wallet]
  BY DEF TypeOK, TablesOK, Listing

\* One wallet is written.
LEMMA WalletWritten ==
  ASSUME IsFiniteSet(Users), TypeOK, TypeOK', NEW u \in Users, NEW w,
         UpdateUserBalance(u, w), UNCHANGED orders, NEW c \in Coins
  PROVE  /\ Assets(c) \in Int /\ users[u][c] \in Int /\ w[c] \in Int
         /\ Assets(c)' = Assets(c) + (w[c] - users[u][c])
<1>1. Listing(orders) /\ users \in [Users -> Wallet]
  BY Tables
<1>2. users' \in [Users -> Wallet]
  BY DEF TypeOK, TablesOK
<1>3. users'[u] = w /\ \A v \in Users : v # u => users'[v] = users[v]
  BY <1>1 DEF UpdateUserBalance
<1>4. users[u][c] \in Int /\ w[c] \in Int
  BY <1>1, <1>2, <1>3 DEF Wallet
<1>5. \A v \in Users : v # u => Worth(users', orders, v, c) = Worth(users, orders, v, c)
  BY <1>3 DEF Worth
<1>6. /\ TotalIn(users, orders, c) \in Int
      /\ Worth(users, orders, u, c) \in Int /\ Worth(users', orders, u, c) \in Int
      /\ TotalIn(users', orders, c)
           = TotalIn(users, orders, c) - Worth(users, orders, u, c)
               + Worth(users', orders, u, c)
  BY <1>1, <1>2, <1>5, WorthChanged
<1>7. HeldIn(orders, u, c) \in Int
  BY <1>1, HeldType
<1>8. /\ Worth(users, orders, u, c) = users[u][c] + HeldIn(orders, u, c)
      /\ Worth(users', orders, u, c) = w[c] + HeldIn(orders, u, c)
  BY <1>3 DEF Worth
<1>9. Assets(c) = TotalIn(users, orders, c) /\ Assets(c)' = TotalIn(users', orders, c)
  BY DEF Assets
<1> QED
  BY <1>4, <1>6, <1>7, <1>8, <1>9

\* The rows of one user change.
LEMMA RowsWritten ==
  ASSUME IsFiniteSet(Users), TypeOK, TypeOK', NEW u \in Users, UNCHANGED users,
         NEW c \in Coins, NEW d \in Int,
         \A v \in Users : HeldIn(orders', v, c)
                            = HeldIn(orders, v, c) + (IF v = u THEN d ELSE 0)
  PROVE  Assets(c) \in Int /\ Assets(c)' = Assets(c) + d
<1>1. Listing(orders) /\ users \in [Users -> Wallet]
  BY Tables
<1>2. Listing(orders')
  BY DEF TypeOK, TablesOK, Listing
<1>3. \A v \in Users : HeldIn(orders, v, c) \in Int /\ HeldIn(orders', v, c) \in Int
  BY <1>1, <1>2, HeldType
<1>4. \A v \in Users : users[v][c] \in Int
  BY <1>1 DEF Wallet
<1>5. \A v \in Users : v # u => Worth(users, orders', v, c) = Worth(users, orders, v, c)
  BY <1>3 DEF Worth
<1>6. /\ TotalIn(users, orders, c) \in Int
      /\ Worth(users, orders, u, c) \in Int /\ Worth(users, orders', u, c) \in Int
      /\ TotalIn(users, orders', c)
           = TotalIn(users, orders, c) - Worth(users, orders, u, c)
               + Worth(users, orders', u, c)
  BY <1>1, <1>2, <1>5, WorthChanged
<1>7. Worth(users, orders', u, c) = Worth(users, orders, u, c) + d
  BY <1>3, <1>4 DEF Worth
<1>8. Assets(c) = TotalIn(users, orders, c) /\ Assets(c)' = TotalIn(users, orders', c)
  BY DEF Assets
<1> QED
  BY <1>6, <1>7, <1>8

\* A row holds the same at any time.
LEMMA ReservedTimed ==
  ASSUME NEW o \in Order, NEW n, NEW c
  PROVE  /\ [o EXCEPT !.created_at = n].userID = o.userID
         /\ Reserved([o EXCEPT !.created_at = n], c) = Reserved(o, c)
<1> DEFINE p == [o EXCEPT !.created_at = n]
<1>1. /\ p.item = o.item /\ p.side = o.side /\ p.unitPrice = o.unitPrice
      /\ p.quantity = o.quantity /\ p.userID = o.userID
  BY DEF Order
<1> HIDE DEF p
<1>2. Reserved(p, c) = Reserved(o, c)
  BY <1>1 DEF Reserved, Cost
<1> QED
  BY <1>1, <1>2 DEF p

\* insert_order puts a row into the table.
LEMMA RowInserted ==
  ASSUME TypeOK, TypeOK', NEW o \in Order, InsertRow(o), NEW u, NEW c \in Coins
  PROVE  /\ Reserved(o, c) \in Int
         /\ HeldIn(orders', u, c)
              = HeldIn(orders, u, c) + (IF u = o.userID THEN Reserved(o, c) ELSE 0)
<1> DEFINE i == NewOrderID
<1>1. Listing(orders) /\ Listing(orders')
  BY Tables DEF TypeOK, TablesOK, Listing
<1>2. i \notin DOMAIN orders
  BY DEF NewOrderID, TypeOK, TablesOK
<1>3. /\ DOMAIN orders' = DOMAIN orders \cup {i}
      /\ \A j \in DOMAIN orders : orders'[j] = orders[j]
  BY <1>2 DEF InsertRow, WithRow
<1>4. orders'[i] = [o EXCEPT !.created_at = now]
  BY DEF InsertRow, WithRow
<1> HIDE DEF i
<1>5. HeldIn(orders', u, c)
        = HeldIn(orders, u, c)
            + (IF orders'[i].userID = u THEN Reserved(orders'[i], c) ELSE 0)
  BY <1>1, <1>2, <1>3, RowAdded
<1>6. orders'[i].userID = o.userID /\ Reserved(orders'[i], c) = Reserved(o, c)
  BY <1>4, ReservedTimed
<1>7. Reserved(o, c) \in Int
  BY ReservedType
<1> QED
  BY <1>5, <1>6, <1>7

\* delete_order takes one out.
LEMMA RowDeleted ==
  ASSUME TypeOK, TypeOK', NEW i \in DOMAIN orders, DeleteOrder(i), NEW u, NEW c \in Coins
  PROVE  /\ Reserved(orders[i], c) \in Int
         /\ HeldIn(orders', u, c)
              = HeldIn(orders, u, c)
                  + (IF u = orders[i].userID THEN -Reserved(orders[i], c) ELSE 0)
<1>1. Listing(orders) /\ Listing(orders')
  BY Tables DEF TypeOK, TablesOK, Listing
<1>2. /\ i \notin DOMAIN orders' /\ DOMAIN orders = DOMAIN orders' \cup {i}
      /\ \A j \in DOMAIN orders' : orders[j] = orders'[j]
  BY DEF DeleteOrder
<1>3. HeldIn(orders, u, c)
        = HeldIn(orders', u, c)
            + (IF orders[i].userID = u THEN Reserved(orders[i], c) ELSE 0)
  BY <1>1, <1>2, RowAdded
<1>4. /\ Reserved(orders[i], c) \in Int
      /\ HeldIn(orders, u, c) \in Int /\ HeldIn(orders', u, c) \in Int
  BY <1>1, HeldType
<1> QED
  BY <1>3, <1>4

\* update_order writes one back.
LEMMA RowUpdated ==
  ASSUME TypeOK, TypeOK', NEW i \in DOMAIN orders, NEW o \in Order, UpdateOrder(i, o),
         o.userID = orders[i].userID, NEW u, NEW c \in Coins
  PROVE  HeldIn(orders', u, c)
           = HeldIn(orders, u, c)
               + (IF u = o.userID THEN Reserved(o, c) - Reserved(orders[i], c) ELSE 0)
<1>1. Listing(orders) /\ Listing(orders')
  BY Tables DEF TypeOK, TablesOK, Listing
<1>2. /\ DOMAIN orders' = DOMAIN orders
      /\ \A j \in DOMAIN orders : j # i => orders'[j] = orders[j]
  BY DEF UpdateOrder
<1>3. orders'[i] = [o EXCEPT !.created_at = orders[i].created_at]
  BY DEF UpdateOrder
<1>4. orders'[i].userID = o.userID /\ Reserved(orders'[i], c) = Reserved(o, c)
  BY <1>3, ReservedTimed
<1>5. orders'[i].userID = orders[i].userID
  BY <1>4
<1>6. HeldIn(orders', u, c)
        = HeldIn(orders, u, c)
            + (IF orders[i].userID = u
               THEN Reserved(orders'[i], c) - Reserved(orders[i], c) ELSE 0)
  BY <1>1, <1>2, <1>5, RowChanged
<1> QED
  BY <1>4, <1>6

\* What is in excess moves with the assets, and falls with every failure and every
\* command.
LEMMA ExcessShift ==
  ASSUME IsFiniteSet(Users), IsFiniteSet(Quantities), IsFiniteSet(Prices), TypeOK, TypeOK',
         NEW c \in Coins, NEW d \in Int, Assets(c) \in Int, Assets(c)' = Assets(c) + d
  PROVE  /\ Excess(c) \in Int /\ LargestReserve(c) \in Nat /\ Rounding(c) \in Nat
         /\ UNCHANGED <<faults, issued>> => Excess(c)' = Excess(c) + d
         /\ faults' = faults + 1 /\ issued' = issued
              => Excess(c)' = Excess(c) + d - LargestReserve(c)
         /\ faults' = faults /\ issued' = issued + 1
              => Excess(c)' = Excess(c) + d - Rounding(c)
<1> DEFINE L == LargestReserve(c)
           I == Issued(c)
           P == Assets(c)
           M == Made(c, issued)
<1>1. L \in Nat
  BY Largest
<1>2. I \in Int
  <2>1. Cardinality(Users) \in Nat /\ DefaultWallet[c] \in Int
    BY FS_CardinalityType, DefaultType DEF Wallet
  <2> QED
    BY <2>1 DEF Issued
<1>3. faults \in Nat /\ faults' \in Nat /\ issued \in Nat /\ issued' \in Nat
  BY DEF TypeOK
<1>4. Issued(c)' = I /\ LargestReserve(c)' = L
  BY DEF Issued, LargestReserve, Reserved
<1>5. /\ Excess(c) = P - I - faults * L - M
      /\ Excess(c)' = P' - I - faults' * L - M'
  BY <1>4 DEF Excess
<1>6. /\ M \in Nat /\ M' \in Nat /\ Rounding(c) \in Nat
      /\ issued' = issued => M' = M
      /\ issued' = issued + 1 => M' = M + Rounding(c)
  BY <1>3 DEF Made, Rounding
<1> HIDE DEF L, I, P, M
<1>7. P \in Int /\ P' = P + d
  BY DEF P
<1>8. faults * L \in Nat /\ (faults + 1) * L = faults * L + L
  BY <1>1, <1>3
<1> DEFINE e == faults * L
           f == faults' * L
<1>9. /\ e \in Int /\ Excess(c) = P - I - e - M /\ Excess(c)' = P' - I - f - M'
      /\ faults' = faults => f = e
      /\ faults' = faults + 1 => f = e + L
  BY <1>5, <1>8
<1> HIDE DEF e, f
<1> QED
  BY <1>1, <1>2, <1>6, <1>7, <1>9 DEF L

-----------------------------------------------------------------------------
(* The excess, statement by statement *)

\* The row a session has read and will write is still that row.
LEMMA InHandNow ==
  ASSUME Steady, FundsInv, NEW s \in Sessions
  PROVE  /\ TypeOK /\ user[s] \in Users /\ ord[s] \in Order /\ match[s] \in Order
         /\ HasOrder(pc[s]) => ord[s].userID = user[s]
         /\ pc[s] \in Settling \cup Refunding =>
              /\ match[s].userID \in Users /\ HasMatch(pc[s])
              /\ found[s] \in DOMAIN orders /\ orders[found[s]] = match[s]
<1>1. TypeOK /\ Snap /\ FundsOf(s)
  BY DEF Steady, FundsInv
<1>2. /\ user[s] \in Users /\ ord[s] \in Order /\ match[s] \in Order
      /\ HasOrder(pc[s]) => ord[s].userID = user[s]
      /\ HasMatch(pc[s]) => match[s].userID \in Users
  BY <1>1, InHand DEF TypeOK, LocalsOK
<1>3. ASSUME pc[s] \in Settling \cup Refunding
      PROVE  /\ match[s].userID \in Users /\ HasMatch(pc[s])
             /\ found[s] \in DOMAIN orders /\ orders[found[s]] = match[s]
  <2>1. found[s] \in DOMAIN orders /\ orders[found[s]] = match[s]
    BY <1>1, <1>3 DEF Snap, FundsOf
  <2>2. HasMatch(pc[s])
    BY <1>3 DEF HasMatch, Refunding
  <2> QED
    BY <1>2, <2>1, <2>2
<1> QED
  BY <1>1, <1>2, <1>3

\* What a session that acts can rely on.
Acting(s, c) ==
  /\ IsFiniteSet(Users) /\ IsFiniteSet(Quantities) /\ IsFiniteSet(Prices)
  /\ Steady /\ TypeOK' /\ FundsInv /\ TradedInv /\ NoNegativeTrade /\ SizeInv
  /\ ExcessOf(s, c)

\* The orders it has in hand, and what they are worth.
LEMMA HandOf ==
  ASSUME NEW s \in Sessions, NEW c \in Coins, Acting(s, c)
  PROVE  /\ TypeOK /\ TypeOK' /\ user[s] \in Users
         /\ ord[s] \in Order /\ match[s] \in Order
         /\ LargestReserve(c) \in Nat /\ Rounding(c) \in Nat
         /\ HasOrder(pc[s]) => /\ Sized(ord[s]) /\ ord[s].userID = user[s]
                               /\ Reserved(ord[s], c) \in Int
                               /\ Reserved(ord[s], c) <= LargestReserve(c)
         /\ pc[s] \in Settling \cup Refunding =>
              /\ Sized(match[s]) /\ match[s].userID \in Users
              /\ found[s] \in DOMAIN orders /\ orders[found[s]] = match[s]
              /\ Reserved(match[s], c) \in Int
              /\ Reserved(match[s], c) <= LargestReserve(c)
<1> USE DEF Acting
<1>1. TypeOK /\ user[s] \in Users /\ ord[s] \in Order /\ match[s] \in Order
  BY InHandNow
<1>2. Reserved(ord[s], c) \in Int /\ Reserved(match[s], c) \in Int
  BY <1>1, ReservedType
<1>3. /\ LargestReserve(c) \in Nat
      /\ \A o \in Order : Sized(o) => Reserved(o, c) <= LargestReserve(c)
  BY Largest
<1>4. Rounding(c) \in Nat
  BY DEF Rounding
<1>5. HasOrder(pc[s]) => Sized(ord[s]) /\ ord[s].userID = user[s]
  BY InHandNow DEF SizeInv
<1>6. pc[s] \in Settling \cup Refunding =>
        /\ Sized(match[s]) /\ match[s].userID \in Users
        /\ found[s] \in DOMAIN orders /\ orders[found[s]] = match[s]
  BY InHandNow DEF SizeInv
<1> QED
  BY <1>1, <1>2, <1>3, <1>4, <1>5, <1>6

\* A statement that writes neither wallets nor rows.
LEMMA StillExcess ==
  ASSUME NEW s \in Sessions, NEW c \in Coins, Acting(s, c), UNCHANGED <<users, orders>>
  PROVE  /\ Excess(c) \in Int /\ LargestReserve(c) \in Nat /\ Rounding(c) \in Nat
         /\ UNCHANGED <<faults, issued>> => Excess(c)' = Excess(c)
         /\ faults' = faults + 1 /\ issued' = issued
              => Excess(c)' = Excess(c) - LargestReserve(c)
         /\ faults' = faults /\ issued' = issued + 1
              => Excess(c)' = Excess(c) - Rounding(c)
<1>1. Assets(c)' = Assets(c)
  BY DEF Assets
<1>2. Assets(c) \in Int
  <2>1. Listing(orders) /\ users \in [Users -> Wallet] /\ user[s] \in Users
    BY HandOf, Tables
  <2> QED
    BY <2>1, WorthChanged DEF Assets, Acting
<1>3. Assets(c)' = Assets(c) + 0
  BY <1>1, <1>2
<1>4. /\ Excess(c) \in Int /\ LargestReserve(c) \in Nat /\ Rounding(c) \in Nat
      /\ UNCHANGED <<faults, issued>> => Excess(c)' = Excess(c) + 0
      /\ faults' = faults + 1 /\ issued' = issued
           => Excess(c)' = Excess(c) + 0 - LargestReserve(c)
      /\ faults' = faults /\ issued' = issued + 1
           => Excess(c)' = Excess(c) + 0 - Rounding(c)
  BY <1>2, <1>3, HandOf, ExcessShift DEF Acting
<1> QED
  BY <1>4

\* The bounds of ExcessOf are all at most LargestReserve.
LEMMA ExcessBound ==
  ASSUME NEW s \in Sessions, NEW c \in Coins, Acting(s, c), Excess(c) \in Int
  PROVE  Excess(c) <= LargestReserve(c)
<1>1. LargestReserve(c) \in Nat /\ Rounding(c) \in Nat
  BY HandOf
<1>2. ExcessOf(s, c) /\ pc[s] \in Labels
  BY DEF Acting, Steady, TypeOK, LocalsOK
<1>3. CASE pc[s] \in Balanced \cup HalfPaid
  BY <1>1, <1>2, <1>3 DEF ExcessOf
<1>4. CASE pc[s] \in Fresh \cup Untraded
  <2>1. Excess(c) <= -Rounding(c)
    BY <1>2, <1>4 DEF ExcessOf
  <2> QED
    BY <1>1, <2>1
<1>5. CASE pc[s] = "insert_update_user"
  <2>1. HasOrder(pc[s])
    BY <1>5 DEF HasOrder, Cancelling
  <2> QED
    BY <1>1, <1>2, <1>5, <2>1, HandOf DEF ExcessOf
<1>6. CASE pc[s] = "cancel_delete"
  <2>1. pc[s] \in Refunding
    BY <1>6 DEF Refunding, Cancelling
  <2> QED
    BY <1>1, <1>2, <1>6, <2>1, HandOf DEF ExcessOf
<1> QED
  BY <1>2, <1>3, <1>4, <1>5, <1>6
  DEF Labels, Fresh, Balanced, Untraded, HalfPaid, Settling, Inserting, Cancelling

\* A label at which nothing may be in excess, or nothing but what was rounded.
LEMMA BalancedAt ==
  ASSUME NEW s \in Sessions, NEW c \in Coins,
         \/ pc'[s] \in Balanced /\ Excess(c)' <= 0
         \/ pc'[s] \in Fresh /\ Excess(c)' <= -Rounding(c)
  PROVE  ExcessOf(s, c)'
<1>1. Rounding(c)' = Rounding(c)
  BY DEF Rounding
<1> QED
  BY <1>1 DEF ExcessOf, Balanced, Untraded, HalfPaid, Fresh

\* A command is allowed what it rounds.
LEMMA ExcessIssued ==
  ASSUME NEW s \in Sessions, NEW c \in Coins, Acting(s, c), Issue(s) \/ IssueCancel(s)
  PROVE  ExcessOf(s, c)'
<1>1. /\ UNCHANGED <<users, orders, faults>> /\ issued' = issued + 1
      /\ pc[s] \in Balanced /\ pc'[s] \in Fresh
  BY HandOf DEF Issue, IssueCancel, At, Goto, tables, Balanced, Fresh, TypeOK, LocalsOK
<1>2. /\ Excess(c) \in Int /\ Rounding(c) \in Nat /\ Excess(c) <= 0
      /\ Excess(c)' = Excess(c) - Rounding(c)
  BY <1>1, StillExcess DEF ExcessOf, Acting
<1>3. Excess(c)' <= -Rounding(c)
  BY <1>2
<1> QED
  BY <1>1, <1>3, BalancedAt

\* Statements that read, and the return of a command.
LEMMA ExcessRead ==
  ASSUME NEW s \in Sessions, NEW c \in Coins, Acting(s, c),
         UNCHANGED <<users, orders, faults, issued>>,
         \/ pc[s] \in Balanced /\ pc'[s] \in Balanced
         \/ pc[s] \in Fresh /\ pc'[s] \in Balanced \cup Fresh
  PROVE  ExcessOf(s, c)'
<1>1. Excess(c) \in Int /\ Excess(c)' = Excess(c) /\ Rounding(c) \in Nat
  BY StillExcess
<1>2. /\ pc[s] \in Balanced => Excess(c) <= 0
      /\ pc[s] \in Fresh => Excess(c) <= -Rounding(c)
  BY DEF ExcessOf, Acting
<1>3. pc[s] \in Fresh => Excess(c) <= 0
  BY <1>1, <1>2
<1> QED
  BY <1>1, <1>2, <1>3, BalancedAt

\* find_matching_* returns the id of a row that fits.
LEMMA ExcessFound ==
  ASSUME NEW s \in Sessions, NEW c \in Coins, Acting(s, c), FindMatching(s)
  PROVE  ExcessOf(s, c)'
<1>0. TypeOK /\ ord[s] \in Order
  BY HandOf
<1>1. /\ UNCHANGED <<users, orders, faults, issued>> /\ pc[s] \in Fresh
      /\ pc'[s] = "insert_get_user" \/ pc'[s] = "get_order"
  BY <1>0 DEF FindMatching, At, Goto, tables, bounds, Fresh, TypeOK, LocalsOK
<1>2. /\ Excess(c)' = Excess(c) /\ Excess(c) <= -Rounding(c)
  BY <1>1, StillExcess DEF ExcessOf, Acting
<1>3. CASE pc'[s] = "insert_get_user"
  BY <1>1, <1>3, ExcessRead DEF Balanced
<1>4. CASE pc'[s] = "get_order"
  <2>1. found'[s] \in Matching(ord[s]) /\ ord' = ord
    BY <1>0, <1>4 DEF FindMatching, Goto, TypeOK, LocalsOK
  <2>2. /\ found'[s] \in DOMAIN orders /\ orders[found'[s]].item = ord[s].item
    BY <2>1 DEF Matching, FindMatchingSell, FindMatchingBuy, Oldest
  <2>3. Fitting(s)'
    BY <1>1, <1>4, <2>1, <2>2 DEF Fitting, Settling
  <2>4. Rounding(c)' = Rounding(c)
    BY DEF Rounding
  <2> QED
    BY <1>2, <1>4, <2>3, <2>4 DEF ExcessOf, Balanced, Untraded, HalfPaid, Fresh
<1> QED
  BY <1>1, <1>3, <1>4

\* An error code that is taken for one has used up a failure.
LEMMA ExcessMisread ==
  ASSUME NEW s \in Sessions, NEW c \in Coins, Acting(s, c), PrepareFails(s)
  PROVE  ExcessOf(s, c)'
<1>1. /\ UNCHANGED <<users, orders, issued>> /\ faults' = faults + 1 /\ pc[s] \in Fresh
      /\ pc'[s] = "get_order"
  BY HandOf DEF PrepareFails, At, Goto, tables, Fresh, TypeOK, LocalsOK
<1>2. /\ Excess(c) \in Int /\ LargestReserve(c) \in Nat /\ Rounding(c) \in Nat
      /\ Excess(c) <= -Rounding(c) /\ Excess(c)' = Excess(c) - LargestReserve(c)
  BY <1>1, StillExcess DEF ExcessOf, Acting
<1>3. Excess(c)' <= -Rounding(c) /\ Excess(c)' <= -(LargestReserve(c) + Rounding(c))
  BY <1>2
<1>4. LargestReserve(c)' = LargestReserve(c) /\ Rounding(c)' = Rounding(c)
  BY DEF LargestReserve, Reserved, Rounding
<1> QED
  BY <1>1, <1>3, <1>4 DEF ExcessOf, Balanced, Untraded, HalfPaid, Fresh

\* A failing statement ends the command, or its search.
LEMMA ExcessFails ==
  ASSUME NEW s \in Sessions, NEW c \in Coins, Acting(s, c), StatementFails(s)
  PROVE  ExcessOf(s, c)'
<1>1. UNCHANGED <<users, orders, issued>> /\ faults' = faults + 1
  BY DEF StatementFails, tables
<1>2. pc'[s] \in {"idle", "insert_get_user"}
  BY HandOf DEF StatementFails, InsertFails, Return, Goto, TypeOK, LocalsOK
<1>3. /\ Excess(c) \in Int /\ LargestReserve(c) \in Nat
      /\ Excess(c)' = Excess(c) - LargestReserve(c)
  BY <1>1, StillExcess
<1>4. Excess(c) <= LargestReserve(c)
  BY <1>3, ExcessBound
<1>5. Excess(c)' <= 0
  BY <1>3, <1>4
<1> QED
  BY <1>2, <1>5, BalancedAt DEF Balanced

\* get_order reads the row that was found, and the archives are no coins.
LEMMA ExcessTaken ==
  ASSUME NEW s \in Sessions, NEW c \in Coins, Acting(s, c),
         GetOrder(s) \/ ArchiveMatched(s) \/ ArchiveOrder(s)
  PROVE  ExcessOf(s, c)'
<1>0. TypeOK /\ ord[s] \in Order
  BY HandOf
<1>1. /\ UNCHANGED <<users, orders, faults, issued>> /\ pc[s] \in Untraded
  BY DEF GetOrder, ArchiveMatched, ArchiveOrder, At, tables, bounds, Untraded
<1>2. /\ Excess(c) \in Int /\ Rounding(c) \in Nat
      /\ Excess(c)' = Excess(c) /\ Excess(c) <= -Rounding(c)
      /\ Fitting(s) \/ Excess(c) <= -(LargestReserve(c) + Rounding(c))
  BY <1>1, StillExcess DEF ExcessOf, Acting
<1>3. LargestReserve(c)' = LargestReserve(c) /\ Rounding(c)' = Rounding(c)
  BY DEF LargestReserve, Reserved, Rounding
<1>4. pc'[s] = "idle" \/ (pc'[s] \in Untraded \cap Settling /\ (Fitting(s) => Fitting(s)'))
  <2>1. CASE Return(s, Failure)
    BY <1>0, <2>1 DEF Return, Goto, TypeOK, LocalsOK
  <2>2. CASE GetOrder(s) /\ TakeMatch(s)
    <3>1. /\ ord'[s] = [ord[s] EXCEPT !.created_at = now] /\ match'[s] = orders[found[s]]
          /\ pc'[s] = "archive_matched" /\ found[s] \in DOMAIN orders
      BY <1>0, <2>2 DEF TakeMatch, Goto, TypeOK, LocalsOK
    <3>2. pc[s] = "get_order"
      BY <2>2 DEF GetOrder, At
    <3>3. ord'[s].item = ord[s].item
      BY <1>0, <3>1 DEF Order
    <3> QED
      BY <3>1, <3>2, <3>3 DEF Fitting, Settling, Untraded
  <2>3. CASE ArchiveMatched(s) \/ ArchiveOrder(s)
    BY <1>0, <2>3 DEF ArchiveMatched, ArchiveOrder, At, Goto, locals, Fitting,
                      Settling, Untraded, TypeOK, LocalsOK
  <2> QED
    BY <2>1, <2>2, <2>3 DEF GetOrder
<1>5. CASE pc'[s] = "idle"
  BY <1>2, <1>5, BalancedAt DEF Balanced
<1>6. CASE pc'[s] \in Untraded /\ (Fitting(s) => Fitting(s)')
  BY <1>2, <1>3, <1>6 DEF ExcessOf, Balanced, Untraded, HalfPaid, Fresh
<1> QED
  BY <1>4, <1>5, <1>6

\* The taker's wallet is written.
LEMMA ExcessSelf ==
  ASSUME NEW s \in Sessions, NEW c \in Coins, Acting(s, c), UpdateSelf(s)
  PROVE  ExcessOf(s, c)'
<1> DEFINE o == ord[s]
           m == match[s]
           w == users[user[s]]
           v == TakerWallet(o, m, w)
           d == v[c] - w[c]
           t == TakerGain(o, m, c)
           g == MakerGain(o, m, c)
           L == LargestReserve(c)
<1>0. /\ TypeOK /\ TypeOK' /\ pc[s] = "update_self" /\ HasOrder(pc[s])
      /\ pc[s] \in Settling /\ pc[s] \in Recorded \ {"archive_order"}
      /\ pc[s] \in Checked /\ IsFiniteSet(Users)
  BY HandOf DEF UpdateSelf, At, HasOrder, Cancelling, Settling, Recorded, Checked, Acting
<1>1. /\ o \in Order /\ m \in Order /\ Sized(o) /\ Sized(m) /\ user[s] \in Users
      /\ w \in Wallet /\ Rounding(c) \in Nat
  BY <1>0, HandOf DEF TypeOK, TablesOK
<1>2. wal[s] = w
  BY <1>0 DEF Acting, FundsInv, FundsOf
<1>3. UpdateUserBalance(user[s], v) /\ UNCHANGED <<orders, faults, issued, ord, match>>
      /\ pc'[s] = "get_counterparty"
  BY <1>0, <1>2 DEF UpdateSelf, Goto, locals, bounds, TypeOK, LocalsOK
<1>4. /\ Assets(c) \in Int /\ w[c] \in Int /\ v[c] \in Int /\ Assets(c)' = Assets(c) + d
  <2> HIDE DEF v
  <2> QED
    BY <1>0, <1>1, <1>3, WalletWritten
<1>5. d \in Int
  BY <1>4
<1>6. Excess(c) \in Int /\ L \in Nat /\ Excess(c)' = Excess(c) + d
  <2> HIDE DEF d
  <2> QED
    BY <1>0, <1>3, <1>4, <1>5, ExcessShift DEF Acting
<1>7. /\ TxQuantity(o, m) >= 0 /\ TxExact(o, m) >= 0
      /\ c \in {o.item, m.item} => TxQuantity(o, m) <= L
      /\ c = "OMG" => Floor(TxExact(o, m)) <= L
  <2>1. o.quantity >= 0 /\ m.quantity >= 0 /\ m.unitPrice >= 0
    BY <1>0, TradeAmounts DEF Acting, Recorded
  <2> QED
    BY <1>1, <2>1, LargestTrade DEF Acting
<1>8. t <= L + Rounding(c) /\ t + g <= L + Rounding(c)
  <2> HIDE DEF o, m, L
  <2> QED
    BY <1>1, <1>6, <1>7, AnyTrade DEF t, g
<1>9. t \in Int /\ g \in Int /\ d <= t
  BY <1>1, TakerGains, MakerGains
<1>10. o.item = m.item => t + g <= Rounding(c)
  BY <1>1, FairTrade
<1>11. /\ Excess(c) <= -Rounding(c)
       /\ o.item = m.item \/ Excess(c) <= -(L + Rounding(c))
  BY <1>0 DEF Acting, ExcessOf, Untraded, Fitting
<1>12. Excess(c)' <= L /\ Excess(c)' + g <= 0
  <2> HIDE DEF d, g, t, L, o, m
  <2>1. CASE o.item = m.item
    BY <1>1, <1>5, <1>6, <1>8, <1>9, <1>10, <1>11, <2>1
  <2>2. CASE Excess(c) <= -(L + Rounding(c))
    BY <1>1, <1>5, <1>6, <1>8, <1>9, <2>2
  <2> QED
    BY <1>11, <2>1, <2>2
<1>13. L' = L /\ MakerGain(ord'[s], match'[s], c) = g
  BY <1>3 DEF LargestReserve, Reserved
<1> QED
  BY <1>3, <1>12, <1>13 DEF ExcessOf, Balanced, Untraded, HalfPaid, Fresh

\* The wallet of the other user is read.
LEMMA ExcessHalf ==
  ASSUME NEW s \in Sessions, NEW c \in Coins, Acting(s, c), GetCounterparty(s)
  PROVE  ExcessOf(s, c)'
<1>1. UNCHANGED <<users, orders, faults, issued, ord, match>> /\ pc[s] \in HalfPaid
      /\ pc'[s] = "update_counterparty"
  BY HandOf DEF GetCounterparty, At, Goto, ReadWallet, tables, bounds, HalfPaid, TypeOK, LocalsOK
<1>2. Excess(c)' = Excess(c)
  BY <1>1, StillExcess
<1>3. LargestReserve(c)' = LargestReserve(c)
  BY DEF LargestReserve, Reserved
<1>4. MakerGain(ord[s], match[s], c)' = MakerGain(ord[s], match[s], c)
  BY <1>1
<1> QED
  BY <1>1, <1>2, <1>3, <1>4 DEF Acting, ExcessOf, Balanced, Untraded, HalfPaid, Fresh

\* And written.
LEMMA ExcessCounterparty ==
  ASSUME NEW s \in Sessions, NEW c \in Coins, Acting(s, c), UpdateCounterparty(s)
  PROVE  ExcessOf(s, c)'
<1> DEFINE o == ord[s]
           m == match[s]
           w == users[m.userID]
           v == MakerWallet(o, m, w)
           d == v[c] - w[c]
           g == MakerGain(o, m, c)
<1>0. /\ TypeOK /\ TypeOK' /\ pc[s] = "update_counterparty"
      /\ pc[s] \in Settling /\ IsFiniteSet(Users)
  BY HandOf DEF UpdateCounterparty, At, Settling, Acting
<1>1. /\ o \in Order /\ m \in Order /\ m.userID \in Users /\ w \in Wallet
  BY <1>0, HandOf DEF TypeOK, TablesOK
<1>2. wal[s] = w
  BY <1>0 DEF Acting, FundsInv, FundsOf
<1>3. /\ UpdateUserBalance(m.userID, v) /\ UNCHANGED <<orders, faults, issued>>
      /\ pc'[s] \in Balanced
  BY <1>0, <1>2 DEF UpdateCounterparty, Goto, bounds, Balanced, TypeOK, LocalsOK
<1>4. /\ Assets(c) \in Int /\ w[c] \in Int /\ v[c] \in Int /\ Assets(c)' = Assets(c) + d
  <2> HIDE DEF v, m
  <2> QED
    BY <1>0, <1>1, <1>3, WalletWritten
<1>5. d \in Int
  BY <1>4
<1>6. Excess(c) \in Int /\ Excess(c)' = Excess(c) + d
  <2> HIDE DEF d
  <2> QED
    BY <1>0, <1>3, <1>4, <1>5, ExcessShift DEF Acting
<1>7. g \in Int /\ d <= g
  BY <1>1, MakerGains
<1>8. Excess(c) + g <= 0
  BY <1>0 DEF Acting, ExcessOf, HalfPaid
<1>9. Excess(c)' <= 0
  <2> HIDE DEF g, d
  <2> QED
    BY <1>5, <1>6, <1>7, <1>8
<1> QED
  BY <1>3, <1>9, BalancedAt

\* What a trade leaves of an order holds no more than the order did.
LEMMA RestHolds ==
  ASSUME NEW m \in Order, NEW n \in Int, 0 <= n, n <= m.quantity, 0 <= m.unitPrice,
         NEW c \in Coins
  PROVE  /\ Reserved(Less(m, n), c) \in Int /\ Reserved(m, c) \in Int
         /\ Reserved(Less(m, n), c) <= Reserved(m, c)
         /\ m.quantity = n => Reserved(Less(m, n), c) = 0
<1> DEFINE l == Less(m, n)
           x == (m.quantity - n) * m.unitPrice
           y == m.quantity * m.unitPrice
<1>1. /\ m.quantity \in Int /\ m.unitPrice \in Nat /\ m.quantity - n \in Nat
      /\ m.quantity - n <= m.quantity
  BY DEF Order
<1>2. /\ l \in Order /\ l.quantity = m.quantity - n /\ l.unitPrice = m.unitPrice
      /\ l.side = m.side /\ l.item = m.item
  BY RestOf
<1>3. x \in Nat /\ y \in Nat /\ x <= y
  BY <1>1
<1>4. /\ Trunc(Round(x)) \in Int /\ Trunc(Round(y)) \in Int
      /\ Trunc(Round(x)) <= Trunc(Round(y))
      /\ x = 0 => Trunc(Round(x)) = 0
  <2> HIDE DEF x, y
  <2>1. /\ Trunc(Round(x)) \in Int /\ Trunc(Round(y)) \in Int
        /\ Trunc(Round(x)) <= Trunc(Round(y))
    BY <1>3, CoinsMonotone
  <2>2. 0 \in Int /\ 0 * Scale = 0 /\ x \in Int
    BY <1>3, DoublesAssumption
  <2>3. x >= 0 => 0 <= Trunc(Round(x))
    BY <2>2, CoinBounds
  <2>4. x <= 0 => Trunc(Round(x)) <= 0
    BY <2>2, CoinBounds
  <2> QED
    BY <2>1, <2>2, <2>3, <2>4
<1>5. m.quantity = n => x = 0
  BY <1>1
<1> HIDE DEF l
<1>6. Cost(l) = Round(x) /\ Cost(m) = Round(y)
  BY <1>2 DEF Cost
<1> HIDE DEF x, y
<1>7. /\ Reserved(l, c) \in Int /\ Reserved(m, c) \in Int
      /\ Reserved(l, c) <= Reserved(m, c)
      /\ m.quantity = n => Reserved(l, c) = 0
  BY <1>1, <1>2, <1>4, <1>5, <1>6 DEF Reserved
<1> QED
  BY <1>7 DEF l

\* The matched row goes, or keeps its rest.
LEMMA ExcessSettled ==
  ASSUME NEW s \in Sessions, NEW c \in Coins, Acting(s, c), SettleMatched(s)
  PROVE  ExcessOf(s, c)'
<1> DEFINE o == ord[s]
           m == match[s]
           n == TxQuantity(o, m)
           l == Less(m, n)
           r == Reserved(m, c) - Reserved(l, c)
<1>0. /\ TypeOK /\ TypeOK' /\ pc[s] = "settle_matched"
      /\ pc[s] \in Settling /\ pc[s] \in Recorded \ {"archive_order"} /\ IsFiniteSet(Users)
  BY HandOf DEF SettleMatched, At, Settling, Recorded, Acting
<1>1. /\ o \in Order /\ m \in Order /\ m.userID \in Users
      /\ found[s] \in DOMAIN orders /\ orders[found[s]] = m /\ Reserved(m, c) \in Int
  BY <1>0, HandOf
<1>2. WriteBack(found[s], l) /\ UNCHANGED <<users, faults, issued>>
  BY DEF SettleMatched, bounds
<1>3. pc'[s] \in Balanced
  BY <1>0 DEF SettleMatched, Return, Goto, Balanced, TypeOK, LocalsOK
<1>4. n \in Int /\ 0 <= n /\ n <= m.quantity /\ 0 <= m.unitPrice /\ m.quantity \in Int
  <2>1. o.quantity >= 0 /\ m.quantity >= 0 /\ m.unitPrice >= 0
    BY <1>0, TradeAmounts DEF Acting, Recorded
  <2> QED
    BY <1>1, <2>1 DEF TxQuantity, Order
<1>5. l \in Order /\ l.userID = m.userID /\ l.quantity = m.quantity - n
  BY <1>1, <1>4, RestOf
<1>6. /\ Reserved(l, c) \in Int /\ Reserved(l, c) <= Reserved(m, c)
      /\ l.quantity = 0 => Reserved(l, c) = 0
  BY <1>1, <1>4, <1>5, RestHolds
<1>7. r \in Nat /\ -r \in Int
  BY <1>1, <1>6
<1>8. \A u \in Users : HeldIn(orders', u, c)
                         = HeldIn(orders, u, c) + (IF u = m.userID THEN -r ELSE 0)
  <2> TAKE u \in Users
  <2>1. HeldIn(orders, u, c) \in Int
    BY <1>0, Tables, HeldType
  <2> HIDE DEF l, m
  <2>2. CASE l.quantity = 0 /\ DeleteOrder(found[s])
    <3>1. HeldIn(orders', u, c)
            = HeldIn(orders, u, c)
                + (IF u = m.userID THEN -Reserved(m, c) ELSE 0)
      BY <1>0, <1>1, <2>2, RowDeleted
    <3>2. r = Reserved(m, c)
      BY <1>1, <1>6, <2>2
    <3> QED
      BY <3>1, <3>2
  <2>3. CASE UpdateOrder(found[s], l)
    <3>1. HeldIn(orders', u, c)
            = HeldIn(orders, u, c)
                + (IF u = l.userID THEN Reserved(l, c) - Reserved(orders[found[s]], c) ELSE 0)
      BY <1>0, <1>1, <1>5, <2>3, RowUpdated
    <3>2. -r = Reserved(l, c) - Reserved(m, c)
      BY <1>1, <1>6
    <3> QED
      BY <1>1, <1>5, <3>1, <3>2
  <2> QED
    BY <1>2, <2>2, <2>3 DEF WriteBack
<1>9. Assets(c) \in Int /\ Assets(c)' = Assets(c) + (-r)
  <2> HIDE DEF r, m
  <2> QED
    BY <1>0, <1>1, <1>2, <1>7, <1>8, RowsWritten
<1>10. Excess(c) \in Int /\ Excess(c)' = Excess(c) + (-r)
  <2> HIDE DEF r
  <2> QED
    BY <1>0, <1>2, <1>7, <1>9, ExcessShift DEF Acting
<1>11. Excess(c) <= 0
  BY <1>0 DEF Acting, ExcessOf, Balanced
<1>12. Excess(c)' <= 0
  <2> HIDE DEF r
  <2> QED
    BY <1>7, <1>10, <1>11
<1> QED
  BY <1>3, <1>12, BalancedAt

\* A row is inserted before its owner pays for it.
LEMMA ExcessInserted ==
  ASSUME NEW s \in Sessions, NEW c \in Coins, Acting(s, c), InsertOrder(s)
  PROVE  ExcessOf(s, c)'
<1> DEFINE o == ord[s]
           r == Reserved(o, c)
<1>0. /\ TypeOK /\ TypeOK' /\ pc[s] = "insert_order" /\ HasOrder(pc[s]) /\ IsFiniteSet(Users)
      /\ user[s] \in Users
  BY HandOf DEF InsertOrder, At, HasOrder, Cancelling, Acting
<1>1. o \in Order /\ o.userID = user[s] /\ r \in Int
  BY <1>0, HandOf
<1>2. /\ InsertRow(o) /\ UNCHANGED <<users, faults, issued, ord>> /\ pc'[s] = "insert_update_user"
  BY <1>0 DEF InsertOrder, Goto, locals, bounds, TypeOK, LocalsOK
<1>3. \A u \in Users : HeldIn(orders', u, c)
                         = HeldIn(orders, u, c) + (IF u = user[s] THEN r ELSE 0)
  <2> HIDE DEF o
  <2> QED
    BY <1>0, <1>1, <1>2, RowInserted
<1>4. Assets(c) \in Int /\ Assets(c)' = Assets(c) + r
  <2> HIDE DEF r
  <2> QED
    BY <1>0, <1>1, <1>2, <1>3, RowsWritten
<1>5. Excess(c) \in Int /\ Excess(c)' = Excess(c) + r
  <2> HIDE DEF r
  <2> QED
    BY <1>0, <1>1, <1>2, <1>4, ExcessShift DEF Acting
<1>6. Excess(c) <= 0
  BY <1>0 DEF Acting, ExcessOf, Balanced
<1>7. Excess(c)' <= r
  <2> HIDE DEF r
  <2> QED
    BY <1>1, <1>5, <1>6
<1>8. Reserved(ord'[s], c) = r
  BY <1>2
<1> QED
  BY <1>2, <1>7, <1>8 DEF ExcessOf, Balanced, Untraded, HalfPaid, Fresh

\* Then he pays.
LEMMA ExcessPaid ==
  ASSUME NEW s \in Sessions, NEW c \in Coins, Acting(s, c), InsertUpdateUser(s)
  PROVE  ExcessOf(s, c)'
<1> DEFINE o == ord[s]
           w == users[user[s]]
           v == Reserve(o, w)
           r == Reserved(o, c)
           d == v[c] - w[c]
<1>0. /\ TypeOK /\ TypeOK' /\ pc[s] = "insert_update_user" /\ IsFiniteSet(Users)
  BY HandOf DEF InsertUpdateUser, At, Acting
<1>1. o \in Order /\ user[s] \in Users /\ w \in Wallet
  BY <1>0, HandOf DEF TypeOK, TablesOK
<1>2. wal[s] = w
  BY <1>0 DEF Acting, FundsInv, FundsOf
<1>3. /\ UpdateUserBalance(user[s], v) /\ UNCHANGED <<orders, faults, issued>> /\ pc'[s] = "idle"
  BY <1>0, <1>2 DEF InsertUpdateUser, Return, Goto, bounds, TypeOK, LocalsOK
<1>4. /\ Assets(c) \in Int /\ w[c] \in Int /\ v[c] \in Int /\ Assets(c)' = Assets(c) + d
  <2> HIDE DEF v
  <2> QED
    BY <1>0, <1>1, <1>3, WalletWritten
<1>5. d \in Int
  BY <1>4
<1>6. Excess(c) \in Int /\ Excess(c)' = Excess(c) + d
  <2> HIDE DEF d
  <2> QED
    BY <1>0, <1>3, <1>4, <1>5, ExcessShift DEF Acting
<1>7. r \in Int /\ d = -r
  BY <1>1, <1>4, ReserveGains
<1>8. Excess(c) <= r
  BY <1>0 DEF Acting, ExcessOf
<1>9. Excess(c)' <= 0
  <2> HIDE DEF r, d
  <2> QED
    BY <1>6, <1>7, <1>8
<1> QED
  BY <1>3, <1>9, BalancedAt DEF Balanced

\* A cancelled order is paid back before it goes.
LEMMA ExcessRefunded ==
  ASSUME NEW s \in Sessions, NEW c \in Coins, Acting(s, c), CancelUpdateUser(s)
  PROVE  ExcessOf(s, c)'
<1> DEFINE m == match[s]
           w == users[m.userID]
           v == Refund(m, w)
           r == Reserved(m, c)
           d == v[c] - w[c]
<1>0. /\ TypeOK /\ TypeOK' /\ pc[s] = "cancel_update_user" /\ pc[s] \in Refunding
      /\ IsFiniteSet(Users)
  BY HandOf DEF CancelUpdateUser, At, Refunding, Cancelling, Acting
<1>1. m \in Order /\ m.userID \in Users /\ w \in Wallet /\ Rounding(c) \in Nat
  BY <1>0, HandOf DEF TypeOK, TablesOK
<1>2. wal[s] = w
  BY <1>0 DEF Acting, FundsInv, FundsOf
<1>3. /\ UpdateUserBalance(m.userID, v) /\ UNCHANGED <<orders, faults, issued, match>>
      /\ pc'[s] = "cancel_delete"
  BY <1>0, <1>2 DEF CancelUpdateUser, Goto, locals, bounds, TypeOK, LocalsOK
<1>4. /\ Assets(c) \in Int /\ w[c] \in Int /\ v[c] \in Int /\ Assets(c)' = Assets(c) + d
  <2> HIDE DEF v, m
  <2> QED
    BY <1>0, <1>1, <1>3, WalletWritten
<1>5. d \in Int
  BY <1>4
<1>6. Excess(c) \in Int /\ Excess(c)' = Excess(c) + d
  <2> HIDE DEF d
  <2> QED
    BY <1>0, <1>3, <1>4, <1>5, ExcessShift DEF Acting
<1>7. r \in Int /\ d <= r + Rounding(c)
  <2>1. r \in Int /\ v[c] <= w[c] + r + Rounding(c)
    BY <1>1, RefundGains
  <2> HIDE DEF r, v, w
  <2> QED
    BY <1>1, <1>4, <2>1
<1>8. Excess(c) <= -Rounding(c)
  BY <1>0 DEF Acting, ExcessOf, Fresh
<1>9. Excess(c)' <= r
  <2> HIDE DEF r, d
  <2> QED
    BY <1>1, <1>5, <1>6, <1>7, <1>8
<1>10. Reserved(match'[s], c) = r
  BY <1>3
<1> QED
  BY <1>3, <1>9, <1>10 DEF ExcessOf, Balanced, Untraded, HalfPaid, Fresh

\* Then it goes.
LEMMA ExcessCancelled ==
  ASSUME NEW s \in Sessions, NEW c \in Coins, Acting(s, c), CancelDelete(s)
  PROVE  ExcessOf(s, c)'
<1> DEFINE m == match[s]
           r == Reserved(m, c)
<1>0. /\ TypeOK /\ TypeOK' /\ pc[s] = "cancel_delete" /\ pc[s] \in Refunding
      /\ IsFiniteSet(Users)
  BY HandOf DEF CancelDelete, At, Refunding, Cancelling, Acting
<1>1. /\ m.userID \in Users /\ found[s] \in DOMAIN orders /\ orders[found[s]] = m /\ r \in Int
  BY <1>0, HandOf
<1>2. DeleteOrder(found[s]) /\ UNCHANGED <<users, faults, issued>> /\ pc'[s] = "idle"
  BY <1>0 DEF CancelDelete, Return, Goto, bounds, TypeOK, LocalsOK
<1>3. \A u \in Users : HeldIn(orders', u, c)
                         = HeldIn(orders, u, c) + (IF u = m.userID THEN -r ELSE 0)
  BY <1>0, <1>1, <1>2, RowDeleted
<1>4. Assets(c) \in Int /\ Assets(c)' = Assets(c) + (-r) /\ -r \in Int
  <2>1. -r \in Int
    BY <1>1
  <2> HIDE DEF r, m
  <2> QED
    BY <1>0, <1>1, <1>2, <1>3, <2>1, RowsWritten
<1>5. Excess(c) \in Int /\ Excess(c)' = Excess(c) + (-r)
  <2> HIDE DEF r
  <2> QED
    BY <1>0, <1>2, <1>4, ExcessShift DEF Acting
<1>6. Excess(c) <= r
  BY <1>0 DEF Acting, ExcessOf
<1>7. Excess(c)' <= 0
  <2> HIDE DEF r
  <2> QED
    BY <1>1, <1>5, <1>6
<1> QED
  BY <1>2, <1>7, BalancedAt DEF Balanced

\* Whatever the session does.
LEMMA ExcessOfStep ==
  ASSUME NEW s \in Sessions, NEW c \in Coins, Acting(s, c), Acts(s)
  PROVE  ExcessOf(s, c)'
<1>1. CASE Issue(s) \/ IssueCancel(s)
  BY <1>1, ExcessIssued
<1>2. CASE GetUser(s) \/ CancelGetOrder(s) \/ CancelGetUser(s)
  <2>1. UNCHANGED <<users, orders, faults, issued>> /\ pc[s] \in Fresh
    BY <1>2 DEF GetUser, CancelGetOrder, CancelGetUser, At, tables, bounds, Fresh
  <2>2. pc'[s] \in Balanced \cup Fresh
    BY <1>2, HandOf
    DEF GetUser, CancelGetOrder, CancelGetUser, Return, Goto, Balanced, Fresh, TypeOK, LocalsOK
  <2> QED
    BY <2>1, <2>2, ExcessRead
<1>3. CASE InsertGetUser(s)
  <2>1. UNCHANGED <<users, orders, faults, issued>> /\ pc[s] \in Balanced
    BY <1>3 DEF InsertGetUser, At, tables, bounds, Balanced
  <2>2. pc'[s] \in Balanced
    BY <1>3, HandOf DEF InsertGetUser, InsertFails, Return, Goto, Balanced, TypeOK, LocalsOK
  <2> QED
    BY <2>1, <2>2, ExcessRead
<1>4. CASE FindMatching(s) \/ PrepareFails(s) \/ StatementFails(s)
  BY <1>4, ExcessFound, ExcessMisread, ExcessFails
<1>5. CASE GetOrder(s) \/ ArchiveMatched(s) \/ ArchiveOrder(s)
  BY <1>5, ExcessTaken
<1>6. CASE UpdateSelf(s) \/ GetCounterparty(s) \/ UpdateCounterparty(s) \/ SettleMatched(s)
  BY <1>6, ExcessSelf, ExcessHalf, ExcessCounterparty, ExcessSettled
<1>7. CASE InsertOrder(s) \/ InsertUpdateUser(s)
  BY <1>7, ExcessInserted, ExcessPaid
<1>8. CASE CancelUpdateUser(s) \/ CancelDelete(s)
  BY <1>8, ExcessRefunded, ExcessCancelled
<1> QED
  BY <1>1, <1>2, <1>3, <1>4, <1>5, <1>6, <1>7, <1>8 DEF Acts, Step

\* A session that acts was alone, or nothing was going on.
LEMMA ExcessNow ==
  ASSUME TypeOK, OneAtATime, OneAtATime', NEW s \in Sessions, Acts(s), ExcessInv,
         NEW c \in Coins
  PROVE  ExcessOf(s, c)
<1>1. CASE ~At(s, "idle")
  BY <1>1 DEF ExcessInv
<1>2. CASE At(s, "idle")
  <2>1. \A t \in Sessions : t # s => pc[t] = "idle"
    BY OthersIdle, OthersStay
  <2>2. Excess(c) <= 0
    BY <1>2, <2>1 DEF ExcessInv, Quiet, At
  <2> QED
    BY <1>2, <2>2 DEF ExcessOf, At, Balanced, Untraded, HalfPaid, Fresh
<1> QED
  BY <1>1, <1>2

\* So every step keeps the bound, one command at a time.
LEMMA ExcessInvStep ==
  ASSUME IsFiniteSet(Users), IsFiniteSet(Quantities), IsFiniteSet(Prices),
         Steady, FundsInv, TradedInv, NoNegativeTrade, SizeInv, ExcessInv,
         [Next /\ OneAtATime']_vars
  PROVE  ExcessInv'
<1>1. CASE UNCHANGED <<users, orders, faults, issued, pc, ord, found, match>>
  <2>1. ASSUME NEW c \in Coins
        PROVE  /\ Excess(c)' = Excess(c) /\ LargestReserve(c)' = LargestReserve(c)
               /\ \A s \in Sessions : /\ Fitting(s)' = Fitting(s)
                                      /\ ExcessOf(s, c)' = ExcessOf(s, c)
    <3>1. Assets(c)' = Assets(c)
      BY <1>1 DEF Assets
    <3>2. LargestReserve(c)' = LargestReserve(c) /\ Issued(c)' = Issued(c)
      BY DEF LargestReserve, Reserved, Issued
    <3>3. Excess(c)' = Excess(c)
      BY <1>1, <3>1, <3>2 DEF Excess
    <3>4. \A s \in Sessions : Fitting(s)' = Fitting(s)
      BY <1>1 DEF Fitting
    <3>5. \A s \in Sessions : ExcessOf(s, c)' = ExcessOf(s, c)
      BY <1>1, <3>2, <3>3, <3>4 DEF ExcessOf
    <3> QED
      BY <3>2, <3>3, <3>4, <3>5
  <2> QED
    BY <1>1, <2>1 DEF ExcessInv, Quiet, At
<1>2. ASSUME NEW s \in Sessions, Acts(s), OneAtATime', NEW c \in Coins
      PROVE  /\ Quiet' => Excess(c)' <= 0
             /\ \A t \in Sessions : ~At(t, "idle")' => ExcessOf(t, c)'
  <2>1. TypeOK /\ TypeOK' /\ OneAtATime
    BY SteadyStep DEF Steady
  <2>2. ExcessOf(s, c)
    BY <1>2, <2>1, ExcessNow
  <2>3. Acting(s, c)
    BY <2>1, <2>2 DEF Acting
  <2>4. ExcessOf(s, c)'
    BY <1>2, <2>3, ExcessOfStep
  <2>5. \A t \in Sessions : t # s => pc'[t] = "idle"
    BY <1>2, <2>1, OthersIdle
  <2>6. Quiet' => Excess(c)' <= 0
    BY <2>4 DEF Quiet, At, ExcessOf, Balanced
  <2> QED
    BY <2>4, <2>5, <2>6 DEF At
<1>3. CASE UNCHANGED vars \/ Tick
  BY <1>1, <1>3 DEF vars, tables, locals, bounds, Tick
<1> QED
  BY <1>2, <1>3 DEF ExcessInv, Next, Acts, Waiting

-----------------------------------------------------------------------------
(* At the start *)

\* No rows hold nothing.
LEMMA ReserveNone ==
  ASSUME orders = << >>, NEW u, NEW c
  PROVE  HeldIn(orders, u, c) = 0
<1> DEFINE g == [i \in DOMAIN orders |-> Reserved(orders[i], c)]
           A == {i \in DOMAIN orders : orders[i].userID = u}
<1>1. A = {}
  OBVIOUS
<1> HIDE DEF g
<1>2. SumFunctionOnSet(g, A) = 0
  BY <1>1, FS_EmptySet, SumChoice
<1> QED
  BY <1>2 DEF HeldIn, g

\* Nothing is in excess before the first command.
LEMMA ExcessInit ==
  ASSUME IsFiniteSet(Users), IsFiniteSet(Quantities), IsFiniteSet(Prices), Init
  PROVE  FundsInv /\ TradedInv /\ SizeInv /\ ExcessInv
<1>1. FundsInv /\ TradedInv
  BY DEF Init, FundsInv, FundsOf, TradedInv, TradedOf, Checked, Refunding, Cancelling,
         Recorded, Settling
<1>2. SizeInv
  BY DEF Init, SizeInv, HasOrder, HasMatch, Settling, Cancelling
<1>3. ASSUME NEW c \in Coins
      PROVE  Excess(c) = 0
  <2>1. DefaultWallet[c] \in Int /\ Cardinality(Users) \in Nat
    BY DefaultType, FS_CardinalityType DEF Wallet
  <2>2. \A u \in Users : Worths(users, orders, c)[u] = DefaultWallet[c]
    <3>1. \A u \in Users : users[u][c] = DefaultWallet[c]
      BY DEF Init
    <3>2. \A u \in Users : HeldIn(orders, u, c) = 0
      BY ReserveNone DEF Init
    <3> QED
      BY <2>1, <3>1, <3>2 DEF Worths, Worth
  <2>3. Assets(c) = Cardinality(Users) * DefaultWallet[c]
    BY <2>1, <2>2, SumConstant DEF Assets, TotalIn
  <2>4. LargestReserve(c) \in Nat
    BY Largest
  <2>5. faults = 0 /\ issued = 0
    BY DEF Init
  <2>6. Made(c, issued) = 0 /\ faults * LargestReserve(c) = 0
    BY <2>4, <2>5 DEF Made
  <2> QED
    BY <2>1, <2>3, <2>6 DEF Excess, Issued
<1>4. ExcessInv
  BY <1>3 DEF ExcessInv, Init, At
<1> QED
  BY <1>1, <1>2, <1>4

-----------------------------------------------------------------------------
(* What the users own *)

\* There are so many coins.
LEMMA TotalType ==
  ASSUME IsFiniteSet(Users), TypeOK, NEW c \in Coins
  PROVE  TotalIn(users, orders, c) \in Int
<1> DEFINE h == Worths(users, orders, c)
<1>1. ASSUME NEW u \in Users
      PROVE  h[u] \in Int
  <2>1. HeldIn(orders, u, c) \in Int
    BY Tables, HeldType
  <2>2. users[u][c] \in Int
    BY Tables DEF Wallet
  <2> QED
    BY <2>1, <2>2 DEF Worths, Worth
<1> HIDE DEF h
<1>2. SumFunctionOnSet(h, Users) \in Int
  BY <1>1, SumChoice
<1> QED
  BY <1>2 DEF TotalIn, h

\* CreationBounded: between commands, what the wallets and the resting orders hold
\* is what was issued, a coin of OMG for the rounding of each command, and at most
\* the largest order for each statement that failed in the middle of buy, sell,
\* insert_order or cancel_order: whichever statement it is, whatever the trades
\* before and after it do with the rows it left, even if its code is taken for an
\* orderID, and for any arithmetic of doubles, as long as no order for a negative
\* quantity or price is traded.
THEOREM CreationIsBounded ==
  ASSUME IsFiniteSet(Users), IsFiniteSet(Quantities), IsFiniteSet(Prices)
  PROVE  SerialSpec => []CreationBounded
<1> DEFINE I == /\ Steady /\ FundsInv /\ TradedInv
                /\ NoNegativeTrade => SizeInv /\ ExcessInv
<1>1. Init => I
  BY SteadyInit, ExcessInit
<1>2. I /\ [Next /\ OneAtATime']_vars => I'
  <2> SUFFICES ASSUME I, [Next /\ OneAtATime']_vars
               PROVE  I'
    OBVIOUS
  <2>1. TypeOK /\ OneAtATime /\ [Next]_vars
    BY DEF Steady
  <2>2. Steady'
    BY SteadyStep
  <2>3. FundsInv' /\ TradedInv'
    BY <2>1, FundsInvStep, TradedInvStep
  <2>4. ASSUME NoNegativeTrade'
        PROVE  SizeInv' /\ ExcessInv'
    <3>1. NoNegativeTrade
      BY <2>1, <2>4, NoNegativeBefore
    <3> QED
      BY <2>1, <3>1, SizeInvStep, ExcessInvStep
  <2> QED
    BY <2>2, <2>3, <2>4
<1>3. I => CreationBounded
  <2> SUFFICES ASSUME TypeOK, ExcessInv, Quiet, NEW c \in Coins
               PROVE  Total(c) <= Issued(c) + faults * LargestReserve(c)
                                    + (IF c = "OMG" THEN issued ELSE 0)
    BY DEF CreationBounded, Steady
  <2>1. Total(c) = Assets(c)
    BY TotalIs DEF Assets
  <2>2. Excess(c) <= 0
    BY DEF ExcessInv
  <2>3. Cardinality(Users) \in Nat /\ DefaultWallet[c] \in Int
    BY FS_CardinalityType, DefaultType DEF Wallet
  <2>4. Issued(c) \in Int
    BY <2>3 DEF Issued
  <2>5. faults * LargestReserve(c) \in Int
    <3>1. faults \in Nat /\ LargestReserve(c) \in Nat
      BY Largest DEF TypeOK
    <3> QED
      BY <3>1
  <2>6. Assets(c) \in Int
    BY TotalType DEF Assets
  <2>7. Made(c, issued) \in Int /\ Made(c, issued) = IF c = "OMG" THEN issued ELSE 0
    BY DEF Made, TypeOK
  <2> QED
    BY <2>1, <2>2, <2>4, <2>5, <2>6, <2>7 DEF Excess
<1> QED
  BY <1>1, <1>2, <1>3, PTL DEF SerialSpec

-----------------------------------------------------------------------------
(* As long as nothing is traded *)

\* What a session that acts leaves every user with.
Kept(s) ==
  \A u \in Users, c \in Coins :
    Near(c, users[u][c] + HeldIn(orders, u, c), Owned(s, u, c), Spent(s))

\* The numbers it is about.
LEMMA KeptType ==
  ASSUME TypeOK, NEW s \in Sessions, NEW u \in Users, NEW c \in Coins
  PROVE  /\ users[u][c] \in Int /\ HeldIn(orders, u, c) \in Int /\ DefaultWallet[c] \in Int
         /\ Reserved(ord[s], c) \in Int /\ Reserved(match[s], c) \in Int
         /\ issued \in Nat /\ Spent(s) \in Int
<1>1. ord[s] \in Order /\ match[s] \in Order /\ issued \in Nat
  BY DEF TypeOK, LocalsOK
<1>2. Reserved(ord[s], c) \in Int /\ Reserved(match[s], c) \in Int
  BY <1>1, ReservedType
<1>3. users[u][c] \in Int /\ HeldIn(orders, u, c) \in Int /\ DefaultWallet[c] \in Int
  BY Tables, HeldType, DefaultType DEF Wallet
<1>4. Spent(s) \in Int
  BY <1>1 DEF Spent
<1> QED
  BY <1>1, <1>2, <1>3, <1>4

\* Distances add up.
LEMMA NearMoved ==
  ASSUME NEW c, NEW x \in Int, NEW y \in Int, NEW v \in Int, NEW w \in Int,
         NEW n \in Int, NEW k \in Int, Near(c, x, y, n), Near(c, v - x, w - y, k)
  PROVE  Near(c, v, w, n + k)
<1>1. CASE c = "OMG"
  BY <1>1 DEF Near, Made
<1>2. CASE c # "OMG"
  BY <1>2 DEF Near, Made
<1> QED
  BY <1>1, <1>2

LEMMA NearLonger ==
  ASSUME NEW c, NEW x \in Int, NEW y \in Int, NEW n \in Int, NEW k \in Int, n <= k,
         Near(c, x, y, n)
  PROVE  Near(c, x, y, k)
<1>1. CASE c = "OMG"
  BY <1>1 DEF Near, Made
<1>2. CASE c # "OMG"
  BY <1>2 DEF Near, Made
<1> QED
  BY <1>1, <1>2

\* A statement that writes neither wallets nor rows and stays clear of the labels
\* between the two writes of a command.
LEMMA KeptRead ==
  ASSUME TypeOK, TypeOK', NEW s \in Sessions, Kept(s), UNCHANGED <<users, orders>>,
         pc[s] \notin {"insert_update_user", "cancel_delete"},
         pc'[s] \notin {"insert_update_user", "cancel_delete"}, Spent(s) <= Spent(s)'
  PROVE  Kept(s)'
<1>1. ASSUME NEW u \in Users, NEW c \in Coins
      PROVE  Near(c, users[u][c] + HeldIn(orders, u, c), DefaultWallet[c], Spent(s)')
  <2>1. DefaultWallet[c] \in Int /\ users[u][c] \in Int /\ HeldIn(orders, u, c) \in Int
        /\ Spent(s) \in Int
    BY KeptType
  <2>2. Spent(s)' \in Int
    <3>1. issued' \in Nat
      BY DEF TypeOK
    <3> QED
      BY <3>1 DEF Spent
  <2>3. Owned(s, u, c) = DefaultWallet[c]
    BY <2>1 DEF Owned
  <2>4. users[u][c] + HeldIn(orders, u, c) \in Int
    BY <2>1
  <2>5. Near(c, users[u][c] + HeldIn(orders, u, c), DefaultWallet[c], Spent(s))
    BY <2>3 DEF Kept
  <2> QED
    BY <2>1, <2>2, <2>4, <2>5, NearLonger
<1>2. \A u \in Users, c \in Coins : Owned(s, u, c)' = DefaultWallet[c]
  <2> TAKE u \in Users, c \in Coins
  <2>1. DefaultWallet[c] \in Int
    BY KeptType
  <2>2. DefaultWallet[c]' = DefaultWallet[c]
    BY DEF DefaultWallet
  <2> QED
    BY <2>1, <2>2 DEF Owned
<1>3. \A u \in Users, c \in Coins : HeldIn(orders, u, c)' = HeldIn(orders, u, c)
  BY DEF HeldIn, Reserved
<1> QED
  BY <1>1, <1>2, <1>3 DEF Kept, Near, Made

\* One that writes a wallet or a row, and rounds at most k times.
LEMMA KeptMoved ==
  ASSUME TypeOK, NEW s \in Sessions, Kept(s), NEW k \in Nat, Spent(s)' = Spent(s) + k,
         \A u \in Users, c \in Coins :
           \E d \in Int, e \in Int :
             /\ users'[u][c] + HeldIn(orders', u, c) = users[u][c] + HeldIn(orders, u, c) + d
             /\ Owned(s, u, c)' = Owned(s, u, c) + e
             /\ Near(c, d, e, k)
  PROVE  Kept(s)'
<1>1. ASSUME NEW u \in Users, NEW c \in Coins
      PROVE  Near(c, users'[u][c] + HeldIn(orders', u, c), Owned(s, u, c)', Spent(s)')
  <2> DEFINE x == users[u][c] + HeldIn(orders, u, c)
             y == Owned(s, u, c)
             v == users'[u][c] + HeldIn(orders', u, c)
             w == Owned(s, u, c)'
             n == Spent(s)
  <2>1. PICK d \in Int, e \in Int : v = x + d /\ w = y + e /\ Near(c, d, e, k)
    OBVIOUS
  <2>2. x \in Int /\ y \in Int /\ n \in Int
    BY KeptType DEF Owned
  <2>3. Near(c, x, y, n)
    BY DEF Kept
  <2> HIDE DEF x, y, v, w, n
  <2>4. v \in Int /\ w \in Int /\ v - x = d /\ w - y = e
    BY <2>1, <2>2
  <2>5. Near(c, v - x, w - y, k)
    BY <2>1, <2>4
  <2>6. Near(c, v, w, n + k)
    BY <2>2, <2>3, <2>4, <2>5, NearMoved
  <2> QED
    BY <2>6 DEF v, w, n
<1>2. \A u \in Users, c \in Coins : HeldIn(orders, u, c)' = HeldIn(orders', u, c)
  BY DEF HeldIn, Reserved
<1> QED
  BY <1>1, <1>2 DEF Kept, Near, Made

\* Most statements round nothing.
LEMMA KeptIssued ==
  ASSUME TypeOK, TypeOK'
  PROVE  issued \in Nat /\ issued' \in Nat
  BY DEF TypeOK

\* insert_order inserts the row.
LEMMA KeptInserted ==
  ASSUME Steady, TypeOK', FundsInv, NEW s \in Sessions, Kept(s), InsertOrder(s)
  PROVE  Kept(s)'
<1>1. /\ TypeOK /\ HasOrder(pc[s]) /\ pc[s] = "insert_order"
      /\ ord[s] \in Order /\ ord[s].userID = user[s]
  BY InHandNow DEF InsertOrder, At, HasOrder, Cancelling, TypeOK, LocalsOK
<1>2. /\ InsertRow(ord[s]) /\ UNCHANGED <<users, user, ord, match, issued>>
      /\ pc'[s] = "insert_update_user"
  BY <1>1 DEF InsertOrder, Goto, locals, bounds, TypeOK, LocalsOK
<1>3. Spent(s)' = Spent(s) + 0
  BY <1>1, <1>2, KeptIssued DEF Spent
<1>4. ASSUME NEW u \in Users, NEW c \in Coins
      PROVE  \E d \in Int, e \in Int :
               /\ users'[u][c] + HeldIn(orders', u, c) = users[u][c] + HeldIn(orders, u, c) + d
               /\ Owned(s, u, c)' = Owned(s, u, c) + e
               /\ Near(c, d, e, 0)
  <2> DEFINE d == IF u = user[s] THEN Reserved(ord[s], c) ELSE 0
  <2>1. /\ users[u][c] \in Int /\ HeldIn(orders, u, c) \in Int /\ d \in Int
        /\ DefaultWallet[c] \in Int
    BY <1>1, KeptType
  <2>2. HeldIn(orders', u, c) = HeldIn(orders, u, c) + d
    BY <1>1, <1>2, RowInserted
  <2>3. Owned(s, u, c) = DefaultWallet[c]
    BY <1>1, <2>1 DEF Owned
  <2>4. Owned(s, u, c)' = DefaultWallet[c] + d
    BY <1>2, <2>1 DEF Owned, DefaultWallet, Reserved
  <2> HIDE DEF d
  <2>5. users'[u][c] + HeldIn(orders', u, c) = users[u][c] + HeldIn(orders, u, c) + d
    BY <1>2, <2>1, <2>2
  <2>6. Near(c, d, d, 0)
    BY <2>1 DEF Near, Made
  <2> QED
    BY <2>1, <2>3, <2>4, <2>5, <2>6
<1> QED
  BY <1>1, <1>3, <1>4, KeptMoved

\* And takes from the wallet what the row holds.
LEMMA KeptPaid ==
  ASSUME Steady, TypeOK', FundsInv, NEW s \in Sessions, Kept(s), InsertUpdateUser(s)
  PROVE  Kept(s)'
<1> DEFINE w == users[user[s]]
           v == Reserve(ord[s], w)
<1>1. /\ TypeOK /\ pc[s] = "insert_update_user" /\ HasOrder(pc[s])
  BY InHandNow DEF InsertUpdateUser, At, HasOrder, Cancelling
<1>2. ord[s] \in Order /\ user[s] \in Users /\ w \in Wallet
  BY <1>1, InHandNow DEF TypeOK, TablesOK
<1>3. wal[s] = w
  BY <1>1 DEF FundsInv, FundsOf
<1>4. /\ UpdateUserBalance(user[s], v) /\ UNCHANGED <<orders, user, issued>> /\ pc'[s] = "idle"
  BY <1>1, <1>3 DEF InsertUpdateUser, Return, Goto, bounds, TypeOK, LocalsOK
<1>5. users' = [u \in Users |-> IF u = user[s] THEN v ELSE users[u]]
  BY <1>1, <1>4 DEF UpdateUserBalance, TypeOK, TablesOK
<1>6. Spent(s)' = Spent(s) + 0
  BY <1>1, <1>4, KeptIssued DEF Spent
<1>7. ASSUME NEW u \in Users, NEW c \in Coins
      PROVE  \E d \in Int, e \in Int :
               /\ users'[u][c] + HeldIn(orders', u, c) = users[u][c] + HeldIn(orders, u, c) + d
               /\ Owned(s, u, c)' = Owned(s, u, c) + e
               /\ Near(c, d, e, 0)
  <2> DEFINE d == IF u = user[s] THEN -Reserved(ord[s], c) ELSE 0
  <2>1. /\ users[u][c] \in Int /\ HeldIn(orders, u, c) \in Int /\ d \in Int
        /\ DefaultWallet[c] \in Int /\ Reserved(ord[s], c) \in Int
    BY <1>1, KeptType
  <2>2. /\ w[c] \in Int /\ v[c] = w[c] - Reserved(ord[s], c)
    BY <1>2, ReserveGains
  <2>3. users'[u][c] = users[u][c] + d
    <3>1. users'[u] = IF u = user[s] THEN v ELSE users[u]
      BY <1>5
    <3> HIDE DEF v
    <3>2. CASE u = user[s]
      BY <2>1, <2>2, <3>1, <3>2
    <3>3. CASE u # user[s]
      BY <2>1, <3>1, <3>3
    <3> QED
      BY <3>2, <3>3
  <2>4. Owned(s, u, c) = DefaultWallet[c] - d
    BY <1>1, <2>1 DEF Owned
  <2>5. Owned(s, u, c)' = DefaultWallet[c]
    BY <1>4, <2>1 DEF Owned, DefaultWallet, Reserved
  <2> HIDE DEF d
  <2>6. users'[u][c] + HeldIn(orders', u, c) = users[u][c] + HeldIn(orders, u, c) + d
    BY <1>4, <2>1, <2>3
  <2>7. Near(c, d, d, 0) /\ Owned(s, u, c)' = Owned(s, u, c) + d
    BY <2>1, <2>4, <2>5 DEF Near, Made
  <2> QED
    BY <2>1, <2>6, <2>7
<1> QED
  BY <1>1, <1>6, <1>7, KeptMoved

\* cancel_order gives back what the row holds, rounded.
LEMMA KeptRefunded ==
  ASSUME Steady, TypeOK', FundsInv, NEW s \in Sessions, Kept(s), CancelUpdateUser(s)
  PROVE  Kept(s)'
<1> DEFINE m == match[s]
           w == users[m.userID]
           v == Refund(m, w)
<1>1. /\ TypeOK /\ pc[s] = "cancel_update_user" /\ pc[s] \in Refunding
  BY InHandNow DEF CancelUpdateUser, At, Refunding, Cancelling
<1>2. m \in Order /\ m.userID \in Users /\ w \in Wallet
  BY <1>1, InHandNow DEF TypeOK, TablesOK
<1>3. wal[s] = w
  BY <1>1 DEF FundsInv, FundsOf
<1>4. /\ UpdateUserBalance(m.userID, v) /\ UNCHANGED <<orders, match, issued>>
      /\ pc'[s] = "cancel_delete"
  BY <1>1, <1>3 DEF CancelUpdateUser, Goto, locals, bounds, TypeOK, LocalsOK
<1>5. users' = [u \in Users |-> IF u = m.userID THEN v ELSE users[u]]
  BY <1>1, <1>4 DEF UpdateUserBalance, TypeOK, TablesOK
<1>6. Spent(s)' = Spent(s) + 1
  BY <1>1, <1>4, KeptIssued DEF Spent
<1>7. ASSUME NEW u \in Users, NEW c \in Coins
      PROVE  \E d \in Int, e \in Int :
               /\ users'[u][c] + HeldIn(orders', u, c) = users[u][c] + HeldIn(orders, u, c) + d
               /\ Owned(s, u, c)' = Owned(s, u, c) + e
               /\ Near(c, d, e, 1)
  <2> DEFINE d == IF u = m.userID THEN v[c] - w[c] ELSE 0
             e == IF u = m.userID THEN Reserved(m, c) ELSE 0
  <2>1. /\ users[u][c] \in Int /\ HeldIn(orders, u, c) \in Int
        /\ DefaultWallet[c] \in Int /\ Reserved(m, c) \in Int
    BY <1>1, KeptType
  <2>2. /\ w[c] \in Int /\ v[c] \in Int
        /\ v[c] <= w[c] + Reserved(m, c) + Rounding(c)
        /\ v[c] >= w[c] + Reserved(m, c) - Rounding(c)
    BY <1>2, RefundGains
  <2>3. users'[u][c] = users[u][c] + d /\ d \in Int /\ e \in Int
    <3>1. users'[u] = IF u = m.userID THEN v ELSE users[u]
      BY <1>5
    <3> HIDE DEF v, m
    <3>2. CASE u = m.userID
      BY <2>1, <2>2, <3>1, <3>2
    <3>3. CASE u # m.userID
      BY <2>1, <3>1, <3>3
    <3> QED
      BY <3>2, <3>3
  <2>4. Owned(s, u, c) = DefaultWallet[c]
    BY <1>1, <2>1 DEF Owned
  <2>5. Owned(s, u, c)' = DefaultWallet[c] + e
    BY <1>4, <2>1 DEF Owned, DefaultWallet, Reserved
  <2>6. Near(c, d, e, 1)
    <3> DEFINE x == v[c]
               y == w[c]
               r == Reserved(m, c)
    <3>1. /\ x \in Int /\ y \in Int /\ r \in Int
          /\ x <= y + r + Rounding(c) /\ x >= y + r - Rounding(c)
      BY <2>1, <2>2
    <3>2. d = (IF u = m.userID THEN x - y ELSE 0) /\ e = (IF u = m.userID THEN r ELSE 0)
      OBVIOUS
    <3> HIDE DEF x, y, r, d, e
    <3> QED
      BY <3>1, <3>2 DEF Near, Made, Rounding
  <2> HIDE DEF d, e
  <2>7. users'[u][c] + HeldIn(orders', u, c) = users[u][c] + HeldIn(orders, u, c) + d
    BY <1>4, <2>1, <2>3
  <2> QED
    BY <2>3, <2>4, <2>5, <2>6, <2>7
<1> QED
  BY <1>1, <1>6, <1>7, KeptMoved

\* Then the row goes.
LEMMA KeptCancelled ==
  ASSUME Steady, TypeOK', FundsInv, NEW s \in Sessions, Kept(s), CancelDelete(s)
  PROVE  Kept(s)'
<1> DEFINE m == match[s]
<1>1. /\ TypeOK /\ pc[s] = "cancel_delete" /\ pc[s] \in Refunding
  BY InHandNow DEF CancelDelete, At, Refunding, Cancelling
<1>2. found[s] \in DOMAIN orders /\ orders[found[s]] = m
  BY <1>1, InHandNow
<1>3. DeleteOrder(found[s]) /\ UNCHANGED <<users, issued>> /\ pc'[s] = "idle"
  BY <1>1 DEF CancelDelete, Return, Goto, bounds, TypeOK, LocalsOK
<1>4. Spent(s)' = Spent(s) + 0
  BY <1>1, <1>3, KeptIssued DEF Spent
<1>5. ASSUME NEW u \in Users, NEW c \in Coins
      PROVE  \E d \in Int, e \in Int :
               /\ users'[u][c] + HeldIn(orders', u, c) = users[u][c] + HeldIn(orders, u, c) + d
               /\ Owned(s, u, c)' = Owned(s, u, c) + e
               /\ Near(c, d, e, 0)
  <2> DEFINE d == IF u = m.userID THEN -Reserved(m, c) ELSE 0
  <2>1. /\ users[u][c] \in Int /\ HeldIn(orders, u, c) \in Int /\ d \in Int
        /\ DefaultWallet[c] \in Int /\ Reserved(m, c) \in Int
    BY <1>1, KeptType
  <2>2. HeldIn(orders', u, c) = HeldIn(orders, u, c) + d
    BY <1>1, <1>2, <1>3, RowDeleted
  <2>3. Owned(s, u, c) = DefaultWallet[c] - d
    BY <1>1, <2>1 DEF Owned
  <2>4. Owned(s, u, c)' = DefaultWallet[c]
    BY <1>3, <2>1 DEF Owned, DefaultWallet, Reserved
  <2> HIDE DEF d
  <2>5. users'[u][c] + HeldIn(orders', u, c) = users[u][c] + HeldIn(orders, u, c) + d
    BY <1>3, <2>1, <2>2
  <2>6. Near(c, d, d, 0) /\ Owned(s, u, c)' = Owned(s, u, c) + d
    BY <2>1, <2>3, <2>4 DEF Near, Made
  <2> QED
    BY <2>1, <2>5, <2>6
<1> QED
  BY <1>1, <1>4, <1>5, KeptMoved

\* Whatever the session does, short of a trade and of a failure.
LEMMA KeptStep ==
  ASSUME Steady, TypeOK', FundsInv, NEW s \in Sessions, Acts(s), Kept(s),
         pc[s] \notin Recorded, faults' = 0, archives' = << >>
  PROVE  pc'[s] \notin Recorded /\ Kept(s)'
<1>0. TypeOK /\ issued \in Nat /\ issued' \in Nat
  BY KeptIssued DEF Steady
<1>1. ~StatementFails(s) /\ ~PrepareFails(s)
  BY <1>0 DEF StatementFails, PrepareFails, TypeOK
<1>2. ~ArchiveMatched(s)
  <2>1. SUFFICES ASSUME ArchiveMatched(s)
                 PROVE  FALSE
    OBVIOUS
  <2>2. archives' = Append(archives, match[s]) /\ archives \in Seq(Order) /\ match[s] \in Order
    BY <1>0, <2>1 DEF ArchiveMatched, InsertArchive, TypeOK, TablesOK, LocalsOK
  <2>3. Len(archives') = Len(archives) + 1 /\ Len(archives) \in Nat
    BY <2>2
  <2> QED
    BY <2>3
<1>3. /\ ~ArchiveOrder(s) /\ ~UpdateSelf(s) /\ ~GetCounterparty(s)
      /\ ~UpdateCounterparty(s) /\ ~SettleMatched(s)
  BY DEF ArchiveOrder, UpdateSelf, GetCounterparty, UpdateCounterparty, SettleMatched, At,
         Recorded, Settling
<1>4. CASE Issue(s) \/ IssueCancel(s)
  <2>1. /\ UNCHANGED <<users, orders>> /\ pc[s] = "idle" /\ issued' = issued + 1
        /\ pc'[s] \in {"get_user", "cancel_get_order"}
    BY <1>0, <1>4 DEF Issue, IssueCancel, At, Goto, tables, TypeOK, LocalsOK
  <2>2. Spent(s) <= Spent(s)'
    BY <1>0, <2>1 DEF Spent
  <2> QED
    BY <1>0, <2>1, <2>2, KeptRead DEF Recorded, Settling
<1>5. CASE GetUser(s) \/ FindMatching(s) \/ GetOrder(s) \/ InsertGetUser(s)
  <2>1. UNCHANGED <<users, orders, issued>>
    BY <1>5 DEF GetUser, FindMatching, GetOrder, InsertGetUser, tables, bounds
  <2>2. pc[s] \in {"get_user", "find_matching", "get_order", "insert_get_user"}
    BY <1>5 DEF GetUser, FindMatching, GetOrder, InsertGetUser, At
  <2>3. pc'[s] \in {"idle", "find_matching", "get_order", "insert_get_user",
                    "archive_matched", "insert_order"}
    BY <1>0, <1>5 DEF GetUser, FindMatching, GetOrder, TakeMatch, InsertGetUser, InsertFails,
                      Goto, Return, TypeOK, LocalsOK
  <2>4. Spent(s) <= Spent(s)'
    BY <1>0, <2>1, <2>2, <2>3 DEF Spent
  <2> QED
    BY <1>0, <2>1, <2>2, <2>3, <2>4, KeptRead DEF Recorded, Settling
<1>6. CASE CancelGetOrder(s) \/ CancelGetUser(s)
  <2>1. /\ UNCHANGED <<users, orders, issued>>
        /\ pc[s] \in {"cancel_get_order", "cancel_get_user"}
    BY <1>6 DEF CancelGetOrder, CancelGetUser, At, tables, bounds
  <2>2. pc'[s] \in {"idle", "cancel_get_user", "cancel_update_user"}
    BY <1>0, <1>6 DEF CancelGetOrder, CancelGetUser, Goto, Return, TypeOK, LocalsOK
  <2>3. Spent(s) <= Spent(s)'
    BY <1>0, <2>1, <2>2 DEF Spent
  <2> QED
    BY <1>0, <2>1, <2>2, <2>3, KeptRead DEF Recorded, Settling
<1>7. CASE InsertOrder(s) \/ InsertUpdateUser(s) \/ CancelUpdateUser(s) \/ CancelDelete(s)
  <2>1. pc'[s] \in {"idle", "insert_update_user", "cancel_delete"}
    BY <1>0, <1>7 DEF InsertOrder, InsertUpdateUser, CancelUpdateUser, CancelDelete, Goto,
                      Return, TypeOK, LocalsOK
  <2> QED
    BY <1>7, <2>1, KeptInserted, KeptPaid, KeptRefunded, KeptCancelled
    DEF Recorded, Settling
<1> QED
  BY <1>1, <1>2, <1>3, <1>4, <1>5, <1>6, <1>7 DEF Acts, Step

\* Neither failures nor trades are undone.
LEMMA OnlyGrow ==
  ASSUME TypeOK, [Next]_vars, faults' = 0, archives' = << >>
  PROVE  faults = 0 /\ archives = << >>
<1>1. \/ archives' = archives
      \/ \E o : archives' = Append(archives, o)
  BY DEF Next, Step, Waiting, Tick, vars, tables, Issue, IssueCancel, StatementFails,
         PrepareFails, GetUser, FindMatching, GetOrder, ArchiveMatched, ArchiveOrder,
         InsertArchive, UpdateSelf, GetCounterparty, UpdateCounterparty, SettleMatched,
         InsertGetUser, InsertOrder, InsertUpdateUser, CancelGetOrder,
         CancelGetUser, CancelUpdateUser, CancelDelete
<1>2. faults' = faults \/ faults' = faults + 1
  BY DEF Next, Step, Waiting, Tick, vars, bounds, Issue, IssueCancel, StatementFails,
         PrepareFails, GetUser, FindMatching, GetOrder, ArchiveMatched, ArchiveOrder,
         UpdateSelf, GetCounterparty, UpdateCounterparty, SettleMatched,
         InsertGetUser, InsertOrder, InsertUpdateUser, CancelGetOrder,
         CancelGetUser, CancelUpdateUser, CancelDelete
<1>3. faults \in Nat /\ archives \in Seq(Order)
  BY DEF TypeOK, TablesOK
<1>4. \A o : Append(archives, o) # << >>
  <2> TAKE o
  <2>1. Len(Append(archives, o)) = Len(archives) + 1 /\ Len(archives) \in Nat
    BY <1>3
  <2> QED
    BY <2>1
<1> QED
  BY <1>1, <1>2, <1>3, <1>4

\* Every user starts with what he was given.
LEMMA EscrowInvInit == Init => EscrowInv
<1> SUFFICES ASSUME Init
             PROVE  EscrowInv
  OBVIOUS
<1>1. Quiet /\ \A s \in Sessions : pc[s] = "idle"
  BY DEF Init, Quiet, At
<1>2. ASSUME NEW u \in Users, NEW c \in Coins
      PROVE  Near(c, Holdings(u, c), DefaultWallet[c], issued)
  <2>1. users[u][c] = DefaultWallet[c] /\ DefaultWallet[c] \in Int /\ issued = 0
    BY DefaultType DEF Init, Wallet
  <2>2. HeldIn(orders, u, c) = 0
    BY ReserveNone DEF Init
  <2>3. Holdings(u, c) = users[u][c] + HeldIn(orders, u, c)
    BY DEF Holdings, Reserves, OrdersOf, HeldIn
  <2> QED
    BY <2>1, <2>2, <2>3 DEF Near, Made
<1> QED
  BY <1>1, <1>2 DEF EscrowInv, At, Recorded, Settling

\* And keeps it, one command at a time, until something is traded or fails.
LEMMA EscrowInvStep ==
  ASSUME Steady, FundsInv, EscrowInv, [Next /\ OneAtATime']_vars
  PROVE  EscrowInv'
<1>1. CASE UNCHANGED <<users, orders, archives, faults, issued, user, pc, ord, match>>
  <2>1. ASSUME NEW u \in Users, NEW c \in Coins
        PROVE  /\ Holdings(u, c)' = Holdings(u, c)
               /\ DefaultWallet[c]' = DefaultWallet[c]
               /\ \A s \in Sessions : Owned(s, u, c)' = Owned(s, u, c)
    BY <1>1 DEF Holdings, Reserves, OrdersOf, Owned, DefaultWallet, Reserved
  <2>2. \A s \in Sessions : Spent(s)' = Spent(s)
    BY <1>1 DEF Spent
  <2> QED
    BY <1>1, <2>1, <2>2 DEF EscrowInv, Quiet, At, Near, Made
<1>2. ASSUME NEW s \in Sessions, Acts(s), OneAtATime', faults' = 0, archives' = << >>
      PROVE  /\ \A t \in Sessions : pc'[t] \notin Recorded
             /\ \A u \in Users, c \in Coins :
                  /\ Quiet' => Near(c, Holdings(u, c)', DefaultWallet[c], issued')
                  /\ \A t \in Sessions :
                       ~At(t, "idle")' => Near(c, Holdings(u, c)', Owned(t, u, c)', Spent(t)')
  <2>1. TypeOK /\ TypeOK' /\ OneAtATime /\ [Next]_vars
    BY SteadyStep DEF Steady
  <2>2. /\ \A t \in Sessions : pc[t] \notin Recorded
        /\ \A u \in Users, c \in Coins :
             /\ Quiet => Near(c, Holdings(u, c), DefaultWallet[c], issued)
             /\ \A t \in Sessions :
                  ~At(t, "idle") => Near(c, Holdings(u, c), Owned(t, u, c), Spent(t))
    BY <1>2, <2>1, OnlyGrow DEF EscrowInv
  <2>3. \A t \in Sessions : t # s => pc'[t] = "idle" /\ pc'[t] = pc[t]
    BY <1>2, <2>1, OthersIdle, OthersStay
  <2>4. At(s, "idle") => Quiet
    BY <2>3 DEF Quiet, At
  <2>5. \A u \in Users, c \in Coins :
          At(s, "idle") => Owned(s, u, c) = DefaultWallet[c] /\ Spent(s) = issued
    BY DefaultType DEF Owned, Spent, At, Wallet
  <2>6. Kept(s)
    <3>1. \A u \in Users, c \in Coins : Holdings(u, c) = users[u][c] + HeldIn(orders, u, c)
      BY DEF Holdings, Reserves, OrdersOf, HeldIn
    <3>2. \A u \in Users, c \in Coins : Near(c, Holdings(u, c), Owned(s, u, c), Spent(s))
      BY <2>2, <2>4, <2>5
    <3> QED
      BY <3>1, <3>2 DEF Kept
  <2>7. pc'[s] \notin Recorded /\ Kept(s)'
    BY <1>2, <2>1, <2>2, <2>6, KeptStep
  <2>8. \A u \in Users, c \in Coins : Near(c, Holdings(u, c)', Owned(s, u, c)', Spent(s)')
    <3>1. \A u \in Users, c \in Coins :
            Holdings(u, c)' = users'[u][c] + HeldIn(orders, u, c)'
      BY DEF Holdings, Reserves, OrdersOf, HeldIn
    <3> QED
      BY <2>7, <3>1 DEF Kept, Near, Made
  <2>9. \A u \in Users, c \in Coins :
          At(s, "idle")' => Owned(s, u, c)' = DefaultWallet[c] /\ Spent(s)' = issued'
    BY DefaultType DEF Owned, Spent, At, Wallet, DefaultWallet
  <2>10. Quiet' => At(s, "idle")'
    BY DEF Quiet
  <2> QED
    BY <2>3, <2>7, <2>8, <2>9, <2>10 DEF At, Recorded, Settling
<1>3. CASE UNCHANGED vars \/ Tick
  BY <1>1, <1>3 DEF vars, tables, locals, bounds, Tick
<1>4. ASSUME NEW s \in Sessions, Acts(s), OneAtATime'
      PROVE  EscrowInv'
  <2>1. \A c \in Coins : DefaultWallet[c]' = DefaultWallet[c]
    BY DEF DefaultWallet
  <2> QED
    BY <1>2, <1>4, <2>1 DEF EscrowInv, Near, Made
<1> QED
  BY <1>3, <1>4 DEF Next, Acts, Waiting

\* EscrowExact: as long as nothing is traded and nothing fails, insert_order and
\* cancel_order leave every user with exactly the coins he was given, and with his
\* OMG up to one for each command, for any price and quantity, negative ones
\* included, and for any arithmetic of doubles: what a posted order takes is the
\* cost cut off, what cancelling it gives back is the cost added uncut.
THEOREM EscrowIsExact == SerialSpec => []EscrowExact
<1> DEFINE I == Steady /\ FundsInv /\ EscrowInv
<1>1. Init => I
  <2>1. Init => FundsInv
    BY DEF Init, FundsInv, FundsOf, Checked, Refunding, Cancelling
  <2> QED
    BY <2>1, SteadyInit, EscrowInvInit
<1>2. I /\ [Next /\ OneAtATime']_vars => I'
  <2> SUFFICES ASSUME I, [Next /\ OneAtATime']_vars
               PROVE  I'
    OBVIOUS
  <2>1. TypeOK /\ OneAtATime
    BY DEF Steady
  <2>2. Steady'
    BY SteadyStep
  <2>3. FundsInv'
    BY <2>1, FundsInvStep
  <2> QED
    BY <2>2, <2>3, EscrowInvStep
<1>3. I => EscrowExact
  <2> SUFFICES ASSUME TypeOK, EscrowInv, Quiet, archives = << >>, faults = 0,
                      NEW u \in Users, NEW c \in Coins
               PROVE  LET gain == Holdings(u, c) - DefaultWallet[c]
                      IN  IF c = "OMG" THEN gain \in -issued..issued ELSE gain = 0
    BY DEF EscrowExact, Steady
  <2>1. Near(c, Holdings(u, c), DefaultWallet[c], issued)
    BY DEF EscrowInv
  <2>2. Holdings(u, c) \in Int /\ DefaultWallet[c] \in Int /\ issued \in Nat
    <3>1. users[u][c] \in Int /\ HeldIn(orders, u, c) \in Int
      BY Tables, HeldType DEF Wallet
    <3>2. Holdings(u, c) = users[u][c] + HeldIn(orders, u, c)
      BY DEF Holdings, Reserves, OrdersOf, HeldIn
    <3> QED
      BY <3>1, <3>2, DefaultType DEF Wallet, TypeOK
  <2> QED
    BY <2>1, <2>2 DEF Near, Made
<1> QED
  BY <1>1, <1>2, <1>3, PTL DEF SerialSpec
=============================================================================
