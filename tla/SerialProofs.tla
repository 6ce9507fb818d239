---------------------------- MODULE SerialProofs ----------------------------
(***************************************************************************)
(* What buy, sell and cancel_order do one command at a time: a command     *)
(* does not overdraw its user, the rest of an order wants one coin at most *)
(* to be reserved, and the book is crossed by rests alone.  None of this   *)
(* survives two commands at once; what does is in the modules this one     *)
(* extends, and every behaviour of SerialSpec is one of Spec.              *)
(***************************************************************************)
EXTENDS RowProofs

-----------------------------------------------------------------------------
(* Rounded money *)

\* A balance of b coins that covers a cost covers what insert_order takes for it.
LEMMA CoverWhole ==
  ASSUME NEW b \in Int, NEW x \in Int, b * Scale >= Round(x)
  PROVE  Trunc(Round(x)) \in Int /\ b >= Trunc(Round(x))
<1>1. Round(x) \in Int /\ Round(x) <= b * Scale
  BY RoundBetween, DoublesAssumption
<1> QED
  BY <1>1, TruncBetween

\* The whole coins around n/Scale.
Floor(n) == n \div Scale
Ceiling(n) == -((-n) \div Scale)

\* Less than a coin is between the whole coins around an amount.
LEMMA WholeCoins ==
  ASSUME NEW n \in Int
  PROVE  /\ Floor(n) \in Int /\ Ceiling(n) \in Int
         /\ Floor(n) * Scale <= n /\ n <= Ceiling(n) * Scale
         /\ Floor(n) <= Ceiling(n) /\ Ceiling(n) <= Floor(n) + 1
         /\ n >= 0 => Floor(n) >= 0 /\ Ceiling(n) >= 0
<1> DEFINE f == n \div Scale
           r == (-n) \div Scale
<1>1. Scale \in Nat \ {0} /\ -n \in Int
  BY DoublesAssumption
<1>2. /\ f \in Int /\ f * Scale <= n /\ n < (f + 1) * Scale
      /\ r \in Int /\ r * Scale <= -n /\ -n < (r + 1) * Scale
  BY <1>1, Quotient
<1> HIDE DEF f, r
<1>3. /\ (-r) * Scale = -(r * Scale) /\ r * Scale \in Int
      /\ (r + 1) * Scale = r * Scale + Scale /\ (f + 1) * Scale = f * Scale + Scale
      /\ f * Scale \in Int
  BY <1>1, <1>2
<1>4. n <= (-r) * Scale
  BY <1>2, <1>3
<1>5. (f + r) * Scale = f * Scale + r * Scale
  BY <1>1, <1>2
<1>6. f + r <= 0 /\ f + r >= -1
  <2>1. (f + r) * Scale <= 0 /\ (f + r) * Scale > -(2 * Scale)
    BY <1>1, <1>2, <1>3, <1>5
  <2> DEFINE g == f + r
  <2>2. g \in Int /\ g * Scale <= 0 /\ g * Scale > -(2 * Scale)
    BY <1>2, <2>1
  <2> HIDE DEF g
  <2>3. g <= 0
    <3>1. g >= 1 => g * Scale >= Scale
      BY <1>1, <2>2
    <3> QED
      BY <1>1, <2>2, <3>1
  <2>4. g >= -1
    <3>1. g <= -2 => g * Scale <= (-2) * Scale
      BY <1>1, <2>2
    <3> QED
      BY <1>1, <2>2, <3>1
  <2> QED
    BY <2>3, <2>4 DEF g
<1>7. n >= 0 => f >= 0 /\ -r >= 0
  <2>1. f < 0 => (f + 1) * Scale <= 0
    BY <1>1, <1>2
  <2>2. r > 0 => r * Scale > 0
    BY <1>1, <1>2
  <2>3. ASSUME n >= 0
        PROVE  f >= 0 /\ r <= 0
    <3> DEFINE t == (f + 1) * Scale
               v == r * Scale
    <3>1. /\ n < t /\ v <= -n /\ (f < 0 => t <= 0) /\ (r > 0 => v > 0)
          /\ t \in Int /\ v \in Int
      BY <1>1, <1>2, <2>1, <2>2
    <3> HIDE DEF t, v
    <3> QED
      BY <1>2, <2>3, <3>1
  <2> QED
    BY <1>2, <2>3
<1> QED
  BY <1>2, <1>4, <1>6, <1>7 DEF Floor, Ceiling, f, r

\* A payment, a receipt and what is set aside are each one of them.
LEMMA CostBounds ==
  ASSUME NEW b \in Int, NEW x \in Int
  PROVE  /\ Trunc(Round(x)) \in Int
         /\ AddOMG(b, Round(x)) \in Int /\ AddOMG(b, -Round(x)) \in Int
         /\ Floor(x) <= Trunc(Round(x)) /\ Trunc(Round(x)) <= Ceiling(x)
         /\ b + Floor(x) <= AddOMG(b, Round(x)) /\ AddOMG(b, Round(x)) <= b + Ceiling(x)
         /\ AddOMG(b, -Round(x)) <= b - Floor(x)
         /\ b - Ceiling(x) <= AddOMG(b, -Round(x))
<1>1. /\ Floor(x) \in Int /\ Ceiling(x) \in Int
      /\ Floor(x) * Scale <= x /\ x <= Ceiling(x) * Scale
  BY WholeCoins
<1> QED
  BY <1>1, CoinBounds

\* The cost of what a trade leaves is at most what its cost leaves, when the trade is
\* at the same price or a better one.
LEMMA CostOfRest ==
  ASSUME NEW q \in Int, NEW n \in Nat, NEW p \in Int, NEW m \in Int, m <= p
  PROVE  /\ q * p \in Int /\ n * m \in Int /\ (q - n) * p \in Int
         /\ (q - n) * p <= q * p - n * m
<1>1. n * m <= n * p
  OBVIOUS
<1>2. (q - n) * p = q * p - n * p
  OBVIOUS
<1>3. q * p \in Int /\ n * m \in Int /\ n * p \in Int /\ (q - n) * p \in Int
  OBVIOUS
<1> QED
  BY <1>1, <1>2, <1>3

\* b coins that covered a cost a, less a payment k: rounding twice costs no more than
\* an eighth of a coin, and once more a sixteenth.
LEMMA Paying ==
  ASSUME NEW b \in Int, NEW a \in Int, NEW k \in Int, b * Scale >= Round(a)
  PROVE  LET y == b * Scale + (-Round(k)) IN
         /\ y \in Int /\ Round(y) \in Int /\ AddOMG(b, -Round(k)) = Trunc(Round(y))
         /\ 16 * (a - k) <= 16 * Round(y) + 3 * Scale
<1> DEFINE p == b * Scale
           R == Round(k)
           y == p + (-R)
           z == Round(y)
<1>1. Scale \in Nat /\ p \in Int
  BY DoublesAssumption
<1>2. Round(a) \in Int /\ 16 * (a - Round(a)) <= Scale
  BY RoundBetween
<1>3. R \in Int /\ 16 * (R - k) <= Scale
  BY RoundBetween
<1>4. AddOMG(b, -R) = Trunc(z)
  BY DEF AddOMG
<1>5. y \in Int
  BY <1>1, <1>3
<1>6. z \in Int /\ 16 * (y - z) <= Scale
  BY <1>5, RoundBetween
<1>7. p >= Round(a)
  OBVIOUS
<1> HIDE DEF p, R, z
<1>8. 16 * (a - k) <= 16 * z + 3 * Scale
  BY <1>1, <1>2, <1>3, <1>6, <1>7
<1> QED
  BY <1>4, <1>5, <1>6, <1>8 DEF p, R, z

\* So the rest of an order lacks one coin at most,
LEMMA PaidForRest ==
  ASSUME NEW b \in Int, NEW a \in Int, NEW k \in Int, NEW c \in Int,
         b * Scale >= Round(a), c <= a - k
  PROVE  /\ AddOMG(b, -Round(k)) \in Int /\ Trunc(Round(c)) \in Int
         /\ AddOMG(b, -Round(k)) + 1 >= Trunc(Round(c))
<1> DEFINE y == b * Scale + (-Round(k))
           z == Round(y)
           d == Round(c)
<1>1. /\ z \in Int /\ AddOMG(b, -Round(k)) = Trunc(z)
      /\ 16 * (a - k) <= 16 * z + 3 * Scale
  BY Paying
<1>2. d \in Int /\ 16 * (d - c) <= Scale
  BY RoundBetween
<1> HIDE DEF z, d
<1>3. Scale \in Nat
  BY DoublesAssumption
<1>4. d <= z + Scale /\ z + Scale \in Int
  BY <1>1, <1>2, <1>3
<1>5. Trunc(d) <= Trunc(z + Scale)
  BY <1>2, <1>4, TruncMonotone
<1>6. Trunc(d) \in Int /\ Trunc(z) \in Int /\ Trunc(z + Scale) \in Int
  BY <1>1, <1>2, <1>4, TruncBetween
<1>7. Trunc(z + Scale) <= Trunc(z) + 1
  BY <1>1, TruncCoin
<1> QED
  BY <1>1, <1>5, <1>6, <1>7 DEF d

\* and no payment of what was covered overdraws: less than a coin is cut off.
LEMMA PaidInFull ==
  ASSUME NEW b \in Int, NEW a \in Int, NEW k \in Int, b * Scale >= Round(a), k <= a
  PROVE  AddOMG(b, -Round(k)) \in Nat
<1> DEFINE y == b * Scale + (-Round(k))
           z == Round(y)
           t == Trunc(z)
<1>1. /\ z \in Int /\ AddOMG(b, -Round(k)) = t
      /\ 16 * (a - k) <= 16 * z + 3 * Scale
  BY Paying
<1> HIDE DEF z
<1>2. Scale \in Nat \ {0}
  BY DoublesAssumption
<1>3. /\ t \in Int
      /\ z < 0 => z <= t * Scale
      /\ \A m \in Int : m * Scale <= z => m <= t
  BY <1>1, TruncBetween
<1> HIDE DEF t
<1>4. z > -Scale
  BY <1>1, <1>2
<1>5. CASE z >= 0
  <2>1. 0 \in Int /\ 0 * Scale <= z
    BY <1>2, <1>5
  <2> QED
    BY <1>1, <1>3, <2>1
<1>6. CASE z < 0 /\ t <= -1
  <2>1. t * Scale <= -Scale
    BY <1>2, <1>3, <1>6
  <2>2. t * Scale \in Int
    BY <1>2, <1>3
  <2> QED
    BY <1>1, <1>2, <1>3, <1>4, <1>6, <2>1, <2>2
<1> QED
  BY <1>1, <1>3, <1>5, <1>6

\* Nothing is lost of an income that is not negative.
LEMMA Received ==
  ASSUME NEW b \in Nat, NEW n \in Nat
  PROVE  AddOMG(b, n) \in Nat
<1>1. Scale \in Nat /\ 0 * Scale = 0 /\ 0 \in Int
  BY DoublesAssumption
<1> DEFINE y == b * Scale + n
<1>2. y \in Nat
  BY <1>1
<1> HIDE DEF y
<1>3. Round(y) \in Int /\ 0 <= Round(y)
  <2>1. Round(y) \in Int /\ \A m \in Int : m * Scale <= y => m * Scale <= Round(y)
    BY <1>2, RoundBetween
  <2>2. 0 * Scale <= y
    BY <1>1, <1>2
  <2> QED
    BY <1>1, <2>1, <2>2
<1>4. Trunc(Round(y)) \in Int /\ 0 <= Trunc(Round(y))
  BY <1>1, <1>3, TruncBetween
<1> QED
  BY <1>4 DEF AddOMG, y

-----------------------------------------------------------------------------
(* One command at a time *)

\* SerialSpec restricts the schedule and nothing else.
LEMMA SerialIsMarket == SerialSpec => Spec
  BY PTL DEF SerialSpec, Spec

LEMMA AloneInit == Init => OneAtATime
  BY DEF Init, OneAtATime, At

\* When a session makes a step, the others wait for their clients after it.
LEMMA OthersIdle ==
  ASSUME TypeOK, OneAtATime, OneAtATime', NEW s \in Sessions, NEW t \in Sessions,
         s # t, Acts(s)
  PROVE  pc'[t] = "idle"
<1>1. pc'[t] = pc[t]
  BY OthersStay
<1>2. CASE pc[s] # "idle"
  BY <1>1, <1>2 DEF OneAtATime, At
<1>3. CASE Issue(s) \/ IssueCancel(s)
  <2>1. pc'[s] # "idle"
    BY <1>3 DEF Issue, IssueCancel, Goto, TypeOK, LocalsOK
  <2> QED
    BY <2>1 DEF OneAtATime, At
<1>4. CASE Step(s) \/ StatementFails(s) \/ PrepareFails(s)
  <2>1. pc[s] # "idle"
    BY <1>4 DEF Step, StatementFails, PrepareFails, GetUser, FindMatching, GetOrder,
                ArchiveMatched, ArchiveOrder, UpdateSelf, GetCounterparty,
                UpdateCounterparty, SettleMatched, InsertGetUser, InsertOrder,
                InsertUpdateUser, CancelGetOrder, CancelGetUser, CancelUpdateUser,
                CancelDelete, At
  <2> QED
    BY <1>2, <2>1
<1> QED
  BY <1>3, <1>4 DEF Acts

-----------------------------------------------------------------------------
(* Money *)

\* insert_order does not refuse o to a user with wallet w, unless it sells OMG.
Affords(o, w) == CanReserve(o, w) \/ (o.side = "sell" /\ o.item = "OMG")

\* Nor o, left by a trade with m, when w has one coin more, if the trade was regular.
NearlyAffords(o, m, w) ==
  \/ Affords(o, w) \/ Affords(o, AddCoin(w, "OMG", 1))
  \/ ~(Compatible(o, m) /\ m.quantity >= 0)

\* What the trade under way leaves of the order in hand.
Rest(s) == Less(ord[s], TxQuantity(ord[s], match[s]))
HasRest(s) == ord[s].quantity > TxQuantity(ord[s], match[s])

\* The labels between the check at the head of buy and sell and the payment,
\* and those between the payment and the insertion of the rest.
Checked == {"find_matching", "get_order", "archive_matched", "archive_order",
            "update_self"}
Paid == {"get_counterparty", "update_counterparty", "settle_matched"}

\* The check made at the head of a command is as good as new when insert_order
\* makes its own, and the user struct in hand is what the table holds.
MoneyOf(s) ==
  LET w == users[user[s]] IN
  /\ pc[s] \in Checked => wal[s] = w /\ Covered(ord[s], w)
  /\ pc[s] \in Paid => (HasRest(s) => NearlyAffords(Rest(s), match[s], w))
  /\ pc[s] = "insert_get_user" =>
       \/ Affords(ord[s], w)
       \/ found[s] # NoMatch /\ NearlyAffords(ord[s], match[s], w)
  /\ pc[s] \in {"insert_order", "insert_update_user"} =>
       wal[s] = w /\ CanReserve(ord[s], w)
MoneyInv == \A s \in Sessions : MoneyOf(s)

\* The check at the head of buy and sell implies the one of insert_order.
LEMMA CoveredAffords ==
  ASSUME NEW o \in Order, NEW w \in Wallet, Covered(o, w)
  PROVE  Affords(o, w)
<1>1. CASE o.side = "buy"
  <2>1. w["OMG"] \in Int /\ o.quantity * o.unitPrice \in Int
    BY DEF Wallet, Coins, Order
  <2>2. w["OMG"] * Scale >= Round(o.quantity * o.unitPrice)
    BY <1>1 DEF Covered, Cost
  <2>3. w["OMG"] >= Trunc(Cost(o))
    BY <2>1, <2>2, CoverWhole DEF Cost
  <2> QED
    BY <1>1, <2>3 DEF Affords, CanReserve
<1>2. CASE o.side # "buy"
  BY <1>2 DEF Affords, CanReserve, Covered, Order, Sides
<1> QED
  BY <1>1, <1>2

\* A trade is of no more than either order, and of all of one of them.
LEMMA TxLeast ==
  ASSUME NEW o \in Order, NEW m \in Order
  PROVE  LET n == TxQuantity(o, m) IN
         /\ n \in Int /\ n <= o.quantity /\ n <= m.quantity
         /\ n = o.quantity \/ n = m.quantity
  BY DEF TxQuantity, Order

\* The order that a trade leaves.
LEMMA RestOf ==
  ASSUME NEW o \in Order, NEW n \in Int
  PROVE  /\ Less(o, n) \in Order
         /\ Less(o, n).quantity = o.quantity - n /\ Less(o, n).unitPrice = o.unitPrice
         /\ Less(o, n).side = o.side /\ Less(o, n).item = o.item
         /\ Less(o, n).userID = o.userID
  BY DEF Less, Order

\* What the payment of a buy order makes of the wallet.
LEMMA BuyersWallet ==
  ASSUME NEW o \in Order, NEW m \in Order, NEW w \in Wallet, o.side = "buy",
         NEW b \in Int, b = AddOMG(w["OMG"], -TxCost(o, m)),
         NEW n \in Int, n = TxQuantity(o, m)
  PROVE  LET v == TakerWallet(o, m, w) IN
         /\ v["OMG"] = IF o.item = "OMG" THEN b + n ELSE b
         /\ \A c \in Coins : c # "OMG" => v[c] = IF o.item = c THEN w[c] + n ELSE w[c]
<1>1. TakerWallet(o, m, w) = [[w EXCEPT !["OMG"] = b] EXCEPT ![o.item] = @ + n]
  BY DEF TakerWallet, AddCoin, AddCost
<1>2. "OMG" \in Coins /\ o.item \in Coins
  BY DEF Coins, Order
<1> QED
  BY <1>1, <1>2 DEF Wallet

\* And the income of a sell order.
LEMMA SellersWallet ==
  ASSUME NEW o \in Order, NEW m \in Order, NEW w \in Wallet, o.side # "buy",
         NEW n \in Int, n = TxQuantity(o, m)
  PROVE  LET v == TakerWallet(o, m, w) IN
         /\ v["OMG"] = AddOMG(IF o.item = "OMG" THEN w["OMG"] - n ELSE w["OMG"], TxCost(o, m))
         /\ \A c \in Coins : c # "OMG" => v[c] = IF o.item = c THEN w[c] - n ELSE w[c]
<1> DEFINE k == TxCost(o, m)
<1>1. TakerWallet(o, m, w) =
        [[w EXCEPT ![o.item] = @ + (-n)] EXCEPT !["OMG"] = AddOMG(@, k)]
  BY DEF TakerWallet, AddCoin, AddCost
<1>2. "OMG" \in Coins /\ o.item \in Coins /\ \A c \in Coins : w[c] + (-n) = w[c] - n
  BY DEF Coins, Order, Wallet
<1> HIDE DEF k
<1> QED
  BY <1>1, <1>2 DEF Wallet, k

\* A taker whose order was covered can afford what a trade leaves of it after paying
\* for the trade, but for one coin.
LEMMA TakerAffords ==
  ASSUME NEW o \in Order, NEW m \in Order, NEW w \in Wallet,
         Covered(o, w), o.quantity > TxQuantity(o, m)
  PROVE  NearlyAffords(Less(o, TxQuantity(o, m)), m, TakerWallet(o, m, w))
<1> DEFINE n == TxQuantity(o, m)
           l == Less(o, n)
           v == TakerWallet(o, m, w)
           e == AddCoin(v, "OMG", 1)
<1>1. /\ n \in Int /\ n = m.quantity /\ n < o.quantity
      /\ TxCost(o, m) = Round(n * m.unitPrice)
  BY TxLeast DEF TxCost, Order
<1>2. /\ o.quantity \in Int /\ o.unitPrice \in Int /\ m.unitPrice \in Int
      /\ o.item \in Coins /\ "OMG" \in Coins /\ w["OMG"] \in Int /\ w[o.item] \in Int
  BY DEF Order, Coins, Wallet
<1>3. /\ l.quantity = o.quantity - n /\ l.unitPrice = o.unitPrice
      /\ l.side = o.side /\ l.item = o.item
  BY <1>1, RestOf
<1>4. v \in Wallet
  BY TradeType
<1>5. e = [v EXCEPT !["OMG"] = @ + 1]
  BY DEF AddCoin
<1> SUFFICES ASSUME Compatible(l, m), n >= 0
             PROVE  Affords(l, e)
  BY <1>1 DEF NearlyAffords
<1>6. CASE o.side = "buy"
  <2> DEFINE b == AddOMG(w["OMG"], -TxCost(o, m))
  <2>1. m.unitPrice <= o.unitPrice /\ n \in Nat
    BY <1>1, <1>3, <1>6 DEF Compatible
  <2>2. /\ o.quantity * o.unitPrice \in Int /\ n * m.unitPrice \in Int
        /\ (o.quantity - n) * o.unitPrice \in Int
        /\ (o.quantity - n) * o.unitPrice <= o.quantity * o.unitPrice - n * m.unitPrice
    BY <1>2, <2>1, CostOfRest
  <2>3. w["OMG"] * Scale >= Round(o.quantity * o.unitPrice)
    BY <1>6 DEF Covered, Cost
  <2>4. /\ b \in Int /\ Trunc(Round((o.quantity - n) * o.unitPrice)) \in Int
        /\ b + 1 >= Trunc(Round((o.quantity - n) * o.unitPrice))
    BY <1>1, <1>2, <2>2, <2>3, PaidForRest
  <2>5. Cost(l) = Round((o.quantity - n) * o.unitPrice)
    BY <1>3 DEF Cost
  <2> HIDE DEF n, l, e
  <2>6. v["OMG"] = IF o.item = "OMG" THEN b + n ELSE b
    BY <1>1, <1>6, <2>4, BuyersWallet DEF n
  <2> HIDE DEF b, v
  <2>7. e["OMG"] = v["OMG"] + 1
    BY <1>2, <1>4, <1>5 DEF Wallet
  <2>8. e["OMG"] >= Trunc(Cost(l))
    BY <1>1, <2>1, <2>4, <2>5, <2>6, <2>7
  <2> QED
    BY <1>3, <1>6, <2>8 DEF Affords, CanReserve
<1>7. CASE o.side # "buy" /\ o.item # "OMG"
  <2> HIDE DEF n, l, e
  <2>1. v[o.item] = w[o.item] - n
    BY <1>1, <1>2, <1>7, SellersWallet DEF n
  <2>2. w[o.item] >= o.quantity
    BY <1>7 DEF Covered
  <2>3. e[o.item] = v[o.item]
    BY <1>2, <1>4, <1>5, <1>7 DEF Wallet
  <2>4. e[o.item] >= l.quantity
    BY <1>1, <1>2, <1>3, <2>1, <2>2, <2>3
  <2> QED
    BY <1>3, <1>7, <2>4 DEF Affords, CanReserve
<1>8. CASE o.side # "buy" /\ o.item = "OMG"
  BY <1>3, <1>8 DEF Affords, Order, Sides
<1> QED
  BY <1>6, <1>7, <1>8

\* And a regular trade leaves the taker nothing negative that was not so before.
LEMMA TakerPays ==
  ASSUME NEW o \in Order, NEW m \in Order, NEW w \in Wallet,
         Covered(o, w), Regular(o, m), NEW c \in Coins, w[c] >= 0
  PROVE  TakerWallet(o, m, w)[c] >= 0
<1> DEFINE n == TxQuantity(o, m)
           v == TakerWallet(o, m, w)
<1>1. /\ n \in Nat /\ n <= o.quantity
      /\ TxCost(o, m) = Round(n * m.unitPrice) /\ TxCost(o, m) \in Nat
  BY TxLeast, TxType DEF TxCost, Regular
<1>2. /\ o.quantity \in Int /\ o.unitPrice \in Int /\ m.unitPrice \in Int
      /\ o.item \in Coins /\ "OMG" \in Coins /\ w["OMG"] \in Int /\ w[o.item] \in Int
      /\ w[c] \in Int
  BY DEF Order, Coins, Wallet
<1>3. CASE o.side = "buy"
  <2> DEFINE b == AddOMG(w["OMG"], -TxCost(o, m))
  <2>1. m.unitPrice <= o.unitPrice
    BY <1>3 DEF Compatible, Regular
  <2>2. /\ o.quantity * o.unitPrice \in Int /\ n * m.unitPrice \in Int
        /\ (o.quantity - n) * o.unitPrice \in Int
        /\ (o.quantity - n) * o.unitPrice <= o.quantity * o.unitPrice - n * m.unitPrice
    BY <1>1, <1>2, <2>1, CostOfRest
  <2>3. w["OMG"] * Scale >= Round(o.quantity * o.unitPrice)
    BY <1>3 DEF Covered, Cost
  <2>4. b \in Int /\ (w["OMG"] >= 0 => b >= 0)
    <3>1. CASE o.unitPrice >= 0
      <4>1. (o.quantity - n) * o.unitPrice >= 0
        BY <1>1, <1>2, <3>1
      <4>2. n * m.unitPrice <= o.quantity * o.unitPrice
        BY <2>2, <4>1
      <4> QED
        BY <1>1, <1>2, <2>2, <2>3, <4>2, PaidInFull
    <3>2. CASE o.unitPrice < 0
      <4>1. n * m.unitPrice <= 0
        BY <1>1, <1>2, <2>1, <3>2
      <4>2. Round(n * m.unitPrice) <= 0
        <5>1. \A i \in Int : n * m.unitPrice <= i * Scale => Round(n * m.unitPrice) <= i * Scale
          BY <2>2, RoundBetween
        <5>2. 0 * Scale = 0 /\ 0 \in Int
          BY DoublesAssumption
        <5> QED
          BY <4>1, <5>1, <5>2
      <4>3. TxCost(o, m) = 0
        BY <1>1, <4>2
      <4>4. b = AddOMG(w["OMG"], 0)
        BY <4>3
      <4>5. b \in Int
        BY <1>1, <1>2, <2>2, CoinBounds
      <4> HIDE DEF b
      <4> QED
        BY <1>2, <4>4, <4>5, Received
    <3> QED
      BY <1>2, <3>1, <3>2
  <2> HIDE DEF n, b
  <2>5. /\ v["OMG"] = IF o.item = "OMG" THEN b + n ELSE b
        /\ c # "OMG" => v[c] = IF o.item = c THEN w[c] + n ELSE w[c]
    BY <1>1, <1>3, <2>4, BuyersWallet DEF n, b
  <2> HIDE DEF v
  <2>6. v[c] >= 0
    BY <1>1, <1>2, <2>4, <2>5
  <2> QED
    BY <2>6 DEF v
<1>4. CASE o.side # "buy"
  <2>1. w[o.item] >= o.quantity
    BY <1>4 DEF Covered
  <2> HIDE DEF n
  <2> DEFINE d == IF o.item = "OMG" THEN w["OMG"] - n ELSE w["OMG"]
  <2>2. /\ v["OMG"] = AddOMG(d, TxCost(o, m))
        /\ c # "OMG" => v[c] = IF o.item = c THEN w[c] - n ELSE w[c]
    BY <1>1, <1>4, SellersWallet DEF n
  <2>3. w["OMG"] >= 0 => d \in Nat
    BY <1>1, <1>2, <2>1
  <2> HIDE DEF v, d
  <2>4. w["OMG"] >= 0 => v["OMG"] >= 0
    BY <1>1, <2>2, <2>3, Received
  <2>5. v[c] >= 0
    BY <1>1, <1>2, <2>1, <2>2, <2>4
  <2> QED
    BY <2>5 DEF v
<1> QED
  BY <1>3, <1>4

\* The values a session works with are of their types.
LEMMA InHand ==
  ASSUME TypeOK, NEW s \in Sessions
  PROVE  /\ ord[s] \in Order /\ match[s] \in Order /\ wal[s] \in Wallet
         /\ users[user[s]] \in Wallet /\ user[s] \in Users
  BY DEF TypeOK, TablesOK, LocalsOK

\* A step of a session keeps its own account in order.
LEMMA MoneyOfStep ==
  ASSUME TypeOK, BookInv, NEW s \in Sessions, MoneyOf(s), Acts(s)
  PROVE  MoneyOf(s)'
<1> USE DEF TypeOK
<1>1. CASE GetUser(s)
  <2>1. CASE Return(s, Failure)
    BY <2>1 DEF Return, Goto, LocalsOK, MoneyOf, Checked, Paid
  <2>2. CASE /\ Covered(ord[s], users[user[s]]) /\ Goto(s, "find_matching")
             /\ ReadWallet(s, user[s])
    BY <1>1, <2>2 DEF GetUser, tables, ReadWallet, Goto, LocalsOK, MoneyOf, Checked, Paid
  <2> QED
    BY <1>1, <2>1, <2>2 DEF GetUser
<1>2. CASE FindMatching(s)
  <2>1. pc[s] \in Checked
    BY <1>2 DEF FindMatching, At, Checked
  <2>2. Affords(ord[s], users[user[s]])
    BY <2>1, InHand, CoveredAffords DEF MoneyOf
  <2> QED
    BY <1>2, <2>1, <2>2 DEF FindMatching, tables, Goto, LocalsOK, MoneyOf, Checked, Paid
<1>3. CASE GetOrder(s)
  <2>1. CASE Return(s, Failure)
    BY <2>1 DEF Return, Goto, LocalsOK, MoneyOf, Checked, Paid
  <2>2. CASE TakeMatch(s)
    <3>1. ord'[s] = [ord[s] EXCEPT !.created_at = now]
      BY <2>2 DEF TakeMatch, LocalsOK
    <3>2. Covered(ord[s], users[user[s]]) => Covered(ord'[s], users[user[s]])
      <4>1. /\ ord'[s].side = ord[s].side /\ ord'[s].item = ord[s].item
            /\ ord'[s].quantity = ord[s].quantity
            /\ ord'[s].unitPrice = ord[s].unitPrice
        BY <3>1, InHand DEF Order
      <4>2. Cost(ord'[s]) = Cost(ord[s])
        BY <4>1 DEF Cost
      <4> QED
        BY <4>1, <4>2 DEF Covered
    <3>3. pc[s] \in Checked /\ UNCHANGED <<users, user>>
      BY <1>3 DEF GetOrder, At, Checked, tables
    <3>4. UNCHANGED wal /\ pc'[s] = "archive_matched"
      BY <2>2 DEF TakeMatch, Goto, LocalsOK
    <3> QED
      BY <3>2, <3>3, <3>4 DEF MoneyOf, Checked, Paid
  <2> QED
    BY <1>3, <2>1, <2>2 DEF GetOrder
<1>4. CASE ArchiveMatched(s) \/ ArchiveOrder(s)
  BY <1>4 DEF ArchiveMatched, ArchiveOrder, At, locals, Goto, LocalsOK, MoneyOf, Checked, Paid
<1>5. CASE UpdateSelf(s)
  <2>1. /\ pc[s] \in Checked /\ pc'[s] = "get_counterparty" /\ UNCHANGED <<ord, match, user>>
    BY <1>5 DEF UpdateSelf, At, Checked, Goto, LocalsOK, locals
  <2>2. users'[user[s]] = TakerWallet(ord[s], match[s], users[user[s]])
    BY <1>5, <2>1 DEF UpdateSelf, UpdateUserBalance, MoneyOf, TablesOK
  <2>3. HasRest(s) => NearlyAffords(Rest(s), match[s], users'[user[s]])
    BY <2>1, <2>2, InHand, TakerAffords DEF MoneyOf, Rest, HasRest
  <2> QED
    BY <2>1, <2>3 DEF MoneyOf, Rest, HasRest, Checked, Paid
<1>6. CASE GetCounterparty(s)
  <2>1. /\ pc[s] \in Paid /\ pc'[s] \in Paid
        /\ UNCHANGED <<users, user, ord, match>>
    BY <1>6 DEF GetCounterparty, At, Paid, Goto, LocalsOK, ReadWallet, tables
  <2> QED
    BY <2>1 DEF MoneyOf, Rest, HasRest, Checked, Paid
<1>7. CASE UpdateCounterparty(s)
  <2>1. /\ pc[s] \in Paid /\ pc[s] \in Settling /\ HasOrder(pc[s]) /\ pc'[s] \in Paid
        /\ UNCHANGED <<user, ord, match>>
    BY <1>7 DEF UpdateCounterparty, At, Paid, Settling, HasOrder, Cancelling, Goto,
                LocalsOK, locals
  <2>2. CASE match[s].userID # user[s]
    <3>1. users'[user[s]] = users[user[s]]
      BY <1>7, <2>2 DEF UpdateCounterparty, UpdateUserBalance, TablesOK
    <3> QED
      BY <2>1, <3>1 DEF MoneyOf, Rest, HasRest, Checked, Paid
  <2>3. CASE match[s].userID = user[s]
    <3>1. Rest(s).userID = user[s]
      BY <2>1, InHand, TxType, RestOf DEF Rest, LocalsOK
    <3>2. ~Compatible(Rest(s), match[s])
      BY <2>3, <3>1 DEF Compatible
    <3>3. Rest(s)' = Rest(s) /\ match'[s] = match[s]
      BY <2>1 DEF Rest
    <3>4. NearlyAffords(Rest(s), match[s], users[user[s]])'
      BY <3>2, <3>3 DEF NearlyAffords
    <3> QED
      BY <2>1, <3>4 DEF MoneyOf, Checked, Paid
  <2> QED
    BY <2>2, <2>3
<1>8. CASE SettleMatched(s)
  <2>1. CASE Return(s, OK)
    BY <2>1 DEF Return, Goto, LocalsOK, MoneyOf, Checked, Paid
  <2>2. CASE /\ ord[s].quantity > TxQuantity(ord[s], match[s])
             /\ ord' = [ord EXCEPT ![s] = Less(@, TxQuantity(ord[s], match[s]))]
             /\ Goto(s, "insert_get_user")
             /\ UNCHANGED <<found, match, wal, ret>>
    <3>1. ord'[s] = Rest(s) /\ pc'[s] = "insert_get_user" /\ HasRest(s)
      BY <2>2 DEF Rest, HasRest, Goto, LocalsOK
    <3>2. pc[s] \in Paid /\ pc[s] \in Settling /\ UNCHANGED <<users, user>>
      BY <1>8 DEF SettleMatched, At, Paid, Settling
    <3>3. found[s] # NoMatch
      BY <3>2 DEF BookInv, NoMatch
    <3> QED
      BY <2>2, <3>1, <3>2, <3>3 DEF MoneyOf, Checked, Paid
  <2> QED
    BY <1>8, <2>1, <2>2 DEF SettleMatched
<1>9. CASE InsertGetUser(s)
  <2>1. CASE InsertFails(s)
    BY <2>1 DEF InsertFails, Return, Goto, LocalsOK, MoneyOf, Checked, Paid
  <2>2. CASE /\ CanReserve(ord[s], users[user[s]]) /\ Goto(s, "insert_order")
             /\ ReadWallet(s, user[s])
    BY <1>9, <2>2 DEF InsertGetUser, tables, ReadWallet, Goto, LocalsOK, MoneyOf, Checked,
                      Paid
  <2> QED
    BY <1>9, <2>1, <2>2 DEF InsertGetUser
<1>10. CASE InsertOrder(s)
  BY <1>10 DEF InsertOrder, At, locals, Goto, LocalsOK, MoneyOf, Checked, Paid
<1>11. CASE StatementFails(s)
  <2>1. CASE InsertFails(s) \/ Return(s, Failure)
    BY <2>1 DEF InsertFails, Return, Goto, LocalsOK, MoneyOf, Checked, Paid
  <2>2. CASE At(s, "find_matching") /\ Goto(s, "insert_get_user") /\ UNCHANGED ord
    <3>1. pc[s] \in Checked /\ UNCHANGED <<users, user>>
      BY <1>11, <2>2 DEF StatementFails, At, Checked, tables
    <3>2. Affords(ord[s], users[user[s]])
      BY <3>1, InHand, CoveredAffords DEF MoneyOf
    <3> QED
      BY <2>2, <3>1, <3>2 DEF Goto, LocalsOK, MoneyOf, Checked, Paid
  <2> QED
    BY <1>11, <2>1, <2>2 DEF StatementFails
<1>12. CASE \/ Issue(s) \/ IssueCancel(s) \/ InsertUpdateUser(s)
            \/ CancelGetOrder(s) \/ CancelGetUser(s) \/ CancelUpdateUser(s)
            \/ CancelDelete(s)
  <2>1. pc'[s] \in {"idle", "get_user"} \cup Cancelling
    BY <1>12 DEF Issue, IssueCancel, InsertUpdateUser, CancelGetOrder, CancelGetUser,
                 CancelUpdateUser, CancelDelete, Goto, Return, LocalsOK, Cancelling
  <2> QED
    BY <2>1 DEF MoneyOf, Checked, Paid, Cancelling
<1>13. CASE PrepareFails(s)
  BY <1>13 DEF PrepareFails, At, Goto, LocalsOK, MoneyOf, Checked, Paid, tables
<1> QED
  BY <1>1, <1>2, <1>3, <1>4, <1>5, <1>6, <1>7, <1>8, <1>9, <1>10, <1>11, <1>12, <1>13
  DEF Acts, Step

\* And so does every step, one command at a time.
LEMMA MoneyInvStep ==
  ASSUME TypeOK, BookInv, OneAtATime, MoneyInv, [Next /\ OneAtATime']_vars
  PROVE  MoneyInv'
<1>1. CASE UNCHANGED <<users, user, pc, ord, found, match, wal>>
  BY <1>1 DEF MoneyInv, MoneyOf, Rest, HasRest, Affords, NearlyAffords
<1>2. ASSUME NEW s \in Sessions, Acts(s), OneAtATime', NEW t \in Sessions
      PROVE  MoneyOf(t)'
  <2>1. CASE t = s
    BY <1>2, <2>1, MoneyOfStep DEF MoneyInv
  <2>2. CASE t # s
    <3>1. pc'[t] = "idle"
      BY <1>2, <2>2, OthersIdle
    <3> QED
      BY <3>1 DEF MoneyOf, Checked, Paid
  <2> QED
    BY <2>1, <2>2
<1>3. CASE UNCHANGED vars \/ Tick
  BY <1>1, <1>3 DEF vars, tables, locals, Tick
<1> QED
  BY <1>2, <1>3 DEF MoneyInv, Next, Acts, Waiting

\* What the theorems about money rest on.
Solid == TypeOK /\ BookInv /\ OneAtATime /\ MoneyInv

LEMMA Solidity == SerialSpec => []Solid
<1>1. Init => Solid
  <2>1. Init => MoneyInv
    BY DEF Init, MoneyInv, MoneyOf, Checked, Paid
  <2> QED
    BY <2>1, InitType, BookInvInit, AloneInit DEF Solid
<1>2. Solid /\ [Next /\ OneAtATime']_vars => Solid'
  <2> SUFFICES ASSUME Solid, [Next /\ OneAtATime']_vars
               PROVE  Solid'
    OBVIOUS
  <2>1. [Next]_vars /\ OneAtATime'
    BY DEF Solid, OneAtATime, At, vars
  <2>2. MoneyInv'
    BY MoneyInvStep DEF Solid
  <2> QED
    BY <2>1, <2>2, TypeStep, BookInvStep DEF Solid
<1> QED
  BY <1>1, <1>2, PTL DEF SerialSpec

\* The check at the head of buy and sell is as good as the one of insert_order for an
\* order that matched nothing, and after a trade it is so but for one coin: for every
\* quantity, price and balance of any sign, and however doubles are spaced.
THEOREM RestReserved == SerialSpec => []RestIsReserved
<1>1. Solid => RestIsReserved
  BY DEF Solid, MoneyInv, MoneyOf, Affords, NearlyAffords, RestIsReserved, At
<1> QED
  BY <1>1, Solidity, PTL

\* What insert_order takes from a wallet that passes its check is there.
LEMMA ReserveSolvent ==
  ASSUME NEW o \in Order, NEW w \in Wallet, CanReserve(o, w), NEW c \in Coins, w[c] >= 0
  PROVE  Reserve(o, w)[c] >= 0
<1>1. o.item \in Coins /\ "OMG" \in Coins /\ w["OMG"] \in Int /\ w[o.item] \in Int
  BY DEF Order, Coins, Wallet
<1>2. o.quantity * o.unitPrice \in Int /\ o.quantity \in Int
  BY DEF Order
<1>3. Trunc(Cost(o)) \in Int
  BY <1>2, RoundBetween, TruncBetween DEF Cost
<1>4. CASE o.side = "buy"
  <2> DEFINE k == Trunc(Cost(o))
  <2>1. Reserve(o, w) = [w EXCEPT !["OMG"] = @ + (-k)] /\ w["OMG"] >= k /\ k \in Int
    BY <1>3, <1>4 DEF Reserve, AddCoin, CanReserve
  <2> HIDE DEF k
  <2> QED
    BY <1>1, <2>1 DEF Wallet
<1>5. CASE o.side # "buy"
  <2>1. Reserve(o, w) = [w EXCEPT ![o.item] = @ + (-o.quantity)] /\ w[o.item] >= o.quantity
    BY <1>5 DEF Reserve, AddCoin, CanReserve
  <2> QED
    BY <1>1, <1>2, <2>1 DEF Wallet
<1> QED
  BY <1>4, <1>5

\* A command does not overdraw the user who gave it, one command at a time and for all
\* numbers it may be given for: neither the payment of a regular trade nor the escrow
\* of what is left of the order.
THEOREM TakerIsSolvent == SerialSpec => TakerSolvent
<1>1. Solid /\ [Next /\ OneAtATime']_vars => [TakerSolventStep]_vars
  <2> SUFFICES ASSUME Solid, [Next /\ OneAtATime']_vars, NEW s \in Sessions, NEW c \in Coins,
                      OwnWrite(s), ~OwnWrite(s)', users[user[s]][c] >= 0,
                      At(s, "update_self") => Regular(ord[s], match[s])
               PROVE  users'[user[s]][c] >= 0
    BY DEF TakerSolventStep
  <2> USE DEF Solid
  <2>1. pc[s] # "idle" /\ pc'[s] # pc[s]
    BY DEF OwnWrite, At
  <2>2. PICK t \in Sessions : Acts(t) /\ OneAtATime'
    BY <2>1 DEF Next, Acts, Tick, Waiting, vars
  <2>3. t = s
    BY <2>1, <2>2, OthersStay
  <2>4. /\ ord[s] \in Order /\ match[s] \in Order /\ users[user[s]] \in Wallet
        /\ MoneyOf(s)
    BY InHand DEF MoneyInv
  <2>5. CASE UpdateSelf(s)
    <3>1. pc[s] \in Checked /\ Regular(ord[s], match[s])
      BY <2>5 DEF UpdateSelf, At, Checked
    <3>2. /\ Covered(ord[s], users[user[s]])
          /\ users'[user[s]] = TakerWallet(ord[s], match[s], users[user[s]])
      BY <2>4, <2>5, <3>1
      DEF UpdateSelf, UpdateUserBalance, MoneyOf, TypeOK, TablesOK
    <3> QED
      BY <2>4, <3>1, <3>2, TakerPays
  <2>6. CASE InsertUpdateUser(s)
    <3>1. /\ CanReserve(ord[s], users[user[s]])
          /\ users'[user[s]] = Reserve(ord[s], users[user[s]])
      BY <2>4, <2>6
      DEF InsertUpdateUser, At, UpdateUserBalance, MoneyOf, TypeOK, TablesOK
    <3> QED
      BY <2>4, <3>1, ReserveSolvent
  <2>7. CASE StatementFails(s)
    BY <2>7 DEF StatementFails, tables
  <2> QED
    BY <2>2, <2>3, <2>5, <2>6, <2>7
    DEF OwnWrite, Acts, Step, PrepareFails, Issue, IssueCancel, GetUser, FindMatching,
        GetOrder, ArchiveMatched, ArchiveOrder, GetCounterparty, UpdateCounterparty,
        SettleMatched, InsertGetUser, InsertOrder, CancelGetOrder, CancelGetUser,
        CancelUpdateUser, CancelDelete, At
<1> QED
  BY <1>1, Solidity, PTL DEF SerialSpec, TakerSolvent

-----------------------------------------------------------------------------
(* Snapshots *)

\* The snapshot a trade is settled from is the row.
Snap ==
  \A s \in Sessions : pc[s] \in Settling =>
    found[s] \in DOMAIN orders /\ orders[found[s]] = match[s]

LEMMA SnapStep ==
  ASSUME TypeOK, OneAtATime, Snap, [Next /\ OneAtATime']_vars
  PROVE  Snap'
<1> SUFFICES ASSUME NEW t \in Sessions, pc'[t] \in Settling
             PROVE  found'[t] \in DOMAIN orders' /\ orders'[found'[t]] = match'[t]
  BY DEF Snap
<1>1. [Next]_vars
  OBVIOUS
<1>2. CASE JustTaken(t)
  BY <1>2 DEF JustTaken, TakeMatch, TypeOK, LocalsOK
<1>3. CASE pc[t] \in Settling /\ LocalsStay(t)
  <2>1. CASE UNCHANGED orders
    BY <1>3, <2>1 DEF Snap, LocalsStay
  <2>2. ASSUME NEW s \in Sessions, Acts(s), OneAtATime'
        PROVE  UNCHANGED orders
    <3>1. s = t
      BY <2>2, OthersIdle DEF Settling
    <3>2. ~CancelDelete(t) /\ ~InsertOrder(t)
      BY <1>3 DEF CancelDelete, InsertOrder, At, Settling
    <3>3. ~SettleMatched(t)
      BY DEF SettleMatched, Return, Goto, TypeOK, LocalsOK, Settling
    <3> QED
      BY <2>2, <3>1, <3>2, <3>3
      DEF Acts, Step, tables, Issue, IssueCancel, StatementFails, PrepareFails, GetUser,
          FindMatching, GetOrder, ArchiveMatched, ArchiveOrder, UpdateSelf,
          GetCounterparty, UpdateCounterparty, InsertGetUser, InsertUpdateUser,
          CancelGetOrder, CancelGetUser, CancelUpdateUser
  <2> QED
    BY <2>1, <2>2 DEF Next, Acts, Waiting, Tick, vars, tables
<1> QED
  BY <1>1, <1>2, <1>3, SettlingStep

\* What the theorems about the book rest on, whatever the error codes.
Steady == TypeOK /\ BookInv /\ OneAtATime /\ Snap

LEMMA SteadyInit == Init => Steady
<1>1. Init => Snap
  BY DEF Init, Snap, Settling
<1> QED
  BY <1>1, InitType, BookInvInit, AloneInit DEF Steady

LEMMA SteadyStep == Steady /\ [Next /\ OneAtATime']_vars => Steady'
<1> SUFFICES ASSUME Steady, [Next /\ OneAtATime']_vars
             PROVE  Steady'
  OBVIOUS
<1>1. [Next]_vars /\ OneAtATime'
  BY DEF Steady, OneAtATime, At, vars
<1>2. Snap'
  BY SnapStep DEF Steady
<1> QED
  BY <1>1, <1>2, TypeStep, BookInvStep DEF Steady

-----------------------------------------------------------------------------
(* Crossed orders *)

\* Order o is the rest of one of the archived orders h, none of them of after n.
RestIn(h, n, o) ==
  \E k \in DOMAIN h :
    /\ h[k].item = o.item /\ h[k].side = o.side
    /\ h[k].unitPrice = o.unitPrice /\ h[k].userID = o.userID
    /\ h[k].created_at <= n
ArchivedRest(o) == RestIn(archives, now, o)

\* Until a statement fails: an order about to be inserted has no compatible one in
\* the book or is a rest, and one being traded becomes a rest when it is archived.
CrossedOf(s) ==
  /\ pc[s] \in {"insert_get_user", "insert_order"} =>
       (\A i \in DOMAIN orders : ~Compatible(ord[s], orders[i])) \/ ArchivedRest(ord[s])
  /\ pc[s] \in Settling => ord[s].created_at <= now
  /\ pc[s] \in Settling \ {"archive_matched", "archive_order"} => ArchivedRest(ord[s])
CrossInv ==
  CrossedOnlyByRests /\ (faults = 0 => \A s \in Sessions : CrossedOf(s))

\* A search that finds nothing has nothing to find: ORDER BY and LIMIT lose no row.
LEMMA MatchingComplete ==
  ASSUME TypeOK, NEW o \in Order, Matching(o) = {}, NEW i \in DOMAIN orders
  PROVE  ~Compatible(o, orders[i])
<1> SUFFICES ASSUME Compatible(o, orders[i]) PROVE FALSE
  OBVIOUS
<1> DEFINE S == {j \in DOMAIN orders : Compatible(o, orders[j])}
           T == {orders[j].created_at : j \in S}
<1>1. \A j \in DOMAIN orders : orders[j] \in Order
  BY DEF TypeOK, TablesOK
<1>2. T \subseteq Nat /\ orders[i].created_at \in T
  BY <1>1 DEF Order
<1>3. \E x \in T : \A y \in T : x <= y
  BY <1>2, NatMin
<1>4. PICK x \in T : \A y \in T : x <= y
  BY <1>3
<1>5. PICK j \in S : x = orders[j].created_at
  OBVIOUS
<1>6. j \in Oldest(S)
  BY <1>4, <1>5 DEF Oldest
<1>7. CASE o.side = "buy"
  <2>1. S = {k \in DOMAIN orders : /\ orders[k].item = o.item
                                  /\ orders[k].side = "sell"
                                  /\ orders[k].unitPrice <= o.unitPrice
                                  /\ orders[k].userID # o.userID}
    BY <1>1, <1>7 DEF Compatible, Order, Sides
  <2> QED
    BY <1>6, <1>7, <2>1 DEF Matching, FindMatchingSell
<1>8. CASE o.side = "sell"
  <2>1. S = {k \in DOMAIN orders : /\ orders[k].item = o.item
                                  /\ orders[k].side = "buy"
                                  /\ orders[k].unitPrice >= o.unitPrice
                                  /\ orders[k].userID # o.userID}
    BY <1>1, <1>8 DEF Compatible, Order, Sides
  <2> QED
    BY <1>6, <1>8, <2>1 DEF Matching, FindMatchingBuy
<1> QED
  BY <1>7, <1>8 DEF Order, Sides

\* The rest of an order stays one, whatever its quantity becomes.
LEMMA RestStays ==
  ASSUME TypeOK, BookInv, [Next]_vars, NEW o \in Order, NEW p \in Order, ArchivedRest(o),
         p.item = o.item, p.side = o.side, p.unitPrice = o.unitPrice,
         p.userID = o.userID
  PROVE  RestIn(archives', now', p)
<1>1. PICK k \in DOMAIN archives :
        /\ archives[k].item = o.item /\ archives[k].side = o.side
        /\ archives[k].unitPrice = o.unitPrice /\ archives[k].userID = o.userID
        /\ archives[k].created_at <= now
  BY DEF ArchivedRest, RestIn
<1>2. archives[k] \in Order
  BY DEF TypeOK, TablesOK
<1>3. k \in DOMAIN archives' /\ archives'[k] = archives[k]
  BY ArchivesGrow
<1>4. now <= now' /\ now \in Nat /\ now' \in Nat
  BY OrdersStep, TypeStep DEF TypeOK
<1>5. archives[k].created_at <= now'
  BY <1>1, <1>2, <1>4 DEF Order
<1> QED
  BY <1>1, <1>3, <1>5 DEF RestIn

\* Two crossed orders after a step were crossed before, or the step has inserted
\* the later one.
LEMMA CrossedStep ==
  ASSUME Steady, [Next]_vars, CrossInv, faults = 0,
         NEW i \in DOMAIN orders', NEW j \in DOMAIN orders', i < j,
         Compatible(orders'[j], orders'[i])
  PROVE  IsRest(j)'
<1> USE DEF Steady
<1>1. /\ orderSeq \in Nat /\ DOMAIN orders \subseteq 1..orderSeq /\ now \in Nat
      /\ \A k \in DOMAIN orders : orders[k] \in Order
      /\ \A k \in DOMAIN orders' : orders'[k] \in Order
      /\ ord \in [Sessions -> Order]
  BY TypeStep DEF TypeOK, TablesOK, LocalsOK
<1>2. CASE j \in DOMAIN orders
  <2>1. i # orderSeq + 1
    BY <1>1, <1>2
  <2>2. i \in DOMAIN orders /\ Terms(orders'[i]) = Terms(orders[i])
    BY <2>1, RowOrigin
  <2>3. j # orderSeq + 1
    BY <1>1, <1>2
  <2>4. Terms(orders'[j]) = Terms(orders[j])
    BY <2>3, RowOrigin
  <2>5. /\ orders'[j].item = orders[j].item /\ orders'[j].side = orders[j].side
        /\ orders'[j].unitPrice = orders[j].unitPrice
        /\ orders'[j].userID = orders[j].userID
        /\ orders'[j].created_at = orders[j].created_at
    BY <2>4 DEF Terms
  <2>6. Compatible(orders[j], orders[i])
    BY <2>2, <2>5, CompatibleTerms
  <2>7. IsRest(j)
    BY <1>2, <2>2, <2>6 DEF CrossInv, CrossedOnlyByRests
  <2>8. PICK k \in DOMAIN archives :
          LET a == archives[k] IN
          /\ a.item = orders[j].item /\ a.side = orders[j].side
          /\ a.unitPrice = orders[j].unitPrice /\ a.userID = orders[j].userID
          /\ a.created_at <= orders[j].created_at
    BY <2>7 DEF IsRest
  <2>9. archives[k] \in Order /\ k \in DOMAIN archives' /\ archives'[k] = archives[k]
    BY ArchivesGrow DEF TypeOK, TablesOK
  <2> QED
    BY <2>5, <2>8, <2>9 DEF IsRest
<1>3. CASE j \notin DOMAIN orders
  <2>1. PICK s \in Sessions : InsertOrder(s)
    BY <1>3 DEF Next, Step, Waiting, Tick, vars, tables, Issue, IssueCancel, StatementFails,
         PrepareFails, GetUser, FindMatching, GetOrder, ArchiveMatched, ArchiveOrder,
         UpdateSelf, GetCounterparty, UpdateCounterparty, SettleMatched, WriteBack,
         DeleteOrder, UpdateOrder, InsertGetUser, InsertUpdateUser, CancelGetOrder,
         CancelGetUser, CancelUpdateUser, CancelDelete
  <2>2. /\ j = orderSeq + 1 /\ i \in DOMAIN orders
        /\ orders'[j] = [ord[s] EXCEPT !.created_at = now]
        /\ orders'[i] = orders[i]
        /\ UNCHANGED <<archives, now>> /\ pc[s] = "insert_order"
    BY <1>1, <1>3, <2>1 DEF InsertOrder, InsertRow, WithRow, NewOrderID, At
  <2>3. /\ orders'[j].item = ord[s].item /\ orders'[j].side = ord[s].side
        /\ orders'[j].unitPrice = ord[s].unitPrice
        /\ orders'[j].userID = ord[s].userID
        /\ orders'[j].created_at = now
    BY <1>1, <2>2 DEF Order
  <2>4. Compatible(ord[s], orders[i])
    BY <2>2, <2>3 DEF Compatible
  <2>5. ArchivedRest(ord[s])
    BY <2>2, <2>4 DEF CrossInv, CrossedOf
  <2> QED
    BY <2>2, <2>3, <2>5 DEF ArchivedRest, RestIn, IsRest
<1> QED
  BY <1>2, <1>3

\* A step of a session keeps what it needs, as long as no statement fails.
LEMMA CrossedOfStep ==
  ASSUME Steady, [Next]_vars, NEW s \in Sessions, CrossedOf(s), Acts(s),
         faults' = 0, faults = 0
  PROVE  CrossedOf(s)'
<1> USE DEF Steady, TypeOK
<1>1. /\ ord[s] \in Order /\ match[s] \in Order /\ ord'[s] \in Order
      /\ now \in Nat
  BY TypeStep DEF LocalsOK
<1>2. /\ now' = now
      /\ pc[s] \in Settling => ord[s].created_at <= now
  BY DEF Acts, Step, Issue, IssueCancel, StatementFails, PrepareFails, GetUser,
         FindMatching, GetOrder, ArchiveMatched, ArchiveOrder, UpdateSelf,
         GetCounterparty, UpdateCounterparty, SettleMatched,
         InsertGetUser, InsertOrder, InsertUpdateUser, CancelGetOrder,
         CancelGetUser, CancelUpdateUser, CancelDelete, CrossedOf
<1>3. ASSUME ord'[s] = ord[s], ArchivedRest(ord[s])
      PROVE  ArchivedRest(ord[s])'
  BY <1>1, <1>3, RestStays DEF ArchivedRest, Order
<1>4. CASE FindMatching(s)
  <2>1. UNCHANGED <<orders, ord>> /\ pc[s] = "find_matching"
    BY <1>4 DEF FindMatching, tables, At
  <2>2. CASE Goto(s, "get_order")
    BY <2>2 DEF Goto, LocalsOK, CrossedOf, Settling
  <2>3. CASE Goto(s, "insert_get_user") /\ Matching(ord[s]) = {}
    <3>1. pc'[s] = "insert_get_user"
      BY <2>3 DEF Goto, LocalsOK
    <3>2. \A i \in DOMAIN orders : ~Compatible(ord[s], orders[i])
      BY <1>1, <2>3, MatchingComplete
    <3> QED
      BY <2>1, <3>1, <3>2 DEF CrossedOf, Settling
  <2> QED
    BY <1>4, <2>2, <2>3 DEF FindMatching
<1>5. CASE GetOrder(s)
  <2>1. CASE Return(s, Failure)
    BY <2>1 DEF Return, Goto, LocalsOK, CrossedOf, Settling
  <2>2. CASE TakeMatch(s)
    <3>1. pc'[s] = "archive_matched" /\ ord'[s] = [ord[s] EXCEPT !.created_at = now]
      BY <2>2 DEF TakeMatch, Goto, LocalsOK
    <3>2. ord'[s].created_at <= now'
      BY <1>1, <1>2, <3>1 DEF Order
    <3> QED
      BY <3>1, <3>2 DEF CrossedOf, Settling
  <2> QED
    BY <1>5, <2>1, <2>2 DEF GetOrder
<1>6. CASE ArchiveMatched(s)
  BY <1>2, <1>6 DEF ArchiveMatched, At, Goto, locals, LocalsOK, CrossedOf, Settling
<1>7. CASE ArchiveOrder(s)
  <2>1. /\ pc[s] = "archive_order" /\ pc'[s] = "update_self" /\ UNCHANGED ord
        /\ archives' = Append(archives, ord[s])
    BY <1>7 DEF ArchiveOrder, InsertArchive, At, Goto, locals, LocalsOK
  <2>2. /\ Len(archives) + 1 \in DOMAIN archives'
        /\ archives'[Len(archives) + 1] = ord[s]
    BY <1>1, <2>1, AppendProperties DEF TablesOK
  <2>3. ord[s].created_at <= now'
    BY <1>2, <2>1 DEF Settling
  <2>4. ArchivedRest(ord[s])'
    BY <1>1, <2>1, <2>2, <2>3 DEF ArchivedRest, RestIn, Order
  <2> QED
    BY <2>1, <2>3, <2>4 DEF CrossedOf, Settling
<1>8. CASE UpdateSelf(s) \/ GetCounterparty(s) \/ UpdateCounterparty(s)
  <2>1. /\ pc[s] \in Settling \ {"archive_matched", "archive_order"}
        /\ pc'[s] \in Settling /\ UNCHANGED ord
    BY <1>8 DEF UpdateSelf, GetCounterparty, UpdateCounterparty, At, Goto, locals,
                ReadWallet, LocalsOK, Settling
  <2> QED
    BY <1>2, <1>3, <2>1 DEF CrossedOf, Settling
<1>9. CASE SettleMatched(s)
  <2>1. CASE Return(s, OK)
    BY <2>1 DEF Return, Goto, LocalsOK, CrossedOf, Settling
  <2>2. CASE /\ ord' = [ord EXCEPT ![s] = Less(@, TxQuantity(ord[s], match[s]))]
             /\ Goto(s, "insert_get_user")
    <3>1. pc[s] = "settle_matched" /\ pc'[s] = "insert_get_user"
      BY <1>9, <2>2 DEF SettleMatched, At, Goto, LocalsOK
    <3>2. ord'[s] = Less(ord[s], TxQuantity(ord[s], match[s]))
      BY <2>2 DEF LocalsOK
    <3>3. /\ ord'[s].item = ord[s].item /\ ord'[s].side = ord[s].side
          /\ ord'[s].unitPrice = ord[s].unitPrice /\ ord'[s].userID = ord[s].userID
      BY <1>1, <3>2 DEF Less, Order
    <3>4. ArchivedRest(ord[s])
      BY <3>1 DEF CrossedOf, Settling
    <3>5. ArchivedRest(ord[s])'
      BY <1>1, <3>3, <3>4, RestStays DEF ArchivedRest
    <3> QED
      BY <3>1, <3>5 DEF CrossedOf, Settling
  <2> QED
    BY <1>9, <2>1, <2>2 DEF SettleMatched
<1>10. CASE InsertGetUser(s)
  <2>1. CASE InsertFails(s)
    BY <2>1 DEF InsertFails, Return, Goto, LocalsOK, CrossedOf, Settling
  <2>2. CASE Goto(s, "insert_order") /\ ReadWallet(s, user[s])
    <3>1. /\ pc[s] = "insert_get_user" /\ pc'[s] = "insert_order"
          /\ UNCHANGED <<ord, orders>>
      BY <1>10, <2>2 DEF InsertGetUser, At, Goto, ReadWallet, LocalsOK, tables
    <3> QED
      BY <1>3, <3>1 DEF CrossedOf, Settling
  <2> QED
    BY <1>10, <2>1, <2>2 DEF InsertGetUser
<1>11. CASE StatementFails(s) \/ PrepareFails(s)
  BY <1>11 DEF StatementFails, PrepareFails
<1>12. CASE \/ Issue(s) \/ IssueCancel(s) \/ GetUser(s) \/ InsertOrder(s)
            \/ InsertUpdateUser(s) \/ CancelGetOrder(s) \/ CancelGetUser(s)
            \/ CancelUpdateUser(s) \/ CancelDelete(s)
  <2>1. pc'[s] \in {"idle", "get_user", "find_matching", "insert_update_user"}
                      \cup Cancelling
    BY <1>12 DEF Issue, IssueCancel, GetUser, InsertOrder, InsertUpdateUser,
                 CancelGetOrder, CancelGetUser, CancelUpdateUser, CancelDelete, Goto,
                 Return, LocalsOK, Cancelling
  <2> QED
    BY <2>1 DEF CrossedOf, Settling, Cancelling
<1> QED
  BY <1>4, <1>5, <1>6, <1>7, <1>8, <1>9, <1>10, <1>11, <1>12 DEF Acts, Step

LEMMA CrossInvStep == Steady /\ CrossInv /\ [Next /\ OneAtATime']_vars => CrossInv'
<1> SUFFICES ASSUME Steady, CrossInv, [Next /\ OneAtATime']_vars, faults' = 0
             PROVE  /\ \A i, j \in DOMAIN orders' :
                         i < j /\ Compatible(orders'[j], orders'[i]) => IsRest(j)'
                    /\ \A s \in Sessions : CrossedOf(s)'
  BY DEF CrossInv, CrossedOnlyByRests
<1>1. [Next]_vars
  OBVIOUS
<1>2. faults = 0
  BY DEF Steady, TypeOK, Next, Step, Waiting, Tick, vars, bounds, Issue, IssueCancel,
         StatementFails, PrepareFails, GetUser, FindMatching, GetOrder, ArchiveMatched,
         ArchiveOrder, UpdateSelf, GetCounterparty, UpdateCounterparty, SettleMatched,
         InsertGetUser, InsertOrder, InsertUpdateUser, CancelGetOrder,
         CancelGetUser, CancelUpdateUser, CancelDelete
<1>3. ASSUME NEW i \in DOMAIN orders', NEW j \in DOMAIN orders', i < j,
             Compatible(orders'[j], orders'[i])
      PROVE  IsRest(j)'
  BY <1>1, <1>2, <1>3, CrossedStep
<1>4. ASSUME NEW s \in Sessions
      PROVE  CrossedOf(s)'
  <2>1. CrossedOf(s)
    BY <1>2 DEF CrossInv
  <2>2. CASE UNCHANGED vars \/ Tick
    <3>1. /\ UNCHANGED <<orders, archives, pc, ord>> /\ now' \in Nat /\ now <= now'
          /\ now \in Nat /\ ord[s] \in Order
      BY <1>1, <2>2, TypeStep
      DEF vars, tables, locals, Tick, Steady, TypeOK, LocalsOK
    <3>2. ArchivedRest(ord[s]) => ArchivedRest(ord[s])'
      BY <1>1, <3>1, RestStays DEF ArchivedRest, Steady, Order
    <3>3. ord[s].created_at \in Nat
      BY <3>1 DEF Order
    <3> QED
      BY <2>1, <3>1, <3>2, <3>3 DEF CrossedOf
  <2>3. ASSUME NEW t \in Sessions, Acts(t), OneAtATime'
        PROVE  CrossedOf(s)'
    <3>1. CASE t = s
      BY <1>1, <1>2, <2>1, <2>3, <3>1, CrossedOfStep
    <3>2. CASE t # s
      <4>1. pc'[s] = "idle"
        BY <2>3, <3>2, OthersIdle DEF Steady
      <4> QED
        BY <4>1 DEF CrossedOf, Settling
    <3> QED
      BY <3>1, <3>2
  <2> QED
    BY <2>2, <2>3 DEF Next, Acts, Waiting
<1> QED
  BY <1>3, <1>4

\* One command at a time and as long as no statement fails, the only orders that
\* rest while an earlier one fits them are the rests of trades: buy and sell miss
\* no order that is there when they search, and search once.
THEOREM CrossedByRestsAlone == SerialSpec => []CrossedOnlyByRests
<1>1. Init => CrossInv
  BY DEF Init, CrossInv, CrossedOnlyByRests, CrossedOf, Settling
<1>2. CrossInv => CrossedOnlyByRests
  BY DEF CrossInv
<1> QED
  BY <1>1, <1>2, SteadyInit, SteadyStep, CrossInvStep, PTL DEF SerialSpec
=============================================================================
