------------------------- MODULE SettlementProofs -------------------------
(*************************************************************************)
(* The statements of a command are together one step of Exchange, or     *)
(* none. StageInv is the reason: it says what a command under way has    *)
(* made so far of the tables it found (settled), label by label. The     *)
(* rest is the arithmetic of the balances, for which every amount the    *)
(* code computes is one of the whole amounts of Exchange, and the tables *)
(* with their timestamps left out.                                       *)
(*************************************************************************)
EXTENDS Settlement, SerialProofs

-----------------------------------------------------------------------------
(* Rounding: what the code makes of a cost is one of Exchange's Whole coins *)

\* A whole number between the coin less and the coin more is one of them.
LEMMA LessOrMore ==
  ASSUME NEW x \in Int, NEW k \in Int, Floor(x) <= k, k <= Ceiling(x)
  PROVE  k \in AbstractExchange!Whole(x)
<1>1. /\ Floor(x) \in Int /\ Ceiling(x) \in Int /\ Ceiling(x) <= Floor(x) + 1
  BY WholeCoins
<1>2. k = Floor(x) \/ k = Ceiling(x)
  BY <1>1
<1> QED
  BY <1>2 DEF Floor, Ceiling, AbstractExchange!Whole

\* So is what a balance gets, pays or sets aside for a cost.
LEMMA CostWhole ==
  ASSUME NEW w \in Wallet, NEW x \in Int
  PROVE  /\ Trunc(Round(x)) \in Int /\ Trunc(Round(x)) \in AbstractExchange!Whole(x)
         /\ \E k \in AbstractExchange!Whole(x) :
              k \in Int /\ AddCost(w, Round(x)) = AddCoin(w, "OMG", k)
         /\ \E k \in AbstractExchange!Whole(x) :
              k \in Int /\ AddCost(w, -Round(x)) = AddCoin(w, "OMG", -k)
<1> DEFINE b == w["OMG"]
           R == Round(x)
           up == AddOMG(b, R) - b
           down == b - AddOMG(b, -R)
<1>1. b \in Int
  BY DEF Wallet, Coins
<1>2. Floor(x) \in Int /\ Ceiling(x) \in Int
  BY WholeCoins
<1>3. /\ Trunc(R) \in Int
      /\ AddOMG(b, R) \in Int /\ AddOMG(b, -R) \in Int
      /\ Floor(x) <= Trunc(R) /\ Trunc(R) <= Ceiling(x)
      /\ b + Floor(x) <= AddOMG(b, R) /\ AddOMG(b, R) <= b + Ceiling(x)
      /\ AddOMG(b, -R) <= b - Floor(x) /\ b - Ceiling(x) <= AddOMG(b, -R)
  BY <1>1, CostBounds
<1> HIDE DEF b, R
<1>4. /\ up \in Int /\ Floor(x) <= up /\ up <= Ceiling(x)
      /\ down \in Int /\ Floor(x) <= down /\ down <= Ceiling(x)
      /\ AddOMG(b, R) = b + up /\ AddOMG(b, -R) = b + (-down)
  BY <1>1, <1>2, <1>3
<1> HIDE DEF up, down
<1>5. {up, down, Trunc(R)} \subseteq AbstractExchange!Whole(x)
  BY <1>3, <1>4, LessOrMore
<1>6. AddCost(w, R) = AddCoin(w, "OMG", up) /\ AddCost(w, -R) = AddCoin(w, "OMG", -down)
  BY <1>4 DEF AddCost, AddCoin, b
<1> QED
  BY <1>3, <1>4, <1>5, <1>6 DEF R

-----------------------------------------------------------------------------
(* The tables between commands, and after one *)

\* An order without its timestamp.
Row == [item : Coins, side : Sides, quantity : Int, unitPrice : Int, userID : Users]

Bare == [item : Coins, side : Sides, quantity : Int, unitPrice : Int, userID : Nat]

\* What a command writes.
WithWallet(us, u, w) == [us EXCEPT ![u] = w]
Trade(us, o, m) ==
  WithWallet(WithWallet(us, o.userID, TakerWallet(o, m, us[o.userID])),
             m.userID, MakerWallet(o, m, us[m.userID]))
Added(b, id, o) == [i \in DOMAIN b \cup {id} |-> IF i = id THEN o ELSE b[i]]
Gone(b, id) == [i \in DOMAIN b \ {id} |-> b[i]]
Taken(b, id, n) ==
  IF b[id].quantity = n THEN Gone(b, id) ELSE [b EXCEPT ![id] = Less(@, n)]

\* The tables t after the trade of order o with order i, after order r came to
\* rest, and after order i was cancelled.
AfterTrade(t, o, i) ==
  LET m == t.book[i] IN
  [users |-> Trade(t.users, o, m), lastID |-> t.lastID,
   book |-> Taken(t.book, i, TxQuantity(o, m)), archives |-> t.archives \o <<m, o>>]
AfterPost(t, r) ==
  [users |-> WithWallet(t.users, r.userID, Reserve(r, t.users[r.userID])), lastID |-> t.lastID + 1,
   book |-> Added(t.book, t.lastID + 1, r), archives |-> t.archives]
AfterCancel(t, i) ==
  LET o == t.book[i] IN
  [users |-> WithWallet(t.users, o.userID, Refund(o, t.users[o.userID])),
   lastID |-> t.lastID, book |-> Gone(t.book, i), archives |-> t.archives]

SettledOK ==
  /\ settled = [users |-> settled.users, lastID |-> settled.lastID,
                book |-> settled.book, archives |-> settled.archives]
  /\ settled.users \in [Users -> Wallet]
  /\ settled.lastID \in Nat
  /\ settled.book = [i \in DOMAIN settled.book |-> settled.book[i]]
  /\ \A i \in DOMAIN settled.book : settled.book[i] \in Row
  /\ settled.archives \in Seq(Bare)

\* UPDATE users on one row.
LEMMA WalletWritten ==
  ASSUME NEW us \in [Users -> Wallet], NEW u \in Users, NEW w \in Wallet
  PROVE  /\ WithWallet(us, u, w) \in [Users -> Wallet]
         /\ WithWallet(us, u, w)[u] = w
         /\ \A v \in Users : v # u => WithWallet(us, u, w)[v] = us[v]
         /\ \A x : WithWallet(WithWallet(us, u, w), u, x) = WithWallet(us, u, x)
  BY DEF WithWallet

\* And on two, in either order.
LEMMA WalletsSwap ==
  ASSUME NEW us \in [Users -> Wallet], NEW u, NEW v, u # v, NEW w, NEW x
  PROVE  WithWallet(WithWallet(us, u, w), v, x) = WithWallet(WithWallet(us, v, x), u, w)
  BY DEF WithWallet

\* A user who is given n coins c.
LEMMA GiveCoins ==
  ASSUME NEW us \in [Users -> Wallet], NEW u \in Users, NEW c \in Coins, NEW n \in Int
  PROVE  /\ AbstractExchange!Give(us, u, c, n) = WithWallet(us, u, AddCoin(us[u], c, n))
         /\ AbstractExchange!Give(us, u, c, n) \in [Users -> Wallet]
<1>1. AbstractExchange!Give(us, u, c, n) = WithWallet(us, u, AddCoin(us[u], c, n))
  BY DEF AbstractExchange!Give, AddCoin, WithWallet
<1>2. AddCoin(us[u], c, n) \in Wallet
  BY AddCoinType
<1> QED
  BY <1>1, <1>2, WalletWritten

\* A user who is given twice.
LEMMA GiveTwice ==
  ASSUME NEW us \in [Users -> Wallet], NEW u \in Users, NEW c \in Coins, NEW d \in Coins,
         NEW k \in Int, NEW n \in Int
  PROVE  /\ AbstractExchange!Give(AbstractExchange!Give(us, u, c, k), u, d, n)
               = WithWallet(us, u, AddCoin(AddCoin(us[u], c, k), d, n))
         /\ AddCoin(AddCoin(us[u], c, k), d, n) \in Wallet
<1> DEFINE w == AddCoin(us[u], c, k)
           vs == WithWallet(us, u, w)
<1>1. w \in Wallet /\ AddCoin(w, d, n) \in Wallet
  BY AddCoinType
<1> HIDE DEF w
<1>2. vs \in [Users -> Wallet] /\ vs[u] = w
      /\ \A x : WithWallet(vs, u, x) = WithWallet(us, u, x)
  BY <1>1, WalletWritten
<1>3. AbstractExchange!Give(us, u, c, k) = vs
  BY GiveCoins DEF w
<1> HIDE DEF vs
<1>4. AbstractExchange!Give(vs, u, d, n) = WithWallet(vs, u, AddCoin(vs[u], d, n))
  BY <1>2, GiveCoins
<1> QED
  BY <1>1, <1>2, <1>3, <1>4 DEF w

\* In either order.
LEMMA AddCoinSwap ==
  ASSUME NEW w \in Wallet, NEW c \in Coins, NEW d \in Coins, NEW k \in Int, NEW n \in Int
  PROVE  AddCoin(AddCoin(w, c, k), d, n) = AddCoin(AddCoin(w, d, n), c, k)
<1> DEFINE v == AddCoin(AddCoin(w, c, k), d, n)
           x == AddCoin(AddCoin(w, d, n), c, k)
<1>1. v \in Wallet /\ x \in Wallet
  BY AddCoinType
<1>2. ASSUME NEW e \in Coins
      PROVE  v[e] = x[e]
  BY DEF AddCoin, Wallet
<1> HIDE DEF v, x
<1>3. v = x
  BY <1>1, <1>2 DEF Wallet
<1> QED
  BY <1>3 DEF v, x

\* The coins and the cost of a trade.
LEMMA RowTx ==
  ASSUME NEW o \in Row, NEW m \in Row
  PROVE  /\ TxQuantity(o, m) \in Int
         /\ TxQuantity(o, m) * m.unitPrice \in Int
         /\ TxCost(o, m) = Round(TxQuantity(o, m) * m.unitPrice)
<1>1. TxQuantity(o, m) \in Int /\ m.unitPrice \in Int
  BY DEF TxQuantity, Row
<1> QED
  BY <1>1 DEF TxCost

\* Buyer b pays k coins for n coins c, seller s gets l for them.
Exchanged(us, b, s, c, n, k, l) ==
  WithWallet(WithWallet(us, b, AddCoin(AddCoin(us[b], "OMG", -k), c, n)),
             s, AddCoin(AddCoin(us[s], "OMG", l), c, -n))

\* A buyer and a seller who exchange coins for money.
LEMMA FourGifts ==
  ASSUME NEW us \in [Users -> Wallet], NEW b \in Users, NEW s \in Users, b # s,
         NEW c \in Coins, NEW n \in Int, NEW k \in Int, NEW l \in Int
  PROVE  /\ AbstractExchange!Give(AbstractExchange!Give(AbstractExchange!Give(
              AbstractExchange!Give(us, b, "OMG", -k), b, c, n), s, "OMG", l), s, c, -n)
               = Exchanged(us, b, s, c, n, k, l)
         /\ Exchanged(us, b, s, c, n, k, l) \in [Users -> Wallet]
<1> DEFINE w == AddCoin(AddCoin(us[b], "OMG", -k), c, n)
           vs == WithWallet(us, b, w)
           j == -n
<1>1. "OMG" \in Coins /\ -k \in Int /\ j \in Int
  BY DEF Coins
<1>2. /\ AbstractExchange!Give(AbstractExchange!Give(us, b, "OMG", -k), b, c, n) = vs
      /\ w \in Wallet
  BY <1>1, GiveTwice
<1> HIDE DEF j, w
<1>3. vs \in [Users -> Wallet] /\ vs[s] = us[s]
  BY <1>2, WalletWritten
<1> HIDE DEF vs
<1>4. /\ AbstractExchange!Give(AbstractExchange!Give(vs, s, "OMG", l), s, c, j)
           = WithWallet(vs, s, AddCoin(AddCoin(vs[s], "OMG", l), c, j))
      /\ AddCoin(AddCoin(vs[s], "OMG", l), c, j) \in Wallet
  BY <1>1, <1>3, GiveTwice
<1>5. WithWallet(vs, s, AddCoin(AddCoin(vs[s], "OMG", l), c, j)) \in [Users -> Wallet]
  BY <1>3, <1>4, WalletWritten
<1> QED
  BY <1>2, <1>3, <1>4, <1>5 DEF w, vs, j, Exchanged

\* What buy and sell write to the two wallets is a trade of Exchange.
LEMMA TradeIsTraded ==
  ASSUME SettledOK, NEW o \in Row, NEW m \in Row,
         o.userID # m.userID, o.side # m.side, o.item = m.item
  PROVE  /\ Trade(settled.users, o, m) \in AbstractExchange!Traded(o, m, TxQuantity(o, m))
         /\ Trade(settled.users, o, m) \in [Users -> Wallet]
<1> DEFINE us == settled.users
           n == TxQuantity(o, m)
           p == n * m.unitPrice
           x == us[o.userID]
           y == us[m.userID]
<1>1. us \in [Users -> Wallet] /\ o.userID \in Users /\ m.userID \in Users
      /\ x \in Wallet /\ y \in Wallet
  BY DEF SettledOK, Row
<1>2. n \in Int /\ -n \in Int /\ p \in Int /\ TxCost(o, m) = Round(p)
  BY RowTx
<1>3. o.item \in Coins /\ "OMG" \in Coins /\ o.side \in Sides
  BY DEF Row, Coins
<1> HIDE DEF us, n, p, x, y
<1>4. PICK k \in AbstractExchange!Whole(p) :
        k \in Int /\ AddCost(IF o.side = "buy" THEN x ELSE y, -Round(p))
                       = AddCoin(IF o.side = "buy" THEN x ELSE y, "OMG", -k)
  BY <1>1, <1>2, CostWhole
<1>5. CASE o.side = "buy"
  <2>1. PICK l \in AbstractExchange!Whole(p) :
          l \in Int /\ AddCost(y, Round(p)) = AddCoin(y, "OMG", l)
    BY <1>1, <1>2, CostWhole
  <2>2. TakerWallet(o, m, x) = AddCoin(AddCoin(x, "OMG", -k), o.item, n)
    BY <1>2, <1>4, <1>5 DEF TakerWallet, n
  <2>3. MakerWallet(o, m, y) = AddCoin(AddCoin(y, "OMG", l), o.item, -n)
    BY <1>2, <1>5, <2>1 DEF MakerWallet, n
  <2>4. Trade(us, o, m) = Exchanged(us, o.userID, m.userID, o.item, n, k, l)
    BY <1>1, <2>2, <2>3 DEF Trade, Exchanged, x, y
  <2>5. Trade(us, o, m) \in AbstractExchange!Traded(o, m, n)
    <3>1. AbstractExchange!Give(AbstractExchange!Give(AbstractExchange!Give(
          AbstractExchange!Give(settled.users, o.userID, "OMG", -k), o.userID, o.item, n),
          m.userID, "OMG", l), m.userID, o.item, -n)
            \in AbstractExchange!Traded(o, m, n)
      BY <1>4, <1>5, <2>1 DEF AbstractExchange!Traded, p
    <3> QED
      BY <1>1, <1>2, <1>3, <1>4, <2>1, <2>4, <3>1, FourGifts DEF us
  <2> QED
    BY <1>1, <1>2, <1>3, <1>4, <2>1, <2>4, <2>5, FourGifts DEF us, n
<1>6. CASE o.side # "buy"
  <2>1. AddCoin(x, o.item, -n) \in Wallet
    BY <1>1, <1>2, <1>3, AddCoinType
  <2>2. PICK l \in AbstractExchange!Whole(p) :
          l \in Int /\ AddCost(AddCoin(x, o.item, -n), Round(p))
                         = AddCoin(AddCoin(x, o.item, -n), "OMG", l)
    BY <1>2, <2>1, CostWhole
  <2>3. TakerWallet(o, m, x) = AddCoin(AddCoin(x, "OMG", l), o.item, -n)
    BY <1>1, <1>2, <1>3, <1>6, <2>2, AddCoinSwap DEF TakerWallet, n
  <2>4. MakerWallet(o, m, y) = AddCoin(AddCoin(y, "OMG", -k), o.item, n)
    BY <1>2, <1>4, <1>6 DEF MakerWallet, n
  <2>6. Trade(us, o, m) = Exchanged(us, m.userID, o.userID, o.item, n, k, l)
    BY <1>1, <2>3, <2>4, WalletsSwap DEF Trade, Exchanged, x, y
  <2>7. Trade(us, o, m) \in AbstractExchange!Traded(o, m, n)
    <3>1. AbstractExchange!Give(AbstractExchange!Give(AbstractExchange!Give(
          AbstractExchange!Give(settled.users, m.userID, "OMG", -k), m.userID, o.item, n),
          o.userID, "OMG", l), o.userID, o.item, -n)
            \in AbstractExchange!Traded(o, m, n)
      BY <1>4, <1>6, <2>2 DEF AbstractExchange!Traded, p
    <3> QED
      BY <1>1, <1>2, <1>3, <1>4, <2>2, <2>6, <3>1, FourGifts DEF us
  <2> QED
    BY <1>1, <1>2, <1>3, <1>4, <2>2, <2>6, <2>7, FourGifts DEF us, n
<1> QED
  BY <1>5, <1>6

-----------------------------------------------------------------------------
(* A command is one step of Exchange *)

\* What insert_order takes and asks for: the cost cut off, or the coins.
Amount(r) == IF r.side = "buy" THEN Trunc(Cost(r)) ELSE r.quantity

\* It is what Exchange sets aside.
LEMMA ReserveIsPledged ==
  ASSUME NEW us \in [Users -> Wallet], NEW r \in Row
  PROVE  LET c == AbstractExchange!PledgedCoin(r) IN
         /\ Amount(r) \in Int /\ Amount(r) \in AbstractExchange!Pledged(r)
         /\ AbstractExchange!Give(us, r.userID, c, -Amount(r))
              = WithWallet(us, r.userID, Reserve(r, us[r.userID]))
         /\ CanReserve(r, us[r.userID])
              <=> /\ ~AbstractExchange!Unsellable(r)
                  /\ AbstractExchange!Owns(us, r, Amount(r))
<1> DEFINE n == Amount(r)
           c == AbstractExchange!PledgedCoin(r)
           x == r.quantity * r.unitPrice
           u == r.userID
<1>1. /\ r.quantity \in Int /\ x \in Int /\ u \in Users /\ us[u] \in Wallet
      /\ r.item \in Coins /\ "OMG" \in Coins /\ r.side \in Sides
  BY DEF Row, Coins
<1>2. n \in Int /\ n \in AbstractExchange!Pledged(r) /\ c \in Coins
  <2>1. CASE r.side = "buy"
    <3>1. n = Trunc(Round(x))
      BY <2>1 DEF Amount, Cost
    <3>2. AbstractExchange!Pledged(r) = AbstractExchange!Whole(x)
      BY <2>1 DEF AbstractExchange!Pledged
    <3>3. c = "OMG"
      BY <2>1 DEF AbstractExchange!PledgedCoin
    <3> HIDE DEF n, x, c
    <3> QED
      BY <1>1, <3>1, <3>2, <3>3, CostWhole
  <2>2. CASE r.side # "buy"
    BY <1>1, <2>2 DEF Amount, AbstractExchange!Pledged, AbstractExchange!PledgedCoin
  <2> QED
    BY <2>1, <2>2
<1>3. Reserve(r, us[u]) = AddCoin(us[u], c, -n)
  BY DEF Reserve, AbstractExchange!PledgedCoin, Amount
<1>4. CanReserve(r, us[u]) <=> ~AbstractExchange!Unsellable(r) /\ AbstractExchange!Owns(us, r, n)
  BY <1>1 DEF CanReserve, AbstractExchange!Unsellable, AbstractExchange!Owns,
              AbstractExchange!PledgedCoin, Amount, Sides
<1> HIDE DEF n, c, u
<1>5. -n \in Int
  BY <1>2
<1> DEFINE j == -n
<1> HIDE DEF j
<1>6. AbstractExchange!Give(us, u, c, j) = WithWallet(us, u, AddCoin(us[u], c, j))
  BY <1>1, <1>2, <1>5, GiveCoins DEF j
<1> QED
  BY <1>2, <1>3, <1>4, <1>6 DEF n, c, u, j

\* So an order comes to rest in the code as in Exchange,
LEMMA RestStep ==
  ASSUME NEW us \in [Users -> Wallet], NEW b, NEW r \in Row, CanReserve(r, us[r.userID]),
         settled'.users = WithWallet(us, r.userID, Reserve(r, us[r.userID])),
         settled'.lastID = settled.lastID + 1,
         settled'.book = Added(b, settled.lastID + 1, r)
  PROVE  AbstractExchange!Rest(us, b, r)
  BY ReserveIsPledged DEF Added, AbstractExchange!Rest

\* or is dropped.
LEMMA DropStep ==
  ASSUME NEW us \in [Users -> Wallet], NEW b, NEW r \in Row, ~CanReserve(r, us[r.userID]),
         settled'.users = us, settled'.lastID = settled.lastID, settled'.book = b
  PROVE  AbstractExchange!Drop(us, b, r)
  BY ReserveIsPledged DEF AbstractExchange!Drop

\* What cancel_order gives back is one of the amounts of Exchange.
LEMMA RefundIsGiven ==
  ASSUME NEW us \in [Users -> Wallet], NEW o \in Row
  PROVE  \E n \in AbstractExchange!Pledged(o) :
           WithWallet(us, o.userID, Refund(o, us[o.userID]))
             = AbstractExchange!Give(us, o.userID, AbstractExchange!PledgedCoin(o), n)
<1> DEFINE x == o.quantity * o.unitPrice
           u == o.userID
           c == AbstractExchange!PledgedCoin(o)
<1>1. /\ o.quantity \in Int /\ x \in Int /\ u \in Users /\ us[u] \in Wallet
      /\ o.item \in Coins /\ "OMG" \in Coins
  BY DEF Row, Coins
<1>2. \E n \in AbstractExchange!Pledged(o) : n \in Int /\ Refund(o, us[u]) = AddCoin(us[u], c, n)
  <2>1. CASE o.side = "buy"
    <3>1. Refund(o, us[u]) = AddCost(us[u], Round(x))
      BY <2>1 DEF Refund, Cost
    <3>2. AbstractExchange!Pledged(o) = AbstractExchange!Whole(x) /\ c = "OMG"
      BY <2>1 DEF AbstractExchange!Pledged, AbstractExchange!PledgedCoin
    <3> HIDE DEF x, c, u
    <3> QED
      BY <1>1, <3>1, <3>2, CostWhole
  <2>2. CASE o.side # "buy"
    BY <1>1, <2>2 DEF Refund, AbstractExchange!Pledged, AbstractExchange!PledgedCoin
  <2> QED
    BY <2>1, <2>2
<1>3. c \in Coins
  BY <1>1 DEF AbstractExchange!PledgedCoin
<1> HIDE DEF c, u
<1>4. PICK n \in AbstractExchange!Pledged(o) : n \in Int /\ Refund(o, us[u]) = AddCoin(us[u], c, n)
  BY <1>2
<1>5. AbstractExchange!Give(us, u, c, n) = WithWallet(us, u, AddCoin(us[u], c, n))
  BY <1>1, <1>3, <1>4, GiveCoins
<1> QED
  BY <1>4, <1>5 DEF c, u

\* Who passes the check at the head of buy and sell passes that of Fill.
LEMMA MayTrade ==
  ASSUME NEW us \in [Users -> Wallet], NEW o \in Row, Covered(o, us[o.userID])
  PROVE  \E n \in AbstractExchange!Pledged(o) : AbstractExchange!Owns(us, o, n)
<1> DEFINE x == o.quantity * o.unitPrice
           w == us[o.userID]
<1>1. x \in Int /\ w \in Wallet /\ w["OMG"] \in Int
  BY DEF Row, Wallet, Coins
<1>2. CASE o.side = "buy"
  <2>1. w["OMG"] * Scale >= Round(x)
    BY <1>2 DEF Covered, Cost
  <2> HIDE DEF x, w
  <2>2. w["OMG"] >= Trunc(Round(x)) /\ Trunc(Round(x)) \in AbstractExchange!Whole(x)
    BY <1>1, <2>1, CoverWhole, CostWhole
  <2> QED
    BY <1>2, <2>2 DEF AbstractExchange!Owns, AbstractExchange!Pledged,
                      AbstractExchange!PledgedCoin, x, w
<1>3. CASE o.side # "buy"
  BY <1>3 DEF Covered, AbstractExchange!Owns, AbstractExchange!Pledged,
              AbstractExchange!PledgedCoin
<1> QED
  BY <1>2, <1>3

\* insert_order, all of it, is Post.
LEMMA PostStep ==
  ASSUME SettledOK, NEW o \in Row, CanReserve(o, settled.users[o.userID]),
         settled' = AfterPost(settled, o)
  PROVE  AbstractExchange!Post(o)
<1>1. settled.users \in [Users -> Wallet]
  BY DEF SettledOK
<1>2. /\ settled'.users = WithWallet(settled.users, o.userID, Reserve(o, settled.users[o.userID]))
      /\ settled'.lastID = settled.lastID + 1
      /\ settled'.book = Added(settled.book, settled.lastID + 1, o)
      /\ settled'.archives = settled.archives
  BY DEF AfterPost
<1>3. AbstractExchange!Rest(settled.users, settled.book, o)
  BY <1>1, <1>2, RestStep
<1> QED
  BY <1>2, <1>3 DEF AbstractExchange!Post

\* cancel_order, all of it, is Withdraw.
LEMMA WithdrawStep ==
  ASSUME SettledOK, NEW i \in DOMAIN settled.book, settled' = AfterCancel(settled, i)
  PROVE  AbstractExchange!Withdraw(i)
<1>1. settled.users \in [Users -> Wallet] /\ settled.book[i] \in Row
  BY DEF SettledOK
<1>2. /\ settled'.users = WithWallet(settled.users, settled.book[i].userID,
           Refund(settled.book[i], settled.users[settled.book[i].userID]))
      /\ settled'.book = Gone(settled.book, i)
      /\ settled'.lastID = settled.lastID /\ settled'.archives = settled.archives
  BY DEF AfterCancel
<1> QED
  BY <1>1, <1>2, RefundIsGiven DEF Gone, AbstractExchange!Withdraw

\* Order o against order i of the book; then the rest of it is posted, unless
\* insert_order refuses it.
LEMMA FillStep ==
  ASSUME SettledOK, NEW o \in Row, NEW i \in DOMAIN settled.book,
         AbstractExchange!Fits(o, settled.book[i]),
         Covered(o, settled.users[o.userID]),
         LET n == TxQuantity(o, settled.book[i])
             r == Less(o, n)
             t == AfterTrade(settled, o, i)
         IN
         IF o.quantity # n /\ CanReserve(r, t.users[r.userID])
         THEN settled' = AfterPost(t, r)
         ELSE settled' = t
  PROVE  AbstractExchange!Fill(o, i)
<1> DEFINE m == settled.book[i]
           n == TxQuantity(o, m)
           acc == Trade(settled.users, o, m)
           r == Less(o, n)
<1>1. m \in Row /\ o.userID # m.userID /\ o.side # m.side /\ o.item = m.item
  BY DEF SettledOK, AbstractExchange!Fits
<1>2. acc \in AbstractExchange!Traded(o, m, n) /\ acc \in [Users -> Wallet]
  BY <1>1, TradeIsTraded
<1>3. n = (IF o.quantity > m.quantity THEN m.quantity ELSE o.quantity)
  BY DEF TxQuantity
<1>4. Taken(settled.book, i, n) = AbstractExchange!Without(i, n)
  BY DEF Taken, Gone, Less, AbstractExchange!Without, AbstractExchange!Minus
<1>5. r = AbstractExchange!Minus(o, n) /\ r \in Row
  <2>1. n \in Int /\ o.quantity \in Int
    BY <1>1, RowTx DEF Row
  <2>2. o.quantity - n \in Int
    BY <2>1
  <2> HIDE DEF n
  <2> QED
    BY <2>2 DEF Less, AbstractExchange!Minus, Row
<1>6. /\ AfterTrade(settled, o, i).users = acc
      /\ AfterTrade(settled, o, i).lastID = settled.lastID
      /\ AfterTrade(settled, o, i).book = Taken(settled.book, i, n)
      /\ AfterTrade(settled, o, i).archives = settled.archives \o <<m, o>>
  BY DEF AfterTrade
<1>7. \E k \in AbstractExchange!Pledged(o) : AbstractExchange!Owns(settled.users, o, k)
  BY MayTrade DEF SettledOK
<1>8. o.quantity # n /\ CanReserve(r, acc[r.userID])
        => settled' = AfterPost(AfterTrade(settled, o, i), r)
  BY <1>6
<1>9. ~(o.quantity # n /\ CanReserve(r, acc[r.userID])) => settled' = AfterTrade(settled, o, i)
  BY <1>6
<1> HIDE DEF acc, r, n
<1>10. CASE o.quantity = n
  <2>1. settled' = AfterTrade(settled, o, i)
    BY <1>9, <1>10
  <2> QED
    BY <1>2, <1>3, <1>4, <1>6, <1>7, <1>10, <2>1 DEF AbstractExchange!Fill
<1>11. CASE o.quantity # n /\ CanReserve(r, acc[r.userID])
  <2>1. settled' = AfterPost(AfterTrade(settled, o, i), r)
    BY <1>8, <1>11
  <2>2. /\ settled'.users = WithWallet(acc, r.userID, Reserve(r, acc[r.userID]))
        /\ settled'.lastID = settled.lastID + 1
        /\ settled'.book = Added(Taken(settled.book, i, n), settled.lastID + 1, r)
        /\ settled'.archives = settled.archives \o <<m, o>>
    BY <1>6, <2>1 DEF AfterPost
  <2>3. AbstractExchange!Rest(acc, Taken(settled.book, i, n), r)
    BY <1>2, <1>5, <1>11, <2>2, RestStep
  <2> QED
    BY <1>2, <1>3, <1>4, <1>5, <1>7, <1>11, <2>2, <2>3 DEF AbstractExchange!Fill
<1>12. CASE o.quantity # n /\ ~CanReserve(r, acc[r.userID])
  <2>1. settled' = AfterTrade(settled, o, i)
    BY <1>9, <1>12
  <2>2. AbstractExchange!Drop(acc, Taken(settled.book, i, n), r)
    BY <1>2, <1>5, <1>6, <1>12, <2>1, DropStep
  <2> QED
    BY <1>2, <1>3, <1>4, <1>5, <1>6, <1>7, <1>12, <2>1, <2>2 DEF AbstractExchange!Fill
<1> QED
  BY <1>10, <1>11, <1>12

-----------------------------------------------------------------------------
(* What a statement does to the tables as Exchange sees them *)

Tables(us, n, b, h) == [users |-> us, lastID |-> n, book |-> b, archives |-> h]

\* A table without the timestamps.
Untimed(f) == [i \in DOMAIN f |-> Order1(f[i])]

\* The snapshot, by its four tables.
LEMMA SnapshotTables ==
  /\ Snapshot = Tables(users, orderSeq, Untimed(orders), Untimed(archives))
  /\ Snapshot' = Tables(users', orderSeq', Untimed(orders'), Untimed(archives'))
  BY DEF Snapshot, Tables, Untimed

\* And the four tables, by the snapshot.
LEMMA TablesAre ==
  ASSUME NEW us, NEW n, NEW b, NEW h, Snapshot = Tables(us, n, b, h)
  PROVE  users = us /\ orderSeq = n /\ Untimed(orders) = b /\ Untimed(archives) = h
  BY DEF Snapshot, Tables, Untimed

\* An order without its timestamp.
LEMMA BareType ==
  ASSUME NEW o \in Order
  PROVE  /\ Order1(o) \in Bare
         /\ Order1(o).item = o.item /\ Order1(o).side = o.side
         /\ Order1(o).quantity = o.quantity /\ Order1(o).unitPrice = o.unitPrice
         /\ Order1(o).userID = o.userID
  BY DEF Order, Order1, Bare

\* And without it a row of a user.
LEMMA BareRow ==
  ASSUME NEW o \in Order, o.userID \in Users
  PROVE  Order1(o) \in Row
  BY DEF Order, Order1, Row

\* The wallets of a trade, of an escrow and of a refund do not depend on the timestamps.
LEMMA UntimedMoney ==
  ASSUME NEW o \in Order, NEW m \in Order, NEW w
  PROVE  /\ TxQuantity(Order1(o), Order1(m)) = TxQuantity(o, m)
         /\ TakerWallet(Order1(o), Order1(m), w) = TakerWallet(o, m, w)
         /\ MakerWallet(Order1(o), Order1(m), w) = MakerWallet(o, m, w)
         /\ Reserve(Order1(o), w) = Reserve(o, w)
         /\ CanReserve(Order1(o), w) <=> CanReserve(o, w)
         /\ Covered(Order1(o), w) <=> Covered(o, w)
         /\ Refund(Order1(o), w) = Refund(o, w)
         /\ \A n \in Int : Order1(Less(o, n)) = Less(Order1(o), n)
         /\ AbstractExchange!Fits(Order1(o), Order1(m)) <=> Compatible(o, m)
<1>1. /\ Order1(o).item = o.item /\ Order1(o).side = o.side
      /\ Order1(o).quantity = o.quantity /\ Order1(o).unitPrice = o.unitPrice
      /\ Order1(o).userID = o.userID
  BY BareType
<1>2. /\ Order1(m).item = m.item /\ Order1(m).side = m.side
      /\ Order1(m).quantity = m.quantity /\ Order1(m).unitPrice = m.unitPrice
      /\ Order1(m).userID = m.userID
  BY BareType
<1>3. TxQuantity(Order1(o), Order1(m)) = TxQuantity(o, m)
  BY <1>1, <1>2 DEF TxQuantity
<1>4. TxCost(Order1(o), Order1(m)) = TxCost(o, m)
  BY <1>2, <1>3 DEF TxCost
<1>5. ASSUME NEW n \in Int
      PROVE  Order1(Less(o, n)) = Less(Order1(o), n)
  BY DEF Order1, Less, Order
<1>6. Cost(Order1(o)) = Cost(o)
  BY <1>1 DEF Cost
<1>7. AbstractExchange!Fits(Order1(o), Order1(m)) <=> Compatible(o, m)
  BY <1>1, <1>2 DEF AbstractExchange!Fits, Compatible
<1>8. /\ TakerWallet(Order1(o), Order1(m), w) = TakerWallet(o, m, w)
      /\ MakerWallet(Order1(o), Order1(m), w) = MakerWallet(o, m, w)
  BY <1>1, <1>2, <1>3, <1>4 DEF TakerWallet, MakerWallet
<1>9. /\ Reserve(Order1(o), w) = Reserve(o, w)
      /\ CanReserve(Order1(o), w) <=> CanReserve(o, w)
      /\ Covered(Order1(o), w) <=> Covered(o, w)
      /\ Refund(Order1(o), w) = Refund(o, w)
  BY <1>1, <1>6 DEF Reserve, CanReserve, Covered, Refund
<1> QED
  BY <1>3, <1>5, <1>7, <1>8, <1>9

\* The archives without their timestamps.
LEMMA UntimedSeq ==
  ASSUME NEW h \in Seq(Order)
  PROVE  Untimed(h) \in Seq(Bare) /\ Len(Untimed(h)) = Len(h)
<1>1. Len(h) \in Nat /\ DOMAIN h = 1..Len(h) /\ \A i \in 1..Len(h) : h[i] \in Order
  BY LenProperties, ElementOfSeq
<1>2. Untimed(h) \in [1..Len(h) -> Bare]
  BY <1>1, BareType DEF Untimed
<1>3. Untimed(h) \in Seq(Bare)
  BY <1>1, <1>2, SeqDef
<1> QED
  BY <1>1, <1>2, <1>3, LenProperties

\* INSERT INTO archives
LEMMA UntimedAppend ==
  ASSUME NEW h \in Seq(Order), NEW o \in Order
  PROVE  Untimed(Append(h, o)) = Append(Untimed(h), Order1(o))
<1> DEFINE g == Append(h, o)
           f == Append(Untimed(h), Order1(o))
<1>1. /\ g \in Seq(Order) /\ Len(g) = Len(h) + 1 /\ g[Len(h) + 1] = o
      /\ \A i \in 1..Len(h) : g[i] = h[i]
  BY AppendProperties
<1>2. Order1(o) \in Bare /\ Untimed(h) \in Seq(Bare) /\ Len(Untimed(h)) = Len(h)
  BY BareType, UntimedSeq
<1>3. /\ f \in Seq(Bare) /\ Len(f) = Len(h) + 1 /\ f[Len(h) + 1] = Order1(o)
      /\ \A i \in 1..Len(h) : f[i] = Untimed(h)[i]
  BY <1>2, AppendProperties
<1>4. Untimed(g) \in Seq(Bare) /\ Len(Untimed(g)) = Len(h) + 1
  BY <1>1, UntimedSeq
<1>5. Len(h) \in Nat /\ DOMAIN h = 1..Len(h) /\ DOMAIN g = 1..(Len(h) + 1)
  BY <1>1, LenProperties
<1> HIDE DEF f, g
<1>6. ASSUME NEW i \in 1..(Len(h) + 1)
      PROVE  Untimed(g)[i] = f[i]
  <2>1. Untimed(g)[i] = Order1(g[i])
    BY <1>5 DEF Untimed
  <2>2. CASE i \in 1..Len(h)
    BY <1>1, <1>3, <1>5, <2>1, <2>2 DEF Untimed
  <2>3. CASE i = Len(h) + 1
    BY <1>1, <1>3, <2>1, <2>3
  <2> QED
    BY <1>5, <2>2, <2>3
<1>7. Untimed(g) = f
  BY <1>3, <1>4, <1>5, <1>6, SeqEqual
<1> QED
  BY <1>7 DEF f, g

\* The two archive_order calls of a trade.
LEMMA PairAppended ==
  ASSUME NEW h \in Seq(Bare), NEW m \in Bare, NEW o \in Bare
  PROVE  Append(Append(h, m), o) = h \o <<m, o>>
<1>1. <<m, o>> \in Seq(Bare) /\ Len(<<m, o>>) = 2 /\ <<m, o>>[1] = m /\ <<m, o>>[2] = o
  OBVIOUS
<1> DEFINE f == Append(Append(h, m), o)
           g == h \o <<m, o>>
           k == Append(h, m)
<1>2. Len(h) \in Nat
  BY LenProperties
<1>3. /\ k \in Seq(Bare) /\ Len(k) = Len(h) + 1 /\ k[Len(h) + 1] = m
      /\ \A i \in 1..Len(h) : k[i] = h[i]
  BY AppendProperties
<1> HIDE DEF k
<1>4. /\ Append(k, o) \in Seq(Bare) /\ Len(Append(k, o)) = Len(h) + 2
      /\ Append(k, o)[Len(h) + 2] = o
      /\ \A i \in 1..(Len(h) + 1) : Append(k, o)[i] = k[i]
  BY <1>2, <1>3, AppendProperties
<1>5. /\ g \in Seq(Bare) /\ Len(g) = Len(h) + 2
      /\ \A i \in 1..(Len(h) + 2) :
           g[i] = IF i <= Len(h) THEN h[i] ELSE <<m, o>>[i - Len(h)]
  BY <1>1, <1>2, ConcatProperties
<1>6. f = Append(k, o)
  BY DEF k
<1> HIDE DEF f, g
<1>7. ASSUME NEW i \in 1..(Len(h) + 2)
      PROVE  f[i] = g[i]
  <2>1. CASE i <= Len(h)
    <3>1. i \in 1..Len(h) /\ i \in 1..(Len(h) + 1)
      BY <1>2, <2>1
    <3> QED
      BY <1>3, <1>4, <1>5, <1>6, <2>1, <3>1
  <2>2. CASE i = Len(h) + 1
    <3>1. i - Len(h) = 1 /\ ~(i <= Len(h)) /\ i \in 1..(Len(h) + 1)
      BY <1>2, <2>2
    <3> QED
      BY <1>1, <1>3, <1>4, <1>5, <1>6, <2>2, <3>1
  <2>3. CASE i = Len(h) + 2
    <3>1. i - Len(h) = 2 /\ ~(i <= Len(h))
      BY <1>2, <2>3
    <3> QED
      BY <1>1, <1>4, <1>5, <1>6, <2>3, <3>1
  <2> QED
    BY <1>2, <2>1, <2>2, <2>3
<1>8. f = g
  BY <1>2, <1>4, <1>5, <1>6, <1>7, SeqEqual
<1> QED
  BY <1>8 DEF f, g

\* INSERT INTO orders
LEMMA UntimedInsert ==
  ASSUME TypeOK, NEW o \in Order, InsertRow(o)
  PROVE  /\ orderSeq' = orderSeq + 1
         /\ Untimed(orders') = Added(Untimed(orders), orderSeq + 1, Order1(o))
<1>1. orderSeq' = orderSeq + 1 /\ orders' = WithRow(orderSeq + 1, o)
  BY DEF InsertRow, NewOrderID
<1>2. Order1([o EXCEPT !.created_at = now]) = Order1(o)
  BY DEF Order1, Order
<1>3. DOMAIN Untimed(orders) = DOMAIN orders /\ DOMAIN orders' = DOMAIN orders \cup {orderSeq + 1}
  BY <1>1 DEF Untimed, WithRow
<1>4. ASSUME NEW i \in DOMAIN orders \cup {orderSeq + 1}
      PROVE  Order1(orders'[i]) = IF i = orderSeq + 1 THEN Order1(o) ELSE Untimed(orders)[i]
  BY <1>1, <1>2 DEF WithRow, Untimed
<1> QED
  BY <1>1, <1>3, <1>4 DEF Untimed, Added

\* DELETE FROM orders
LEMMA UntimedDelete ==
  ASSUME NEW id, DeleteOrder(id)
  PROVE  Untimed(orders') = Gone(Untimed(orders), id)
  BY DEF DeleteOrder, Untimed, Gone

\* The rest of a matched order: DELETE or UPDATE, when the row is as it was read.
LEMMA UntimedWriteBack ==
  ASSUME TypeOK, NEW id \in DOMAIN orders, NEW n \in Int, WriteBack(id, Less(orders[id], n))
  PROVE  Untimed(orders') = Taken(Untimed(orders), id, n)
<1> DEFINE m == orders[id]
           o == Less(m, n)
<1>0. m \in Order
  BY DEF TypeOK, TablesOK
<1> HIDE DEF m
<1>1. m \in Order /\ o \in Order /\ o.quantity = m.quantity - n /\ m.quantity \in Int
  BY <1>0 DEF Less, Order
<1>2. Untimed(orders)[id].quantity = m.quantity
  BY <1>1, BareType DEF Untimed, m
<1> HIDE DEF o
<1>3. CASE m.quantity = n
  <2>1. o.quantity = 0
    BY <1>1, <1>3
  <2>2. DeleteOrder(id)
    BY <2>1 DEF WriteBack, o, m
  <2> QED
    BY <1>2, <1>3, <2>2, UntimedDelete DEF Taken
<1>4. CASE m.quantity # n
  <2>1. o.quantity # 0
    BY <1>1, <1>4
  <2>2. UpdateOrder(id, o)
    BY <2>1 DEF WriteBack, o, m
  <2>3. Order1([o EXCEPT !.created_at = m.created_at]) = Order1(o)
    BY <1>1 DEF Order1, Order
  <2>4. Order1(o) = Less(Order1(m), n)
    BY <1>1, UntimedMoney DEF o
  <2>5. Untimed(orders') = [Untimed(orders) EXCEPT ![id] = Less(Order1(m), n)]
    BY <2>2, <2>3, <2>4 DEF UpdateOrder, Untimed, m
  <2>6. Untimed(orders)[id] = Order1(m)
    BY DEF Untimed, m
  <2> QED
    BY <1>2, <1>4, <2>5, <2>6 DEF Taken
<1> QED
  BY <1>3, <1>4

\* UPDATE users
LEMMA UpdateIsWritten ==
  ASSUME NEW u, NEW w, UpdateUserBalance(u, w), TypeOK
  PROVE  users' = WithWallet(users, u, w)
  BY DEF UpdateUserBalance, WithWallet, TypeOK, TablesOK

-----------------------------------------------------------------------------
(* Where a command is *)

Given == AbstractExchange!Orders

\* t is what the tables are when order r is about to rest: as they were, or after
\* the trade r is the rest of.
Unposted(s, t) ==
  LET r == Order1(ord[s]) IN
  \/ found[s] = NoMatch /\ r \in Given /\ t = settled
  \/ /\ found[s] # NoMatch
     /\ \E o \in Given, i \in DOMAIN settled.book :
          LET m == settled.book[i]
              n == TxQuantity(o, m)
          IN  /\ AbstractExchange!Fits(o, m)
              /\ Covered(o, settled.users[o.userID])
              /\ o.quantity # n
              /\ r = Less(o, n)
              /\ t = AfterTrade(settled, o, i)

\* The labels of a command that has written nothing.
Unwritten == {"get_user", "find_matching", "get_order", "archive_matched"}
                \cup (Cancelling \ {"cancel_delete"})

AsFound(s) == pc[s] \in Unwritten => Snapshot = settled

HoldsGiven(s) ==
  LET o == Order1(ord[s]) IN
  /\ pc[s] \in {"get_user", "find_matching", "get_order"} \cup Settling => o \in Given
  /\ pc[s] \in {"find_matching", "get_order"} \cup Settling =>
       Covered(o, settled.users[o.userID])

HoldsMatch(s) ==
  /\ pc[s] = "get_order" =>
       found[s] \in DOMAIN orders /\ Compatible(ord[s], orders[found[s]])
  /\ pc[s] \in Settling \cup Refunding =>
       found[s] \in DOMAIN settled.book /\ settled.book[found[s]] = Order1(match[s])
  /\ pc[s] \in Settling => Compatible(ord[s], match[s])
  /\ pc[s] \in {"update_counterparty", "cancel_update_user"} =>
       wal[s] = users[match[s].userID]

\* What a trade or a cancellation has made so far of the tables it found.
HasWritten(s) ==
  LET o == Order1(ord[s])
      m == Order1(match[s])
      us == settled.users
      n == settled.lastID
      b == settled.book
      h == settled.archives
  IN
  /\ pc[s] = "archive_order" => Snapshot = Tables(us, n, b, Append(h, m))
  /\ pc[s] = "update_self" => Snapshot = Tables(us, n, b, h \o <<m, o>>)
  /\ pc[s] \in {"get_counterparty", "update_counterparty"} =>
       Snapshot = Tables(WithWallet(us, o.userID, TakerWallet(o, m, us[o.userID])), n, b,
                         h \o <<m, o>>)
  /\ pc[s] = "settle_matched" => Snapshot = Tables(Trade(us, o, m), n, b, h \o <<m, o>>)
  /\ pc[s] = "cancel_delete" =>
       Snapshot = Tables(WithWallet(us, m.userID, Refund(m, us[m.userID])), n, b, h)

\* And the insertion of an order or of a rest.
HasInserted(s) ==
  /\ pc[s] \in {"insert_get_user", "insert_order"} => Unposted(s, Snapshot)
  /\ pc[s] = "insert_update_user" =>
       \E t : /\ Unposted(s, t)
              /\ Snapshot = Tables(t.users, t.lastID + 1,
                                   Added(t.book, t.lastID + 1, Order1(ord[s])), t.archives)

StageOf(s) ==
  AsFound(s) /\ HoldsGiven(s) /\ HoldsMatch(s) /\ HasWritten(s) /\ HasInserted(s)

\* Until a statement has failed, the tables are what the last commands have left
\* and what the one under way has made of them.
StageInv ==
  faults = 0 =>
    /\ Quiet => settled = Snapshot
    /\ \A s \in Sessions : MoneyOf(s) /\ StageOf(s)

SettleInv == Steady /\ SettledOK /\ StageInv

\* What buy and sell are given is a row.
LEMMA GivenRow == Given \subseteq Row
  BY MarketAssumption DEF Given, AbstractExchange!Orders, Row, Sides

\* The parts of the snapshot.
SnapshotOK ==
  /\ Snapshot = [users |-> Snapshot.users, lastID |-> Snapshot.lastID,
                 book |-> Snapshot.book, archives |-> Snapshot.archives]
  /\ Snapshot.users = users /\ Snapshot.lastID = orderSeq
  /\ Snapshot.book = Untimed(orders) /\ Snapshot.archives = Untimed(archives)
  /\ DOMAIN Untimed(orders) = DOMAIN orders
  /\ \A i \in DOMAIN orders : /\ Untimed(orders)[i] = Order1(orders[i])
                              /\ Order1(orders[i]) \in Row
  /\ Untimed(archives) \in Seq(Bare)

\* The snapshot of tables of their types.
LEMMA SnapshotType == TypeOK => SnapshotOK
<1> SUFFICES ASSUME TypeOK
             PROVE  SnapshotOK
  OBVIOUS
<1>1. \A i \in DOMAIN orders : orders[i] \in Order /\ orders[i].userID \in Users
  BY DEF TypeOK, TablesOK
<1>2. archives \in Seq(Order)
  BY DEF TypeOK, TablesOK
<1> QED
  BY <1>1, <1>2, BareRow, UntimedSeq DEF SnapshotOK, Snapshot, Untimed

\* settled is always a snapshot.
LEMMA SettledOKStep ==
  ASSUME TypeOK', SettledOK, settled' = settled \/ settled' = Snapshot'
  PROVE  SettledOK'
<1>1. CASE settled' = settled
  BY <1>1 DEF SettledOK
<1>2. CASE settled' = Snapshot'
  <2>1. SnapshotOK'
    BY SnapshotType, PTL
  <2>2. users' \in [Users -> Wallet] /\ orderSeq' \in Nat
    BY DEF TypeOK, TablesOK
  <2>3. Untimed(orders') = [i \in DOMAIN Untimed(orders') |-> Untimed(orders')[i]]
    BY DEF Untimed
  <2> QED
    BY <1>2, <2>1, <2>2, <2>3 DEF SettledOK, SnapshotOK
<1> QED
  BY <1>1, <1>2

\* A step that writes no table.
LEMMA SnapshotStays == UNCHANGED <<users, orders, orderSeq, archives>> => Snapshot' = Snapshot
  BY DEF Snapshot

\* What is known of a session before it makes a step.
LEMMA SessionFacts ==
  ASSUME SettleInv, faults = 0, NEW s \in Sessions
  PROVE  /\ ord[s] \in Order /\ match[s] \in Order /\ user[s] \in Users
         /\ HasOrder(pc[s]) => ord[s].userID = user[s]
         /\ HasMatch(pc[s]) => match[s].userID \in Users
         /\ pc[s] \in Settling => found[s] \in DOMAIN orders /\ orders[found[s]] = match[s]
         /\ MoneyOf(s) /\ StageOf(s)
         /\ TypeOK /\ SnapshotOK
         /\ users \in [Users -> Wallet] /\ archives \in Seq(Order)
         /\ DOMAIN orders \subseteq 1..orderSeq /\ orderSeq \in Nat
         /\ \A i \in DOMAIN orders : orders[i] \in Order
  BY SnapshotType DEF SettleInv, Steady, StageInv, Snap, TypeOK, TablesOK, LocalsOK

\* The command is given, its user is looked up and an order is searched for it.
LEMMA StartStage ==
  ASSUME SettleInv, faults = 0, settled' = settled, NEW s \in Sessions,
         \/ Issue(s) \/ IssueCancel(s) \/ GetUser(s) \/ FindMatching(s) \/ GetOrder(s),
         OneAtATime', pc'[s] # "idle"
  PROVE  StageOf(s)'
<1> USE DEF TypeOK, LocalsOK, At, Goto
<1>1. /\ ord[s] \in Order /\ match[s] \in Order /\ user[s] \in Users
      /\ StageOf(s) /\ TypeOK /\ SnapshotOK
  BY SessionFacts
<1>2. UNCHANGED tables /\ Snapshot' = Snapshot
  <2>1. UNCHANGED tables
    BY DEF Issue, IssueCancel, GetUser, FindMatching, GetOrder
  <2> QED
    BY <2>1, SnapshotStays DEF tables
<1>3. CASE Issue(s) \/ IssueCancel(s)
  <2>1. Quiet
    <3>1. ASSUME NEW t \in Sessions, t # s
          PROVE  pc[t] = "idle"
      <4>1. Acts(s)
        BY <1>3 DEF Acts
      <4>2. pc'[t] = "idle"
        BY <1>1, <3>1, <4>1, OthersIdle DEF SettleInv, Steady
      <4> QED
        BY <1>1, <3>1, <4>1, <4>2, OthersStay
    <3> QED
      BY <1>3, <3>1 DEF Quiet, Issue, IssueCancel
  <2>2. settled' = Snapshot'
    BY <1>2, <2>1 DEF SettleInv, StageInv
  <2>3. CASE Issue(s)
    <3>1. pc'[s] = "get_user"
      BY <1>1, <2>3 DEF Issue
    <3>2. Order1(ord'[s]) \in Given
      <4>1. PICK c \in Items, d \in Sides, q \in Quantities, p \in Prices :
              ord' = [ord EXCEPT ![s] =
                        [item |-> c, side |-> d, quantity |-> q, unitPrice |-> p,
                         userID |-> user[s], created_at |-> 0]]
        BY <2>3 DEF Issue
      <4>2. Order1(ord'[s]) = [item |-> c, side |-> d, quantity |-> q, unitPrice |-> p,
                               userID |-> user[s]]
        BY <1>1, <4>1 DEF Order1
      <4> QED
        BY <1>1, <4>2 DEF Given, AbstractExchange!Orders, Sides
    <3> QED
      BY <2>2, <3>1, <3>2 DEF StageOf, AsFound, HoldsGiven, HoldsMatch, HasWritten,
                              HasInserted, Settling, Refunding, Cancelling
  <2>4. CASE IssueCancel(s)
    <3>1. pc'[s] = "cancel_get_order"
      BY <1>1, <2>4 DEF IssueCancel
    <3> QED
      BY <2>2, <3>1 DEF StageOf, AsFound, HoldsGiven, HoldsMatch, HasWritten,
                        HasInserted, Settling, Refunding, Cancelling
  <2> QED
    BY <1>3, <2>3, <2>4
<1>4. CASE GetUser(s)
  <2>1. pc'[s] = "find_matching" /\ pc[s] = "get_user" /\ ord' = ord
    BY <1>1, <1>4 DEF GetUser, Return, ReadWallet
  <2>2. Snapshot = settled /\ Order1(ord[s]) \in Given
    BY <1>1, <2>1 DEF StageOf, AsFound, HoldsGiven, Unwritten
  <2>3. Covered(ord[s], users[user[s]]) /\ ord[s].userID = user[s]
    BY <1>1, <1>4, <2>1, SessionFacts DEF GetUser, Return, HasOrder, Cancelling
  <2>4. Covered(Order1(ord[s]), settled.users[Order1(ord[s]).userID])
    <3>1. Order1(ord[s]).userID = user[s] /\ settled.users = users
      BY <1>1, <2>2, <2>3, BareType DEF SnapshotOK
    <3>2. Covered(Order1(ord[s]), users[user[s]])
      BY <1>1, <2>3, UntimedMoney
    <3> QED
      BY <3>1, <3>2
  <2> QED
    BY <1>2, <2>1, <2>2, <2>4 DEF StageOf, AsFound, HoldsGiven, HoldsMatch, HasWritten,
                            HasInserted, Settling, Refunding, Cancelling
<1>5. CASE FindMatching(s)
  <2>1. pc[s] = "find_matching" /\ UNCHANGED <<ord, orders>>
    BY <1>5 DEF FindMatching, tables
  <2>2. /\ Snapshot = settled /\ Order1(ord[s]) \in Given
        /\ Covered(Order1(ord[s]), settled.users[Order1(ord[s]).userID])
    BY <1>1, <2>1 DEF StageOf, AsFound, HoldsGiven, Unwritten
  <2>3. CASE Goto(s, "get_order") /\ \E id \in Matching(ord[s]) : found' = [found EXCEPT ![s] = id]
    <3>1. pc'[s] = "get_order" /\ found'[s] \in Matching(ord[s])
      BY <1>1, <2>3
    <3>2. found'[s] \in DOMAIN orders /\ Compatible(ord[s], orders[found'[s]])
      BY <1>1, <3>1, MatchingOldest
    <3> QED
      BY <1>2, <2>1, <2>2, <3>1, <3>2 DEF StageOf, AsFound, HoldsGiven, HoldsMatch,
         HasWritten, HasInserted, Settling, Refunding, Cancelling
  <2>4. CASE Goto(s, "insert_get_user") /\ found' = [found EXCEPT ![s] = NoMatch]
    <3>1. pc'[s] = "insert_get_user" /\ found'[s] = NoMatch
      BY <1>1, <2>4
    <3>2. Unposted(s, Snapshot)'
      BY <1>2, <2>1, <2>2, <3>1 DEF Unposted, Given
    <3> QED
      BY <3>1, <3>2 DEF StageOf, AsFound, HoldsGiven, HoldsMatch, HasWritten,
                        HasInserted, Settling, Refunding, Cancelling, Unwritten
  <2> QED
    BY <1>5, <2>3, <2>4 DEF FindMatching
<1>6. CASE GetOrder(s)
  <2>1. pc[s] = "get_order" /\ TakeMatch(s)
    BY <1>1, <1>6 DEF GetOrder, Return
  <2>2. /\ pc'[s] = "archive_matched" /\ found[s] \in DOMAIN orders
        /\ match'[s] = orders[found[s]] /\ found' = found
        /\ ord'[s] = [ord[s] EXCEPT !.created_at = now]
    BY <1>1, <2>1 DEF TakeMatch
  <2>3. /\ Snapshot = settled /\ Order1(ord[s]) \in Given
        /\ Covered(Order1(ord[s]), settled.users[Order1(ord[s]).userID])
        /\ Compatible(ord[s], orders[found[s]])
    BY <1>1, <2>1 DEF StageOf, AsFound, HoldsGiven, HoldsMatch, Unwritten
  <2>4. Order1(ord'[s]) = Order1(ord[s])
    BY <1>1, <2>2 DEF Order1, Order
  <2>5. Compatible(ord'[s], match'[s])
    BY <1>1, <2>2, <2>3, CompatibleTerms DEF Order
  <2>6. found'[s] \in DOMAIN settled'.book /\ settled'.book[found'[s]] = Order1(match'[s])
    BY <1>1, <2>2, <2>3 DEF SnapshotOK
  <2>7. Snapshot' = settled'
    BY <1>2, <2>3
  <2> QED
    BY <2>2, <2>3, <2>4, <2>5, <2>6, <2>7 DEF StageOf, AsFound, HoldsGiven, HoldsMatch,
         HasWritten, HasInserted, Settling, Refunding, Cancelling
<1> QED
  BY <1>3, <1>4, <1>5, <1>6

\* The trade is archived, paid and settled.
LEMMA TradeStage ==
  ASSUME SettleInv, faults = 0, settled' = settled, NEW s \in Sessions,
         \/ ArchiveMatched(s) \/ ArchiveOrder(s) \/ UpdateSelf(s)
         \/ GetCounterparty(s) \/ UpdateCounterparty(s)
  PROVE  StageOf(s)'
<1> USE DEF TypeOK, LocalsOK, At, Goto
<1> DEFINE o == Order1(ord[s])
           m == Order1(match[s])
           us == settled.users
           n == settled.lastID
           b == settled.book
           h == settled.archives
<1>1. /\ ord[s] \in Order /\ match[s] \in Order /\ user[s] \in Users
      /\ StageOf(s) /\ MoneyOf(s) /\ TypeOK
      /\ users \in [Users -> Wallet] /\ archives \in Seq(Order)
  BY SessionFacts
<1>2. pc[s] \in Settling /\ HasOrder(pc[s]) /\ HasMatch(pc[s])
  BY DEF ArchiveMatched, ArchiveOrder, UpdateSelf, GetCounterparty, UpdateCounterparty,
         Settling, HasOrder, HasMatch, Cancelling
<1>3. UNCHANGED <<ord, found, match, user, orders, orderSeq>>
  BY DEF ArchiveMatched, ArchiveOrder, UpdateSelf, GetCounterparty, UpdateCounterparty,
         ReadWallet, locals, tables
<1>4. /\ o \in Given /\ found[s] \in DOMAIN b /\ b[found[s]] = m
      /\ Covered(o, us[o.userID])
      /\ Compatible(ord[s], match[s])
  BY <1>1, <1>2 DEF StageOf, HoldsGiven, HoldsMatch
<1>5. /\ o \in Bare /\ m \in Bare /\ o.userID = ord[s].userID /\ m.userID = match[s].userID
      /\ ord[s].userID = user[s] /\ match[s].userID \in Users
  BY <1>1, <1>2, BareType, SessionFacts
<1>6. h \in Seq(Bare) /\ us \in [Users -> Wallet]
  BY DEF SettleInv, SettledOK
<1>7. settled = Tables(us, n, b, h)
  BY DEF SettleInv, SettledOK, Tables
<1>8. user[s] # match[s].userID
  BY <1>4, <1>5 DEF Compatible
<1> HIDE DEF o, m, us, n, b, h
\* What remains to be shown, when s goes to label l of a trade.
<1>9. ASSUME pc'[s] \in Settling \ {"archive_matched"}, HasWritten(s)',
             pc'[s] = "update_counterparty" => wal'[s] = users'[match[s].userID]
      PROVE  StageOf(s)'
  BY <1>3, <1>4, <1>9 DEF StageOf, AsFound, HoldsGiven, HoldsMatch, HasInserted, Settling,
       Refunding, Cancelling, Unwritten, us, b, o, m
<1>10. CASE ArchiveMatched(s)
  <2>1. /\ pc[s] = "archive_matched" /\ pc'[s] = "archive_order" /\ users' = users
        /\ archives' = Append(archives, match[s])
    BY <1>1, <1>10 DEF ArchiveMatched, InsertArchive
  <2>2. Snapshot = Tables(us, n, b, h)
    BY <1>1, <1>7, <2>1 DEF StageOf, AsFound, Unwritten
  <2>3. /\ users = us /\ orderSeq = n /\ Untimed(orders) = b /\ Untimed(archives) = h
    BY <2>2, TablesAre
  <2>4. Untimed(archives') = Append(h, m)
    BY <1>1, <2>1, <2>3, UntimedAppend DEF m
  <2>5. Snapshot' = Tables(us, n, b, Append(h, m))
    BY <1>3, <2>1, <2>3, <2>4, SnapshotTables
  <2>6. HasWritten(s)'
    BY <1>3, <2>1, <2>5 DEF HasWritten, us, n, b, h, m
  <2> QED
    BY <1>9, <2>1, <2>6 DEF Settling
<1>11. CASE ArchiveOrder(s)
  <2>1. /\ pc[s] = "archive_order" /\ pc'[s] = "update_self" /\ users' = users
        /\ archives' = Append(archives, ord[s])
    BY <1>1, <1>11 DEF ArchiveOrder, InsertArchive
  <2>2. Snapshot = Tables(us, n, b, Append(h, m))
    BY <1>1, <2>1 DEF StageOf, HasWritten, us, n, b, h, m
  <2>3. /\ users = us /\ orderSeq = n /\ Untimed(orders) = b
        /\ Untimed(archives) = Append(h, m)
    BY <2>2, TablesAre
  <2>4. Untimed(archives') = Append(Append(h, m), o)
    BY <1>1, <2>1, <2>3, UntimedAppend DEF o
  <2>5. Append(Append(h, m), o) = h \o <<m, o>>
    BY <1>5, <1>6, PairAppended
  <2>6. Snapshot' = Tables(us, n, b, h \o <<m, o>>)
    BY <1>3, <2>1, <2>3, <2>4, <2>5, SnapshotTables
  <2>7. HasWritten(s)'
    BY <1>3, <2>1, <2>6 DEF HasWritten, us, n, b, h, m, o
  <2> QED
    BY <1>9, <2>1, <2>7 DEF Settling
<1>12. CASE UpdateSelf(s)
  <2>1. /\ pc[s] = "update_self" /\ pc'[s] = "get_counterparty" /\ archives' = archives
        /\ UpdateUserBalance(user[s], TakerWallet(ord[s], match[s], wal[s]))
    BY <1>1, <1>12 DEF UpdateSelf
  <2>2. Snapshot = Tables(us, n, b, h \o <<m, o>>)
    BY <1>1, <2>1 DEF StageOf, HasWritten, us, n, b, h, m, o
  <2>3. /\ users = us /\ orderSeq = n /\ Untimed(orders) = b
        /\ Untimed(archives) = h \o <<m, o>>
    BY <2>2, TablesAre
  <2>4. wal[s] = us[o.userID]
    BY <1>1, <1>5, <2>1, <2>3 DEF MoneyOf, Checked
  <2>5. users' = WithWallet(us, o.userID, TakerWallet(o, m, us[o.userID]))
    <3>1. TakerWallet(o, m, wal[s]) = TakerWallet(ord[s], match[s], wal[s])
      BY <1>1, UntimedMoney DEF o, m
    <3> QED
      BY <1>1, <1>5, <2>1, <2>3, <2>4, <3>1, UpdateIsWritten
  <2>6. Snapshot' = Tables(WithWallet(us, o.userID, TakerWallet(o, m, us[o.userID])), n, b,
                           h \o <<m, o>>)
    BY <1>3, <2>1, <2>3, <2>5, SnapshotTables
  <2>7. HasWritten(s)'
    BY <1>3, <2>1, <2>6 DEF HasWritten, us, n, b, h, m, o
  <2> QED
    BY <1>9, <2>1, <2>7 DEF Settling
<1>13. CASE GetCounterparty(s)
  <2>1. /\ pc[s] = "get_counterparty" /\ pc'[s] = "update_counterparty"
        /\ UNCHANGED <<users, archives>> /\ wal'[s] = users[match[s].userID]
    BY <1>1, <1>13 DEF GetCounterparty, ReadWallet, tables
  <2>2. Snapshot' = Snapshot
    BY <1>3, <2>1, SnapshotStays
  <2>3. HasWritten(s)'
    BY <1>1, <1>3, <2>1, <2>2 DEF StageOf, HasWritten
  <2> QED
    BY <1>9, <2>1, <2>3 DEF Settling
<1>14. CASE UpdateCounterparty(s)
  <2>1. /\ pc[s] = "update_counterparty" /\ pc'[s] = "settle_matched" /\ archives' = archives
        /\ UpdateUserBalance(match[s].userID, MakerWallet(ord[s], match[s], wal[s]))
    BY <1>1, <1>14 DEF UpdateCounterparty
  <2> DEFINE w == TakerWallet(o, m, us[o.userID])
  <2>2. Snapshot = Tables(WithWallet(us, o.userID, w), n, b, h \o <<m, o>>)
    BY <1>1, <2>1 DEF StageOf, HasWritten, us, n, b, h, m, o
  <2>3. /\ users = WithWallet(us, o.userID, w) /\ orderSeq = n /\ Untimed(orders) = b
        /\ Untimed(archives) = h \o <<m, o>>
    BY <2>2, TablesAre
  <2>4. wal[s] = us[m.userID]
    <3>1. wal[s] = users[match[s].userID]
      BY <1>1, <2>1 DEF StageOf, HoldsMatch
    <3>2. WithWallet(us, o.userID, w)[m.userID] = us[m.userID]
      BY <1>5, <1>6, <1>8 DEF WithWallet
    <3> QED
      BY <1>5, <2>3, <3>1, <3>2
  <2>5. users' = WithWallet(users, m.userID, MakerWallet(o, m, us[m.userID]))
    <3>1. MakerWallet(o, m, wal[s]) = MakerWallet(ord[s], match[s], wal[s])
      BY <1>1, UntimedMoney DEF o, m
    <3> QED
      BY <1>1, <1>5, <2>1, <2>4, <3>1, UpdateIsWritten
  <2>6. users' = Trade(us, o, m)
    BY <2>3, <2>5 DEF Trade
  <2>7. Snapshot' = Tables(Trade(us, o, m), n, b, h \o <<m, o>>)
    BY <1>3, <2>1, <2>3, <2>6, SnapshotTables
  <2>8. HasWritten(s)'
    BY <1>3, <2>1, <2>7 DEF HasWritten, us, n, b, h, m, o
  <2> QED
    BY <1>9, <2>1, <2>8 DEF Settling
<1> QED
  BY <1>10, <1>11, <1>12, <1>13, <1>14

\* An order is looked up for its cancellation and refunded.
LEMMA CancelStage ==
  ASSUME SettleInv, faults = 0, settled' = settled, NEW s \in Sessions,
         CancelGetOrder(s) \/ CancelGetUser(s) \/ CancelUpdateUser(s), pc'[s] # "idle"
  PROVE  StageOf(s)'
<1> USE DEF TypeOK, LocalsOK, At, Goto
<1> DEFINE m == Order1(match[s])
           us == settled.users
           n == settled.lastID
           b == settled.book
           h == settled.archives
<1>1. /\ match[s] \in Order /\ user[s] \in Users /\ StageOf(s) /\ TypeOK /\ SnapshotOK
      /\ users \in [Users -> Wallet]
  BY SessionFacts
<1>2. Snapshot = settled
  BY <1>1 DEF StageOf, AsFound, Unwritten, Cancelling, CancelGetOrder, CancelGetUser,
              CancelUpdateUser
<1>3. CASE CancelGetOrder(s)
  <2>1. OwnOrder(s) /\ match' = [match EXCEPT ![s] = orders[found[s]]]
        /\ pc'[s] = "cancel_get_user" /\ found' = found /\ UNCHANGED tables
    BY <1>1, <1>3 DEF CancelGetOrder, Return
  <2>2. Snapshot' = settled'
    BY <1>2, <2>1, SnapshotStays DEF tables
  <2>3. found[s] \in DOMAIN b /\ b[found[s]] = Order1(match'[s])
    BY <1>1, <1>2, <2>1 DEF OwnOrder, SnapshotOK
  <2> QED
    BY <2>1, <2>2, <2>3 DEF StageOf, AsFound, HoldsGiven, HoldsMatch, HasWritten,
         HasInserted, Settling, Refunding, Cancelling
<1>4. CASE CancelGetUser(s)
  <2>1. /\ pc[s] = "cancel_get_user" /\ pc'[s] = "cancel_update_user"
        /\ wal'[s] = users[match[s].userID] /\ UNCHANGED <<tables, users, found, match>>
    BY <1>1, <1>4 DEF CancelGetUser, ReadWallet, tables
  <2>2. Snapshot' = settled'
    BY <1>2, <2>1, SnapshotStays DEF tables
  <2>3. found[s] \in DOMAIN b /\ b[found[s]] = m
    BY <1>1, <2>1 DEF StageOf, HoldsMatch, Refunding, Cancelling
  <2> QED
    BY <2>1, <2>2, <2>3 DEF StageOf, AsFound, HoldsGiven, HoldsMatch, HasWritten,
         HasInserted, Settling, Refunding, Cancelling
<1>5. CASE CancelUpdateUser(s)
  <2>1. /\ pc[s] = "cancel_update_user" /\ pc'[s] = "cancel_delete"
        /\ UNCHANGED <<orders, orderSeq, archives, found, match>>
        /\ UpdateUserBalance(match[s].userID, Refund(match[s], wal[s]))
    BY <1>1, <1>5 DEF CancelUpdateUser, locals
  <2>2. found[s] \in DOMAIN b /\ b[found[s]] = m /\ wal[s] = users[match[s].userID]
    BY <1>1, <2>1 DEF StageOf, HoldsMatch, Refunding, Cancelling
  <2>3. settled = Tables(us, n, b, h)
    BY DEF SettleInv, SettledOK, Tables
  <2> HIDE DEF us, n, b, h
  <2>4. users = us /\ orderSeq = n /\ Untimed(orders) = b /\ Untimed(archives) = h
    BY <1>2, <2>3, TablesAre
  <2>5. m.userID = match[s].userID /\ Refund(m, wal[s]) = Refund(match[s], wal[s])
    BY <1>1, BareType, UntimedMoney
  <2> HIDE DEF m
  <2>6. users' = WithWallet(us, m.userID, Refund(m, us[m.userID]))
    BY <1>1, <2>1, <2>2, <2>4, <2>5, UpdateIsWritten
  <2>7. Snapshot' = Tables(WithWallet(us, m.userID, Refund(m, us[m.userID])), n, b, h)
    BY <2>1, <2>4, <2>6, SnapshotTables
  <2> QED
    BY <2>1, <2>2, <2>7 DEF StageOf, AsFound, HoldsGiven, HoldsMatch, HasWritten,
         HasInserted, Settling, Refunding, Cancelling, Unwritten, us, n, b, h, m
<1> QED
  BY <1>3, <1>4, <1>5

\* What a trade that is paid makes of the tables by writing back the matched order.
LEMMA TradeEnds ==
  ASSUME SettleInv, faults = 0, NEW s \in Sessions, SettleMatched(s)
  PROVE  LET o == Order1(ord[s])
             i == found[s]
         IN  /\ o \in Given /\ i \in DOMAIN settled.book /\ i # NoMatch
             /\ Covered(o, settled.users[o.userID])
             /\ settled.book[i] = Order1(match[s])
             /\ AbstractExchange!Fits(o, settled.book[i])
             /\ TxQuantity(o, settled.book[i]) = TxQuantity(ord[s], match[s])
             /\ Snapshot' = AfterTrade(settled, o, i)
<1> DEFINE o == Order1(ord[s])
           i == found[s]
           m == Order1(match[s])
           k == TxQuantity(ord[s], match[s])
           us == settled.users
           n == settled.lastID
           b == settled.book
           h == settled.archives
<1>1. pc[s] = "settle_matched" /\ pc[s] \in Settling /\ UNCHANGED <<users, orderSeq, archives>>
      /\ WriteBack(i, Less(match[s], k))
  BY DEF SettleMatched, At, Settling
<1>2. /\ ord[s] \in Order /\ match[s] \in Order /\ StageOf(s) /\ TypeOK
      /\ i \in DOMAIN orders /\ orders[i] = match[s]
      /\ DOMAIN orders \subseteq 1..orderSeq /\ orderSeq \in Nat
  BY <1>1, SessionFacts
<1>3. /\ o \in Given /\ i \in DOMAIN b /\ b[i] = m /\ Compatible(ord[s], match[s])
      /\ Covered(o, us[o.userID])
  BY <1>1, <1>2 DEF StageOf, HoldsGiven, HoldsMatch
<1>4. AbstractExchange!Fits(o, m) /\ TxQuantity(o, m) = k
  BY <1>2, <1>3, UntimedMoney
<1>5. Snapshot = Tables(Trade(us, o, m), n, b, h \o <<m, o>>)
  BY <1>1, <1>2 DEF StageOf, HasWritten
<1>6. i # NoMatch
  BY <1>2 DEF NoMatch
<1>7. k \in Int
  BY <1>2 DEF TxQuantity, Order
<1> HIDE DEF o, i, m, k, us, n, b, h
<1>8. /\ users = Trade(us, o, m) /\ orderSeq = n /\ Untimed(orders) = b
      /\ Untimed(archives) = h \o <<m, o>>
  BY <1>5, TablesAre
<1>9. Untimed(orders') = Taken(b, i, k)
  BY <1>1, <1>2, <1>7, <1>8, UntimedWriteBack
<1>10. Snapshot' = Tables(Trade(us, o, m), n, Taken(b, i, k), h \o <<m, o>>)
  BY <1>1, <1>8, <1>9, SnapshotTables
<1>11. AfterTrade(settled, o, i) = Tables(Trade(us, o, m), n, Taken(b, i, k), h \o <<m, o>>)
  BY <1>3, <1>4 DEF AfterTrade, Tables, us, n, b, h
<1> QED
  BY <1>3, <1>4, <1>6, <1>10, <1>11 DEF o, i, m, k, us, b

\* The rest of an order, or the whole of it, comes to rest.
LEMMA InsertStage ==
  ASSUME SettleInv, faults = 0, settled' = settled, NEW s \in Sessions,
         SettleMatched(s) \/ InsertGetUser(s) \/ InsertOrder(s), pc'[s] # "idle"
  PROVE  StageOf(s)'
<1> USE DEF TypeOK, LocalsOK, At, Goto
<1>1. /\ ord[s] \in Order /\ match[s] \in Order /\ user[s] \in Users /\ StageOf(s)
      /\ TypeOK /\ SnapshotOK
  BY SessionFacts
<1>2. CASE SettleMatched(s)
  <2> DEFINE o == Order1(ord[s])
             k == TxQuantity(ord[s], match[s])
  <2>1. /\ pc'[s] = "insert_get_user" /\ ord[s].quantity > k /\ found' = found
        /\ ord'[s] = Less(ord[s], k)
    BY <1>1, <1>2 DEF SettleMatched, Return
  <2>2. k \in Int /\ ord[s].quantity \in Int
    BY <1>1 DEF TxQuantity, Order
  <2>3. o.quantity = ord[s].quantity /\ Order1(ord'[s]) = Less(o, k)
    <3> HIDE DEF k
    <3>1. Order1(Less(ord[s], k)) = Less(o, k)
      BY <1>1, <2>2, UntimedMoney
    <3> QED
      BY <1>1, <2>1, <3>1, BareType
  <2>4. o.quantity # k
    BY <2>1, <2>2, <2>3
  <2>5. /\ o \in Given /\ found[s] \in DOMAIN settled.book /\ found[s] # NoMatch
        /\ Covered(o, settled.users[o.userID])
        /\ AbstractExchange!Fits(o, settled.book[found[s]])
        /\ TxQuantity(o, settled.book[found[s]]) = k
        /\ Snapshot' = AfterTrade(settled, o, found[s])
    BY <1>2, TradeEnds
  <2> HIDE DEF o, k
  <2>6. Unposted(s, Snapshot)'
    BY <2>1, <2>3, <2>4, <2>5 DEF Unposted, Given
  <2> QED
    BY <2>1, <2>6 DEF StageOf, AsFound, HoldsGiven, HoldsMatch, HasWritten, HasInserted,
                      Settling, Refunding, Cancelling, Unwritten
<1>3. CASE InsertGetUser(s)
  <2>1. /\ pc[s] = "insert_get_user" /\ pc'[s] = "insert_order"
        /\ UNCHANGED <<ord, found, tables>>
    BY <1>1, <1>3 DEF InsertGetUser, InsertFails, Return, ReadWallet
  <2>2. Unposted(s, Snapshot) /\ Snapshot' = Snapshot
    BY <1>1, <2>1, SnapshotStays DEF StageOf, HasInserted, tables
  <2>3. Unposted(s, Snapshot)'
    BY <2>1, <2>2 DEF Unposted
  <2> QED
    BY <2>1, <2>3 DEF StageOf, AsFound, HoldsGiven, HoldsMatch, HasWritten, HasInserted,
                      Settling, Refunding, Cancelling, Unwritten
<1>4. CASE InsertOrder(s)
  <2>1. /\ pc[s] = "insert_order" /\ pc'[s] = "insert_update_user"
        /\ UNCHANGED <<users, archives, ord, found>> /\ InsertRow(ord[s])
    BY <1>1, <1>4 DEF InsertOrder, locals
  <2> DEFINE r == Order1(ord[s])
  <2>2. PICK t : t = Snapshot
    OBVIOUS
  <2>3. Unposted(s, t)
    BY <1>1, <2>1, <2>2 DEF StageOf, HasInserted
  <2>4. /\ t.users = users /\ t.lastID = orderSeq /\ t.book = Untimed(orders)
        /\ t.archives = Untimed(archives)
    BY <1>1, <2>2 DEF SnapshotOK
  <2>5. orderSeq' = t.lastID + 1 /\ Untimed(orders') = Added(t.book, t.lastID + 1, r)
    BY <1>1, <2>1, <2>4, UntimedInsert
  <2> HIDE DEF r
  <2>6. Snapshot' = Tables(t.users, t.lastID + 1, Added(t.book, t.lastID + 1, r), t.archives)
    BY <2>1, <2>4, <2>5, SnapshotTables
  <2>7. \E x : /\ Unposted(s, x)'
               /\ Snapshot' = Tables(x.users, x.lastID + 1,
                                     Added(x.book, x.lastID + 1, Order1(ord'[s])), x.archives)
    BY <2>1, <2>3, <2>6 DEF Unposted, r
  <2> QED
    BY <2>1, <2>7 DEF StageOf, AsFound, HoldsGiven, HoldsMatch, HasWritten, HasInserted,
                      Settling, Refunding, Cancelling, Unwritten
<1> QED
  BY <1>2, <1>3, <1>4

\* What a command has done when it returns: it has posted its order, filled it,
\* withdrawn one, or nothing.
LEMMA CommandEnds ==
  ASSUME SettleInv, faults = 0, NEW s \in Sessions, Step(s), pc'[s] = "idle",
         settled' = Snapshot'
  PROVE  settled' = settled \/ AbstractExchange!Next
<1> USE DEF TypeOK, LocalsOK, At, Goto
<1>1. /\ ord[s] \in Order /\ match[s] \in Order /\ user[s] \in Users
      /\ StageOf(s) /\ MoneyOf(s) /\ TypeOK /\ SnapshotOK
      /\ users \in [Users -> Wallet]
      /\ HasOrder(pc[s]) => ord[s].userID = user[s]
  BY SessionFacts
<1>2. SettledOK
  BY DEF SettleInv
<1> DEFINE r == Order1(ord[s])
<1>3. /\ r \in Bare /\ r.side = ord[s].side /\ r.item = ord[s].item
      /\ r.userID = ord[s].userID /\ r.quantity = ord[s].quantity
      /\ r.unitPrice = ord[s].unitPrice
  BY <1>1, BareType
<1>4. ASSUME UNCHANGED tables, Snapshot = settled
      PROVE  settled' = settled
  BY <1>4, SnapshotStays DEF tables
<1>5. ASSUME NEW o \in Given, NEW i \in DOMAIN settled.book, AbstractExchange!Fill(o, i)
      PROVE  AbstractExchange!Next
  BY <1>5 DEF Given, AbstractExchange!Next
<1>6. ASSUME NEW o \in Given, AbstractExchange!Post(o)
      PROVE  AbstractExchange!Next
  BY <1>6 DEF Given, AbstractExchange!Next
<1>7. CASE GetUser(s) \/ CancelGetOrder(s)
  <2>1. UNCHANGED tables /\ pc[s] \in Unwritten
    BY <1>7 DEF GetUser, CancelGetOrder, Unwritten, Cancelling
  <2> QED
    BY <1>1, <1>4, <2>1 DEF StageOf, AsFound
<1>8. CASE GetOrder(s)
  <2>1. pc[s] = "get_order" /\ UNCHANGED tables
    BY <1>8 DEF GetOrder
  <2> QED
    BY <1>1, <1>4, <2>1 DEF StageOf, AsFound, Unwritten
<1>9. CASE SettleMatched(s)
  <2> DEFINE i == found[s]
             k == TxQuantity(ord[s], match[s])
  <2>1. ord[s].quantity <= k
    BY <1>1, <1>9 DEF SettleMatched
  <2>2. r.quantity = k
    BY <1>1, <1>3, <2>1 DEF TxQuantity, Order
  <2>3. /\ r \in Given /\ i \in DOMAIN settled.book
        /\ Covered(r, settled.users[r.userID])
        /\ AbstractExchange!Fits(r, settled.book[i])
        /\ TxQuantity(r, settled.book[i]) = k
        /\ Snapshot' = AfterTrade(settled, r, i)
    BY <1>9, TradeEnds
  <2> HIDE DEF r, i, k
  <2>4. AbstractExchange!Fill(r, i)
    BY <1>2, <2>2, <2>3, GivenRow, FillStep
  <2> QED
    BY <1>5, <2>3, <2>4
<1>10. CASE InsertGetUser(s)
  <2>1. /\ pc[s] = "insert_get_user" /\ UNCHANGED tables
        /\ ~CanReserve(ord[s], users[user[s]])
    BY <1>1, <1>10 DEF InsertGetUser
  <2>2. r.userID = user[s] /\ ~CanReserve(r, users[user[s]])
    BY <1>1, <1>3, <2>1, UntimedMoney DEF HasOrder, Cancelling
  <2>3. Snapshot' = Snapshot /\ Unposted(s, Snapshot) /\ Snapshot.users = users
    BY <1>1, <2>1, SnapshotStays DEF StageOf, HasInserted, tables, SnapshotOK
  <2>4. CASE Snapshot = settled
    BY <1>4, <2>1, <2>4
  <2>5. CASE Snapshot # settled
    <3>1. PICK o \in Given, i \in DOMAIN settled.book :
            /\ AbstractExchange!Fits(o, settled.book[i])
            /\ Covered(o, settled.users[o.userID])
            /\ r = Less(o, TxQuantity(o, settled.book[i]))
            /\ Snapshot = AfterTrade(settled, o, i)
      BY <2>3, <2>5 DEF Unposted
    <3>2. ~CanReserve(r, AfterTrade(settled, o, i).users[r.userID])
      BY <2>2, <2>3, <3>1
    <3> HIDE DEF r
    <3>3. AbstractExchange!Fill(o, i)
      BY <1>2, <2>3, <3>1, <3>2, GivenRow, FillStep
    <3> QED
      BY <1>5, <3>1, <3>3
  <2> QED
    BY <2>4, <2>5
<1>11. CASE InsertUpdateUser(s)
  <2>1. /\ pc[s] = "insert_update_user" /\ UNCHANGED <<orders, orderSeq, archives>>
        /\ UpdateUserBalance(user[s], Reserve(ord[s], wal[s]))
    BY <1>1, <1>11 DEF InsertUpdateUser
  <2>2. wal[s] = users[user[s]] /\ CanReserve(ord[s], users[user[s]]) /\ r.userID = user[s]
    BY <1>1, <1>3, <2>1 DEF MoneyOf, HasOrder, Cancelling
  <2>3. PICK t : /\ Unposted(s, t)
                 /\ Snapshot = Tables(t.users, t.lastID + 1,
                                      Added(t.book, t.lastID + 1, r), t.archives)
    BY <1>1, <2>1 DEF StageOf, HasInserted
  <2>4. /\ users = t.users /\ orderSeq = t.lastID + 1
        /\ Untimed(orders) = Added(t.book, t.lastID + 1, r) /\ Untimed(archives) = t.archives
    BY <2>3, TablesAre
  <2>5. Reserve(r, wal[s]) = Reserve(ord[s], wal[s])
    BY <1>1, UntimedMoney
  <2> HIDE DEF r
  <2>6. users' = WithWallet(t.users, r.userID, Reserve(r, t.users[r.userID]))
    BY <1>1, <2>1, <2>2, <2>4, <2>5, UpdateIsWritten
  <2>7. settled' = AfterPost(t, r)
    BY <2>1, <2>4, <2>6, SnapshotTables DEF AfterPost, Tables
  <2>10. CanReserve(r, t.users[r.userID])
    BY <1>1, <2>2, <2>4, UntimedMoney DEF r
  <2>8. CASE r \in Given /\ t = settled
    <3>1. AbstractExchange!Post(r)
      BY <1>2, <2>7, <2>8, <2>10, GivenRow, PostStep
    <3> QED
      BY <1>6, <2>8, <3>1
  <2>9. CASE ~(r \in Given /\ t = settled)
    <3>1. PICK o \in Given, i \in DOMAIN settled.book :
            /\ AbstractExchange!Fits(o, settled.book[i])
            /\ Covered(o, settled.users[o.userID])
            /\ o.quantity # TxQuantity(o, settled.book[i])
            /\ r = Less(o, TxQuantity(o, settled.book[i]))
            /\ t = AfterTrade(settled, o, i)
      BY <2>3, <2>9 DEF Unposted, r
    <3>2. AbstractExchange!Fill(o, i)
      BY <1>2, <2>7, <2>10, <3>1, GivenRow, FillStep
    <3> QED
      BY <1>5, <3>1, <3>2
  <2> QED
    BY <2>8, <2>9
<1>12. CASE CancelDelete(s)
  <2> DEFINE i == found[s]
             m == Order1(match[s])
  <2>1. /\ pc[s] = "cancel_delete" /\ UNCHANGED <<users, orderSeq, archives>>
        /\ DeleteOrder(i)
    BY <1>12 DEF CancelDelete
  <2>2. i \in DOMAIN settled.book /\ settled.book[i] = m
    BY <1>1, <2>1 DEF StageOf, HoldsMatch, Refunding, Cancelling
  <2> DEFINE us == WithWallet(settled.users, m.userID, Refund(m, settled.users[m.userID]))
  <2>3. Snapshot = Tables(us, settled.lastID, settled.book, settled.archives)
    BY <1>1, <2>1 DEF StageOf, HasWritten
  <2> HIDE DEF i, m, us
  <2>4. /\ users = us /\ orderSeq = settled.lastID /\ Untimed(orders) = settled.book
        /\ Untimed(archives) = settled.archives
    BY <2>3, TablesAre
  <2>5. Untimed(orders') = Gone(settled.book, i)
    BY <2>1, <2>4, UntimedDelete
  <2>6. settled' = AfterCancel(settled, i)
    BY <2>1, <2>2, <2>4, <2>5, SnapshotTables DEF AfterCancel, Tables, us
  <2>7. AbstractExchange!Withdraw(i)
    BY <1>2, <2>2, <2>6, WithdrawStep
  <2> QED
    BY <2>2, <2>7 DEF AbstractExchange!Next
<1>13. ~FindMatching(s) /\ ~ArchiveMatched(s) /\ ~ArchiveOrder(s) /\ ~UpdateSelf(s)
       /\ ~GetCounterparty(s) /\ ~UpdateCounterparty(s) /\ ~InsertOrder(s)
       /\ ~CancelGetUser(s) /\ ~CancelUpdateUser(s)
  BY <1>1 DEF FindMatching, ArchiveMatched, ArchiveOrder, UpdateSelf, GetCounterparty,
              UpdateCounterparty, InsertOrder, CancelGetUser, CancelUpdateUser
<1> QED
  BY <1>7, <1>8, <1>9, <1>10, <1>11, <1>12, <1>13 DEF Step

-----------------------------------------------------------------------------
(* The marketplace implements Exchange *)

\* A session that waits for its client is at no stage of a command.
LEMMA IdleStage ==
  ASSUME NEW s \in Sessions, pc[s] = "idle"
  PROVE  MoneyOf(s) /\ StageOf(s)
  BY DEF MoneyOf, Checked, Paid, StageOf, AsFound, HoldsGiven, HoldsMatch, HasWritten,
         HasInserted, Settling, Refunding, Cancelling, Unwritten

\* A statement of the command under way that does not end it.
LEMMA StageStep ==
  ASSUME SettleInv, faults = 0, settled' = settled, OneAtATime', NEW s \in Sessions,
         Issue(s) \/ IssueCancel(s) \/ Step(s), pc'[s] # "idle"
  PROVE  MoneyOf(s)' /\ StageOf(s)'
<1>1. ~PrepareFails(s)
  <2>1. faults' = faults /\ faults \in Nat
    BY DEF SettleInv, Steady, TypeOK, Step, Issue, IssueCancel, GetUser, FindMatching,
           GetOrder, ArchiveMatched, ArchiveOrder, UpdateSelf, GetCounterparty,
           UpdateCounterparty, SettleMatched, InsertGetUser, InsertOrder, InsertUpdateUser,
           CancelGetOrder, CancelGetUser, CancelUpdateUser, CancelDelete, bounds
  <2> QED
    BY <2>1 DEF PrepareFails
<1>2. pc[s] \in Settling => Compatible(ord[s], match[s])
  BY SessionFacts DEF StageOf, HoldsMatch
<1>3. MoneyOf(s)'
  BY <1>1, <1>2, MoneyOfStep, SessionFacts DEF Acts, SettleInv, Steady
<1>4. ~InsertUpdateUser(s) /\ ~CancelDelete(s)
  BY DEF InsertUpdateUser, CancelDelete, Return, Goto, SettleInv, Steady, TypeOK, LocalsOK
<1>5. StageOf(s)'
  BY <1>4, StartStage, TradeStage, CancelStage, InsertStage DEF Step
<1> QED
  BY <1>3, <1>5

\* A step that neither ends a command nor moves one along.
LEMMA IdleStep ==
  ASSUME SettleInv, faults = 0, UNCHANGED <<tables, user, pc, locals, ret, faults>>,
         settled' = IF Quiet' /\ faults' = 0 THEN Snapshot' ELSE settled
  PROVE  settled' = settled /\ StageInv'
<1>1. Snapshot' = Snapshot
  BY SnapshotStays DEF tables
<1>2. settled' = settled
  <2>1. Quiet => settled = Snapshot
    BY DEF SettleInv, StageInv
  <2>2. Quiet' <=> Quiet
    BY DEF Quiet, At
  <2> QED
    BY <1>1, <2>1, <2>2
<1>3. ASSUME NEW s \in Sessions
      PROVE  MoneyOf(s)' /\ StageOf(s)'
  <2>1. MoneyOf(s) /\ StageOf(s)
    BY SessionFacts
  <2>2. UNCHANGED <<users, orders, user, pc, ord, found, match, wal>>
    BY DEF tables, locals
  <2>3. MoneyOf(s)'
    BY <2>1, <2>2 DEF MoneyOf, Rest, HasRest
  <2>4. AsFound(s)' /\ HoldsGiven(s)'
    BY <1>1, <1>2, <2>1, <2>2 DEF StageOf, AsFound, HoldsGiven
  <2>5. HoldsMatch(s)'
    BY <1>2, <2>1, <2>2 DEF StageOf, HoldsMatch
  <2>6. HasWritten(s)'
    BY <1>1, <1>2, <2>1, <2>2 DEF StageOf, HasWritten
  <2>7. \A t : Unposted(s, t) => Unposted(s, t)'
    BY <1>2, <2>2 DEF Unposted
  <2>8. HasInserted(s)'
    BY <1>1, <2>1, <2>2, <2>7 DEF StageOf, HasInserted
  <2> QED
    BY <2>3, <2>4, <2>5, <2>6, <2>8 DEF StageOf
<1>4. Quiet' => settled' = Snapshot'
  <2>1. Quiet' <=> Quiet
    BY DEF Quiet, At
  <2> QED
    BY <1>1, <1>2, <2>1 DEF SettleInv, StageInv
<1> QED
  BY <1>2, <1>3, <1>4 DEF StageInv

\* Every step of the marketplace is a step of Exchange or leaves its tables alone.
LEMMA SettleStep ==
  ASSUME SettleInv, [SettledNext]_<<vars, settled>>
  PROVE  /\ SettleInv'
         /\ [AbstractExchange!Next]_AbstractExchange!vars
<1> USE DEF TypeOK, LocalsOK, At
<1>1. ASSUME settled' = settled
      PROVE  UNCHANGED AbstractExchange!vars
  BY <1>1 DEF AbstractExchange!vars
<1>2. Steady'
  BY SteadyStep DEF SettleInv, SettledNext
<1>3. SettledOK'
  <2>1. settled' = settled \/ settled' = Snapshot'
    BY DEF SettledNext
  <2> QED
    BY <1>2, <2>1, SettledOKStep DEF SettleInv, Steady
<1>4. CASE UNCHANGED <<vars, settled>> /\ faults = 0
  <2>1. UNCHANGED <<tables, user, pc, locals, ret, faults, settled>>
    BY <1>4 DEF vars, bounds
  <2>2. settled' = IF Quiet' /\ faults' = 0 THEN Snapshot' ELSE settled
    <3>1. Quiet => settled = Snapshot
      BY <1>4 DEF SettleInv, StageInv
    <3>2. Quiet' <=> Quiet
      BY <2>1 DEF Quiet
    <3>3. Snapshot' = Snapshot
      BY <2>1, SnapshotStays DEF tables
    <3> QED
      BY <2>1, <3>1, <3>2, <3>3
  <2>3. StageInv'
    BY <1>4, <2>1, <2>2, IdleStep
  <2> QED
    BY <1>1, <1>2, <1>3, <2>1, <2>3 DEF SettleInv
<1>5. CASE faults' # 0
  <2>1. settled' = settled /\ StageInv'
    BY <1>5 DEF SettledNext, StageInv
  <2> QED
    BY <1>1, <1>2, <1>3, <2>1 DEF SettleInv
<1>6. CASE SettledNext /\ faults' = 0
  <2>1. Next /\ OneAtATime' /\ TypeOK
    BY <1>6 DEF SettledNext, SettleInv, Steady
  <2>2. settled' = IF Quiet' /\ faults' = 0 THEN Snapshot' ELSE settled
    BY <1>6 DEF SettledNext
  <2>3. CASE Tick \/ Waiting
    <3>1. UNCHANGED <<tables, user, pc, locals, ret, faults>>
      BY <2>3 DEF Tick, Waiting, vars, bounds
    <3>2. settled' = settled /\ StageInv'
      BY <1>6, <2>2, <3>1, IdleStep
    <3> QED
      BY <1>1, <1>2, <1>3, <3>2 DEF SettleInv
  <2>4. ASSUME NEW s \in Sessions, Acts(s)
        PROVE  /\ SettleInv'
               /\ [AbstractExchange!Next]_AbstractExchange!vars
    <3>1. Issue(s) \/ IssueCancel(s) \/ Step(s)
      <4>1. ~StatementFails(s) /\ ~PrepareFails(s)
        BY <1>6, <2>1 DEF StatementFails, PrepareFails
      <4> QED
        BY <2>4, <4>1 DEF Acts
    <3>2. faults = 0
      BY <1>6, <3>1 DEF Step, Issue, IssueCancel, GetUser, FindMatching, GetOrder,
           ArchiveMatched, ArchiveOrder, UpdateSelf, GetCounterparty,
           UpdateCounterparty, SettleMatched, InsertGetUser, InsertOrder, InsertUpdateUser,
           CancelGetOrder, CancelGetUser, CancelUpdateUser, CancelDelete, bounds
    <3>3. ASSUME NEW t \in Sessions, t # s
          PROVE  pc'[t] = "idle"
      BY <2>1, <2>4, <3>3, OthersIdle DEF SettleInv, Steady
    <3>4. ASSUME NEW t \in Sessions, pc'[t] = "idle"
          PROVE  MoneyOf(t)' /\ StageOf(t)'
      BY <3>4 DEF MoneyOf, Checked, Paid, StageOf, AsFound, HoldsGiven, HoldsMatch,
           HasWritten, HasInserted, Settling, Refunding, Cancelling, Unwritten
    <3>5. CASE pc'[s] = "idle"
      <4>1. Quiet'
        BY <3>3, <3>5 DEF Quiet
      <4>2. settled' = Snapshot'
        BY <1>6, <2>2, <4>1
      <4>3. Step(s)
        BY <2>1, <3>1, <3>5 DEF Issue, IssueCancel, Goto
      <4>4. settled' = settled \/ AbstractExchange!Next
        BY <3>2, <3>5, <4>2, <4>3, CommandEnds
      <4>5. StageInv'
        BY <3>3, <3>4, <3>5, <4>2 DEF StageInv
      <4> QED
        BY <1>1, <1>2, <1>3, <4>4, <4>5 DEF SettleInv
    <3>6. CASE pc'[s] # "idle"
      <4>1. ~Quiet'
        BY <3>6 DEF Quiet
      <4>2. settled' = settled
        BY <2>2, <4>1
      <4>3. MoneyOf(s)' /\ StageOf(s)'
        BY <2>1, <3>1, <3>2, <3>6, <4>2, StageStep
      <4>4. StageInv'
        BY <3>3, <3>4, <4>1, <4>3 DEF StageInv
      <4> QED
        BY <1>1, <1>2, <1>3, <4>2, <4>4 DEF SettleInv
    <3> QED
      BY <3>5, <3>6
  <2> QED
    BY <2>1, <2>3, <2>4 DEF Next, Acts
<1> QED
  BY <1>4, <1>5, <1>6 DEF vars, bounds

\* At first nothing has been settled.
LEMMA SettleInit == SettledInit => SettleInv /\ AbstractExchange!Init
<1> SUFFICES ASSUME SettledInit
             PROVE  SettleInv /\ AbstractExchange!Init
  OBVIOUS
<1>1. Init /\ settled = Snapshot
  BY DEF SettledInit
<1>2. Steady
  BY <1>1, SteadyInit
<1>3. StageInv
  BY <1>1, IdleStage DEF Init, StageInv
<1>4. SnapshotOK /\ users \in [Users -> Wallet] /\ orderSeq \in Nat
  BY <1>2, SnapshotType DEF Steady, TypeOK, TablesOK
<1>5. SettledOK
  <2>1. Untimed(orders) = [i \in DOMAIN Untimed(orders) |-> Untimed(orders)[i]]
    BY DEF Untimed
  <2> QED
    BY <1>1, <1>4, <2>1 DEF SettledOK, SnapshotOK
<1>6. AbstractExchange!Init
  <2>1. Untimed(<< >>) = << >>
    BY DEF Untimed
  <2> QED
    BY <1>1, <1>4, <2>1 DEF Init, SnapshotOK, AbstractExchange!Init
<1> QED
  BY <1>2, <1>3, <1>5, <1>6 DEF SettleInv

\* Between commands the tables change as Exchange does, for orders of every price and
\* quantity, negative ones too, and however doubles are rounded: up to ten statements,
\* of which insert_order's check may refuse the rest of what was traded, amount to one
\* trade, one post or one withdrawal, or to nothing, until a statement fails.
THEOREM ExchangeRefined == SettledSpec => ExchangeSpec
<1>1. SettledInit => SettleInv /\ AbstractExchange!Init
  BY SettleInit
<1>2. SettleInv /\ [SettledNext]_<<vars, settled>> =>
        SettleInv' /\ [AbstractExchange!Next]_AbstractExchange!vars
  BY SettleStep
<1> QED
  BY <1>1, <1>2, PTL DEF SettledSpec, ExchangeSpec, AbstractExchange!Spec
=============================================================================
