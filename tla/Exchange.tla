------------------------------ MODULE Exchange ------------------------------
(***************************************************************************)
(* What the marketplace does, as someone sees it between commands:         *)
(* an order is posted and its coins are set aside, or filled against one   *)
(* resting order of another user at that order's price and the rest of it  *)
(* posted, or withdrawn and its coins given back.  Each of these is one    *)
(* step here; a command that is refused is no step.  As in the code, who   *)
(* posted an order gives the coins once more when it is filled: what was   *)
(* set aside comes back by withdrawing only.  Coins are whole, so that an  *)
(* amount of money may be the coin less or the coin more.                  *)
(***************************************************************************)
EXTENDS Integers, Sequences

CONSTANTS Users, Items, Quantities, Prices,
          Scale,      \* prices count 1/Scale coins
          Endowment   \* what a user has at first, of each coin

VARIABLES accounts,   \* accounts[u][c]: coins not set aside
          book,       \* the resting orders, by id
          lastID,
          history     \* what was matched: pairs of orders as they were

vars == <<accounts, book, lastID, history>>

Orders == [item : Items, side : {"buy", "sell"}, quantity : Quantities,
           unitPrice : Prices, userID : Users]

Init ==
  /\ accounts = [u \in Users |-> Endowment]
  /\ book = << >>
  /\ lastID = 0
  /\ history = << >>

Give(acc, u, c, n) == [acc EXCEPT ![u][c] = @ + n]

\* n/Scale in coins, which are not divided: the coin less or the coin more.
Whole(n) == {n \div Scale, -((-n) \div Scale)}

\* What an order sets aside of which coin; who can, which nobody can to sell OMG.
Pledged(o) == IF o.side = "buy" THEN Whole(o.quantity * o.unitPrice) ELSE {o.quantity}
PledgedCoin(o) == IF o.side = "buy" THEN "OMG" ELSE o.item
Owns(acc, o, n) == acc[o.userID][PledgedCoin(o)] >= n
Unsellable(o) == o.side = "sell" /\ o.item = "OMG"

\* acc is what the users own when o comes to rest.
Rest(acc, b, o) ==
  /\ lastID' = lastID + 1
  /\ ~Unsellable(o)
  /\ \E n \in Pledged(o) :
       Owns(acc, o, n) /\ accounts' = Give(acc, o.userID, PledgedCoin(o), -n)
  /\ book' = [i \in DOMAIN b \cup {lastID'} |-> IF i = lastID' THEN o ELSE b[i]]

\* o is not kept: its giver lacks the coins, by one measure of them.
Drop(acc, b, o) ==
  /\ Unsellable(o) \/ \E n \in Pledged(o) : ~Owns(acc, o, n)
  /\ accounts' = acc /\ book' = b /\ UNCHANGED lastID

Minus(o, q) == [o EXCEPT !.quantity = @ - q]

\* What is left of the book when q coins of order i are sold.
Without(i, q) ==
  IF book[i].quantity = q THEN [j \in DOMAIN book \ {i} |-> book[j]]
                          ELSE [book EXCEPT ![i] = Minus(@, q)]

\* q coins of o against the money they cost: what the one gives the other gets,
\* up to the coin that rounding makes of it.
Traded(o, m, q) ==
  LET buyer  == IF o.side = "buy" THEN o.userID ELSE m.userID
      seller == IF o.side = "buy" THEN m.userID ELSE o.userID
  IN  {Give(Give(Give(Give(accounts, buyer, "OMG", -paid), buyer, o.item, q),
            seller, "OMG", got), seller, o.item, -q) :
         paid, got \in Whole(q * m.unitPrice)}

Fits(o, m) ==
  /\ o.item = m.item /\ o.side # m.side /\ o.userID # m.userID
  /\ IF o.side = "buy" THEN m.unitPrice <= o.unitPrice ELSE m.unitPrice >= o.unitPrice

\* Order o, whose giver owns what it offers, or as much of it as order i offers;
\* then the rest of o comes to rest, or is dropped.
Fill(o, i) ==
  LET m == book[i]
      q == IF o.quantity > m.quantity THEN m.quantity ELSE o.quantity
  IN  /\ history' = history \o <<m, o>>
      /\ Fits(o, m) /\ \E n \in Pledged(o) : Owns(accounts, o, n)
      /\ \E acc \in Traded(o, m, q) :
           IF o.quantity = q
           THEN accounts' = acc /\ book' = Without(i, q) /\ UNCHANGED lastID
           ELSE \/ Rest(acc, Without(i, q), Minus(o, q))
                \/ Drop(acc, Without(i, q), Minus(o, q))

Post(o) == Rest(accounts, book, o) /\ UNCHANGED history

Withdraw(i) ==
  LET o == book[i] IN
  /\ book' = [j \in DOMAIN book \ {i} |-> book[j]]
  /\ \E n \in Pledged(o) : accounts' = Give(accounts, o.userID, PledgedCoin(o), n)
  /\ UNCHANGED <<lastID, history>>

Next ==
  \/ \E o \in Orders : Post(o) \/ \E i \in DOMAIN book : Fill(o, i)
  \/ \E i \in DOMAIN book : Withdraw(i)

Spec == Init /\ [][Next]_vars
=============================================================================
