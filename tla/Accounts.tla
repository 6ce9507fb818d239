------------------------------ MODULE Accounts ------------------------------
(***************************************************************************)
(* What the users own.  A user's holdings of a coin are the column of the  *)
(* users row and what insert_order took from it for the orders that still  *)
(* rest (a buy order holds OMG, a sell order holds its coin).  The         *)
(* properties compare holdings between commands, when no session is        *)
(* halfway through its statements.                                         *)
(***************************************************************************)
EXTENDS MarketProps

\* What a resting order holds of coin c for its owner.
Reserved(o, c) ==
  IF o.side = "buy"
  THEN IF c = "OMG" THEN Trunc(Cost(o)) ELSE 0
  ELSE IF c = o.item THEN o.quantity ELSE 0

Reserves(c) == [i \in DOMAIN orders |-> Reserved(orders[i], c)]
OrdersOf(u) == {i \in DOMAIN orders : orders[i].userID = u}
Holdings(u, c) == users[u][c] + SumFunctionOnSet(Reserves(c), OrdersOf(u))
Total(c) == SumFunction([u \in Users |-> Holdings(u, c)])
Issued(c) == Cardinality(Users) * DefaultWallet[c]

\* Posting and cancelling are exact in all coins but OMG: as long as nothing has
\* been traded, every user holds what insert_user gave.  insert_order cuts off the
\* cost it takes and cancel_order adds it uncut to the balance, so that OMG is
\* off by the rounding, at most one coin for each command.
EscrowExact ==
  Quiet /\ archives = << >> /\ faults = 0 =>
    \A u \in Users, c \in Coins :
      LET gain == Holdings(u, c) - DefaultWallet[c]
      IN  IF c = "OMG" THEN gain \in -issued..issued ELSE gain = 0

\* Wallets and resting orders together hold at most what insert_user put into them,
\* but for one coin of OMG that the rounding of a command may make, and for what
\* a statement failing in the middle of a command creates (the debit of a posted
\* order, one of the writes of a trade, the deletion of an order already refunded):
\* that is at most what the largest order is worth, whatever is done afterwards
\* with the orders it left behind.  Trades with an order for a negative quantity
\* or price are excluded: they do create coins.
LargestReserve(c) ==
  Max({0} \cup {Reserved([BlankOrder EXCEPT !.item = i, !.side = d, !.quantity = q,
                                             !.unitPrice = p], c) :
                 i \in Items, d \in Sides, q \in Quantities, p \in Prices})
NoNegativeTrade ==
  \A k \in DOMAIN archives : archives[k].quantity >= 0 /\ archives[k].unitPrice >= 0
CreationBounded ==
  Quiet /\ NoNegativeTrade =>
    \A c \in Coins :
      Total(c) <= Issued(c) + faults * LargestReserve(c) + (IF c = "OMG" THEN issued ELSE 0)
=============================================================================
