--------------------------------- MODULE Db ---------------------------------
(***************************************************************************)
(* The SQLite store of the marketplace: the tables of src/db.c and one     *)
(* operator per SQL statement.  Every statement of the program is executed *)
(* in autocommit mode, so each operator below is one atomic change (or one *)
(* atomic read) of the tables; nothing groups two statements together.     *)
(*                                                                         *)
(* Prices are REAL in the schema and doubles in C (Doubles); coins and     *)
(* quantities are ints, and no statement keeps either from being negative. *)
(***************************************************************************)
EXTENDS Doubles, Sequences

VARIABLES
  users,     \* users[userID] = the coin columns of that row
  orders,    \* orders[orderID] = an active order
  orderSeq,  \* the AUTOINCREMENT counter of table orders
  archives,  \* the rows of table archives, archives[i] has orderID i
  now        \* CURRENT_TIMESTAMP, in ticks

tables == <<users, orders, orderSeq, archives>>

Coins == {"OMG", "DOGE", "BTC", "ETH"}
Sides == {"buy", "sell"}
Wallet == [Coins -> Int]
Order == [item : Coins, side : Sides, quantity : Int, unitPrice : Int,
          userID : Nat, created_at : Nat]

DefaultWallet == [c \in Coins |-> CASE c = "OMG" -> 10000
                                    [] c = "DOGE" -> 200
                                    [] c = "BTC" -> 50
                                    [] OTHER -> 75]

\* What an order is, whatever has been filled of it.
Terms(o) == [item |-> o.item, side |-> o.side, unitPrice |-> o.unitPrice,
             userID |-> o.userID, created_at |-> o.created_at]

-----------------------------------------------------------------------------
(* Statements.  A definition whose comment begins with "Slip:" is not part   *)
(* of the model: it is a wrong variant of the definition after it, kept to   *)
(* show that the properties notice the difference.                           *)

\* Slip: no AUTOINCREMENT, SQLite takes the id after the largest in the table.
ReusedOrderID ==
  CHOOSE i \in 1..(orderSeq + 1) :
    /\ \A j \in DOMAIN orders : j < i
    /\ i - 1 \in DOMAIN orders \cup {0}

\* orderID INTEGER PRIMARY KEY AUTOINCREMENT: never an id used before.
NewOrderID == orderSeq + 1

\* INSERT INTO orders, created_at by default.
WithRow(id, o) ==
  [i \in DOMAIN orders \cup {id} |->
     IF i = id THEN [o EXCEPT !.created_at = now] ELSE orders[i]]

\* Slip: the counter is not kept.
InsertRowUncounted(o) == UNCHANGED orderSeq /\ orders' = WithRow(NewOrderID, o)

InsertRow(o) == orderSeq' = NewOrderID /\ orders' = WithRow(NewOrderID, o)

\* DELETE FROM orders WHERE orderID = id: no error when there is no such row.
DeleteOrder(id) ==
  orders' = [i \in DOMAIN orders \ {id} |-> orders[i]]

\* Slip: the WHERE clause is missing.
UpdateOrders(id, o) == orders' = [i \in DOMAIN orders |-> o]

\* UPDATE orders SET every column but created_at WHERE orderID = id.
UpdateOrder(id, o) ==
  orders' = [i \in DOMAIN orders |->
               IF i = id THEN [o EXCEPT !.created_at = orders[i].created_at]
               ELSE orders[i]]

\* UPDATE users SET OMG, DOGE, BTC, ETH WHERE userID = u: absolute values.
UpdateUserBalance(u, w) ==
  users' = [v \in DOMAIN users |-> IF v = u THEN w ELSE users[v]]

\* INSERT INTO archives.
InsertArchive(o) == archives' = Append(archives, o)

\* Slip: no ORDER BY.
AnyOf(S) == S

\* ORDER BY created_at ASC LIMIT 1: any of the oldest, ties are left open.
Oldest(S) ==
  {i \in S : \A j \in S : orders[i].created_at <= orders[j].created_at}

\* Slip: the price has to be better than the limit.
FindCheaperSell(o) ==
  Oldest({i \in DOMAIN orders : /\ orders[i].item = o.item
                                /\ orders[i].side = "sell"
                                /\ orders[i].unitPrice < o.unitPrice
                                /\ orders[i].userID # o.userID})

\* find_matching_sell: the resting sell orders that search order o may take.
FindMatchingSell(o) ==
  Oldest({i \in DOMAIN orders : /\ orders[i].item = o.item
                                /\ orders[i].side = "sell"
                                /\ orders[i].unitPrice <= o.unitPrice
                                /\ orders[i].userID # o.userID})

\* find_matching_buy: the resting buy orders that search order o may take.
FindMatchingBuy(o) ==
  Oldest({i \in DOMAIN orders : /\ orders[i].item = o.item
                                /\ orders[i].side = "buy"
                                /\ orders[i].unitPrice >= o.unitPrice
                                /\ orders[i].userID # o.userID})
=============================================================================
