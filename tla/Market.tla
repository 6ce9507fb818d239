------------------------------- MODULE Market -------------------------------
(***************************************************************************)
(* The order book of src/command.c on top of the tables of Db.  Every      *)
(* connection is served by a process of its own (fork in server.c) that    *)
(* reads one command, runs it to its return and reads the next one, so a   *)
(* session is sequential and sessions interleave between SQL statements.   *)
(* buy, sell, insert_order and cancel_order are therefore one action per   *)
(* statement: what a session read stays in its C locals and is used later, *)
(* whatever the other sessions have committed meanwhile.                   *)
(*                                                                         *)
(* pc[s] names the statement session s executes next.  The C locals are    *)
(*   ord[s]    the order the command was given;                            *)
(*   found[s]  the result of find_matching_*, or the id given to cancel;   *)
(*   match[s]  the row get_order returned;                                 *)
(*   wal[s]    the coins of the user struct in use: current_user, then     *)
(*             seller_user or buyer_user, then updated_user or usr (the    *)
(*             lifetimes of the four do not overlap);                      *)
(*   ret[s]    what the last command of the session returned.              *)
(* They are reset when the command returns, for no later command sees them.*)
(***************************************************************************)
EXTENDS Db

CONSTANTS
  Sessions,      \* the server processes with a logged-in user
  Users,         \* the userIDs that are registered
  Items,         \* the coins orders are given for
  Quantities,    \* the quantities orders are given for, 0 for one that did not parse,
                 \* and negative ones, which strtol reads and nothing refuses
  Prices,        \* the unit prices of orders, in 1/Scale OMG; strtod reads any sign
  OrderIDs,      \* the ids cancelOrder is given, of orders that exist or not
  PrepareCodes,  \* the SQLite codes a failing sqlite3_prepare_v2 may give
  MaxCommands,   \* bound: commands issued in a behaviour
  MaxFaults,     \* bound: statements that fail in a behaviour
  MaxTime        \* bound: ticks of the clock

ASSUME MarketAssumption ==
  /\ Users \subseteq Nat \ {0}
  /\ Items \subseteq Coins
  /\ Quantities \subseteq Int
  /\ Prices \subseteq Int
  /\ \A p \in Prices : Round(p) = p
  /\ OrderIDs \subseteq Int
  /\ PrepareCodes \subseteq Nat \ {0}
  /\ MaxCommands \in Nat
  /\ MaxFaults \in Nat
  /\ MaxTime \in Nat

VARIABLES user, pc, ord, found, match, wal, ret, issued, faults

locals == <<ord, found, match, wal>>
bounds == <<issued, faults>>
vars == <<tables, now, user, pc, locals, ret, bounds>>

NoMatch == -1
OK == 0
Failure == -1
SqliteError == 1

BlankOrder == [item |-> "OMG", side |-> "buy", quantity |-> 0, unitPrice |-> 0,
               userID |-> 0, created_at |-> 0]
BlankWallet == [c \in Coins |-> 0]

\* the labels from which a matched trade is being written to the tables
Settling == {"archive_matched", "archive_order", "update_self",
             "get_counterparty", "update_counterparty", "settle_matched"}
Inserting == {"insert_get_user", "insert_order", "insert_update_user"}
Cancelling == {"cancel_get_order", "cancel_get_user", "cancel_update_user",
               "cancel_delete"}
Labels == {"idle", "get_user", "find_matching", "get_order"}
            \cup Settling \cup Inserting \cup Cancelling

Init ==
  /\ users = [u \in Users |-> DefaultWallet]
  /\ orders = << >>
  /\ orderSeq = 0
  /\ archives = << >>
  /\ now = 0
  /\ user \in [Sessions -> Users]
  /\ pc = [s \in Sessions |-> "idle"]
  /\ ord = [s \in Sessions |-> BlankOrder]
  /\ found = [s \in Sessions |-> NoMatch]
  /\ match = [s \in Sessions |-> BlankOrder]
  /\ wal = [s \in Sessions |-> BlankWallet]
  /\ ret = [s \in Sessions |-> OK]
  /\ issued = 0
  /\ faults = 0

-----------------------------------------------------------------------------
(* Money *)

\* The double n added to an int balance b: the sum is rounded, then cut off.
AddOMG(b, n) == Trunc(Round(b * Scale + n))

AddCoin(w, c, n) == [w EXCEPT ![c] = @ + n]
AddCost(w, n) == [w EXCEPT !["OMG"] = AddOMG(@, n)]

\* What an order costs, as a double.
Cost(o) == Round(o.quantity * o.unitPrice)

\* Slip: the head check forgets the quantity of a buy order.
CoversOne(o, w) ==
  IF o.side = "buy" THEN w["OMG"] * Scale >= o.unitPrice
                    ELSE w[o.item] >= o.quantity

\* The checks at the head of buy and sell.
Covered(o, w) ==
  IF o.side = "buy" THEN w["OMG"] * Scale >= Cost(o)
                    ELSE w[o.item] >= o.quantity

\* Slip: the unit price is made an int before the multiplication.
ReserveWhole(o, w) ==
  IF o.side = "buy" THEN AddCoin(w, "OMG", -(o.quantity * Trunc(o.unitPrice)))
                    ELSE AddCoin(w, o.item, -o.quantity)

\* What insert_order takes from the wallet, and its own check, which knows
\* no sell order for OMG and truncates the cost.
Reserve(o, w) ==
  IF o.side = "buy" THEN AddCoin(w, "OMG", -Trunc(Cost(o)))
                    ELSE AddCoin(w, o.item, -o.quantity)
CanReserve(o, w) ==
  IF o.side = "buy" THEN w["OMG"] >= Trunc(Cost(o))
                    ELSE o.item # "OMG" /\ w[o.item] >= o.quantity

\* Slip: without the else, a buy order gives back coins as well.
RefundBoth(o, w) ==
  IF o.side = "buy" THEN AddCoin(AddCost(w, Cost(o)), o.item, o.quantity)
                    ELSE AddCoin(w, o.item, o.quantity)

\* What cancel_order gives back: the cost before it is cut off.
Refund(o, w) ==
  IF o.side = "buy" THEN AddCost(w, Cost(o))
                    ELSE AddCoin(w, o.item, o.quantity)

\* transaction_quantity and transaction_cost of order o against match m.
TxQuantity(o, m) == IF o.quantity > m.quantity THEN m.quantity ELSE o.quantity
TxCost(o, m) == Round(TxQuantity(o, m) * m.unitPrice)

\* Slip: the buyer gets the coins and is not charged.
TakerUncharged(o, m, w) ==
  IF o.side = "buy"
  THEN AddCoin(w, o.item, TxQuantity(o, m))
  ELSE AddCost(AddCoin(w, o.item, -TxQuantity(o, m)), TxCost(o, m))

\* The wallet of the user who gave order o, after its trade with m.
TakerWallet(o, m, w) ==
  IF o.side = "buy"
  THEN AddCoin(AddCost(w, -TxCost(o, m)), o.item, TxQuantity(o, m))
  ELSE AddCost(AddCoin(w, o.item, -TxQuantity(o, m)), TxCost(o, m))

\* The wallet of the user of m after it: which way the coins go is decided by
\* the function that runs, buy or sell, and never by the side of m.
MakerWallet(o, m, w) ==
  IF o.side = "buy"
  THEN AddCoin(AddCost(w, TxCost(o, m)), m.item, -TxQuantity(o, m))
  ELSE AddCoin(AddCost(w, -TxCost(o, m)), m.item, TxQuantity(o, m))

\* Slip: the quantities are not reduced by the trade.
Unreduced(o, n) == o

Less(o, n) == [o EXCEPT !.quantity = @ - n]

-----------------------------------------------------------------------------
(* A session *)

At(s, label) == pc[s] = label
Goto(s, label) == pc' = [pc EXCEPT ![s] = label]

\* The command returns r to handle_buy, handle_sell or handle_cancel_order.
Return(s, r) ==
  /\ Goto(s, "idle")
  /\ ret' = [ret EXCEPT ![s] = r]
  /\ ord' = [ord EXCEPT ![s] = BlankOrder]
  /\ found' = [found EXCEPT ![s] = NoMatch]
  /\ match' = [match EXCEPT ![s] = BlankOrder]
  /\ wal' = [wal EXCEPT ![s] = BlankWallet]

\* SELECT from users: the coins of user u as they are now.
ReadWallet(s, u) ==
  /\ wal' = [wal EXCEPT ![s] = users[u]]
  /\ UNCHANGED <<ord, found, match, ret>>

Issue(s) ==
  /\ At(s, "idle") /\ issued < MaxCommands
  /\ \E c \in Items, d \in Sides, q \in Quantities, p \in Prices :
       ord' = [ord EXCEPT ![s] =
                 [item |-> c, side |-> d, quantity |-> q, unitPrice |-> p,
                  userID |-> user[s], created_at |-> 0]]
  /\ Goto(s, "get_user")
  /\ issued' = issued + 1
  /\ UNCHANGED <<tables, now, user, found, match, wal, ret, faults>>

IssueCancel(s) ==
  /\ At(s, "idle") /\ issued < MaxCommands
  /\ \E id \in OrderIDs : found' = [found EXCEPT ![s] = id]
  /\ Goto(s, "cancel_get_order")
  /\ issued' = issued + 1
  /\ UNCHANGED <<tables, now, user, ord, match, wal, ret, faults>>

GetUser(s) ==
  /\ At(s, "get_user")
  /\ \/ /\ Covered(ord[s], users[user[s]])
        /\ Goto(s, "find_matching")
        /\ ReadWallet(s, user[s])
     \/ /\ ~Covered(ord[s], users[user[s]])
        /\ Return(s, Failure)
  /\ UNCHANGED <<tables, now, user, bounds>>

Matching(o) == IF o.side = "buy" THEN FindMatchingSell(o) ELSE FindMatchingBuy(o)

FindMatching(s) ==
  /\ At(s, "find_matching")
  /\ \/ /\ \E id \in Matching(ord[s]) : found' = [found EXCEPT ![s] = id]
        /\ Goto(s, "get_order")
     \/ /\ Matching(ord[s]) = {}
        /\ found' = [found EXCEPT ![s] = NoMatch]
        /\ Goto(s, "insert_get_user")
  /\ UNCHANGED <<tables, now, user, ord, match, wal, ret, bounds>>

\* get_order found the row; assign_order_timestamp reads the clock only.
TakeMatch(s) ==
  /\ found[s] \in DOMAIN orders
  /\ match' = [match EXCEPT ![s] = orders[found[s]]]
  /\ ord' = [ord EXCEPT ![s].created_at = now]
  /\ Goto(s, "archive_matched")
  /\ UNCHANGED <<found, wal, ret>>

GetOrder(s) ==
  /\ At(s, "get_order")
  /\ \/ TakeMatch(s)
     \/ /\ found[s] \notin DOMAIN orders
        /\ Return(s, Failure)
  /\ UNCHANGED <<tables, now, user, bounds>>

ArchiveMatched(s) ==
  /\ At(s, "archive_matched")
  /\ InsertArchive(match[s])
  /\ Goto(s, "archive_order")
  /\ UNCHANGED <<users, orders, orderSeq, now, user, locals, ret, bounds>>

\* Slip: the matched order is archived a second time.
ArchiveMatchedAgain(s) ==
  /\ At(s, "archive_order")
  /\ InsertArchive(match[s])
  /\ Goto(s, "update_self")
  /\ UNCHANGED <<users, orders, orderSeq, now, user, locals, ret, bounds>>

ArchiveOrder(s) ==
  /\ At(s, "archive_order")
  /\ InsertArchive(ord[s])
  /\ Goto(s, "update_self")
  /\ UNCHANGED <<users, orders, orderSeq, now, user, locals, ret, bounds>>

UpdateSelf(s) ==
  /\ At(s, "update_self")
  /\ UpdateUserBalance(user[s], TakerWallet(ord[s], match[s], wal[s]))
  /\ Goto(s, "get_counterparty")
  /\ UNCHANGED <<orders, orderSeq, archives, now, user, locals, ret, bounds>>

GetCounterparty(s) ==
  /\ At(s, "get_counterparty")
  /\ ReadWallet(s, match[s].userID)
  /\ Goto(s, "update_counterparty")
  /\ UNCHANGED <<tables, now, user, bounds>>

UpdateCounterparty(s) ==
  /\ At(s, "update_counterparty")
  /\ UpdateUserBalance(match[s].userID, MakerWallet(ord[s], match[s], wal[s]))
  /\ Goto(s, "settle_matched")
  /\ UNCHANGED <<orders, orderSeq, archives, now, user, locals, ret, bounds>>

\* Slip: a filled order stays.
KeepFilled(id, o) == UpdateOrder(id, o)

\* The rest of the matched order: the row goes, or is written back.
WriteBack(id, o) ==
  IF o.quantity = 0 THEN DeleteOrder(id) ELSE UpdateOrder(id, o)

SettleMatched(s) ==
  LET q == TxQuantity(ord[s], match[s]) IN
  /\ At(s, "settle_matched")
  /\ WriteBack(found[s], Less(match[s], q))
  /\ \/ /\ ord[s].quantity > q
        /\ ord' = [ord EXCEPT ![s] = Less(@, q)]
        /\ Goto(s, "insert_get_user")
        /\ UNCHANGED <<found, match, wal, ret>>
     \/ /\ ord[s].quantity <= q
        /\ Return(s, OK)
  /\ UNCHANGED <<users, orderSeq, archives, now, user, bounds>>

\* buy and sell hand on what insert_order returned when nothing matched, and
\* return -1 when it fails for the rest of a matched order.  SqliteError stands
\* for every SQLite code: their callers tell -1 from the others only.
InsertFails(s) == Return(s, IF found[s] = NoMatch THEN SqliteError ELSE Failure)

InsertGetUser(s) ==
  /\ At(s, "insert_get_user")
  /\ \/ /\ CanReserve(ord[s], users[user[s]])
        /\ Goto(s, "insert_order")
        /\ ReadWallet(s, user[s])
     \/ /\ ~CanReserve(ord[s], users[user[s]])
        /\ InsertFails(s)
  /\ UNCHANGED <<tables, now, user, bounds>>

InsertOrder(s) ==
  /\ At(s, "insert_order")
  /\ InsertRow(ord[s])
  /\ Goto(s, "insert_update_user")
  /\ UNCHANGED <<users, archives, now, user, locals, ret, bounds>>

InsertUpdateUser(s) ==
  /\ At(s, "insert_update_user")
  /\ UpdateUserBalance(user[s], Reserve(ord[s], wal[s]))
  /\ Return(s, OK)
  /\ UNCHANGED <<orders, orderSeq, archives, now, user, bounds>>

\* Slip: the owner is not checked.
AnyOrder(s) == found[s] \in DOMAIN orders

\* get_order found the row and it is the user's.
OwnOrder(s) ==
  found[s] \in DOMAIN orders /\ orders[found[s]].userID = user[s]

\* Slip: a row that is not there is waited for.
CancelGetOrderAgain(s) ==
  /\ At(s, "cancel_get_order")
  /\ \/ /\ OwnOrder(s)
        /\ match' = [match EXCEPT ![s] = orders[found[s]]]
        /\ Goto(s, "cancel_get_user")
        /\ UNCHANGED <<ord, found, wal, ret>>
     \/ ~OwnOrder(s) /\ UNCHANGED <<pc, locals, ret>>
  /\ UNCHANGED <<tables, now, user, bounds>>

CancelGetOrder(s) ==
  /\ At(s, "cancel_get_order")
  /\ \/ /\ OwnOrder(s)
        /\ match' = [match EXCEPT ![s] = orders[found[s]]]
        /\ Goto(s, "cancel_get_user")
        /\ UNCHANGED <<ord, found, wal, ret>>
     \/ /\ ~OwnOrder(s)
        /\ Return(s, Failure)
  /\ UNCHANGED <<tables, now, user, bounds>>

CancelGetUser(s) ==
  /\ At(s, "cancel_get_user")
  /\ ReadWallet(s, match[s].userID)
  /\ Goto(s, "cancel_update_user")
  /\ UNCHANGED <<tables, now, user, bounds>>

CancelUpdateUser(s) ==
  /\ At(s, "cancel_update_user")
  /\ UpdateUserBalance(match[s].userID, Refund(match[s], wal[s]))
  /\ Goto(s, "cancel_delete")
  /\ UNCHANGED <<orders, orderSeq, archives, now, user, locals, ret, bounds>>

CancelDelete(s) ==
  /\ At(s, "cancel_delete")
  /\ DeleteOrder(found[s])
  /\ Return(s, OK)
  /\ UNCHANGED <<users, orderSeq, archives, now, user, bounds>>

-----------------------------------------------------------------------------
(* Statements that fail *)

\* The statement at pc[s] gives an error (SQLITE_BUSY once the busy timeout is
\* over, an I/O error) and changes nothing.  find_matching_* reports an error
\* of the SELECT as "no match"; any other failure ends the command.
StatementFails(s) ==
  /\ ~At(s, "idle") /\ faults < MaxFaults
  /\ faults' = faults + 1
  /\ \/ /\ At(s, "find_matching")
        /\ found' = [found EXCEPT ![s] = NoMatch]
        /\ Goto(s, "insert_get_user")
        /\ UNCHANGED <<ord, match, wal, ret>>
     \/ /\ pc[s] \in Inserting
        /\ InsertFails(s)
     \/ /\ pc[s] \notin Inserting \cup {"find_matching"}
        /\ Return(s, Failure)
  /\ UNCHANGED <<tables, now, user, issued>>

\* sqlite3_prepare_v2 fails in find_matching_*: the code it gives is returned,
\* and buy and sell take it for an orderID.
PrepareFails(s) ==
  /\ At(s, "find_matching") /\ faults < MaxFaults
  /\ faults' = faults + 1
  /\ \E code \in PrepareCodes : found' = [found EXCEPT ![s] = code]
  /\ Goto(s, "get_order")
  /\ UNCHANGED <<tables, now, user, ord, match, wal, ret, issued>>

-----------------------------------------------------------------------------
Tick ==
  /\ now < MaxTime
  /\ now' = now + 1
  /\ UNCHANGED <<tables, user, pc, locals, ret, bounds>>

\* Every session waits for its client.
Quiet == \A s \in Sessions : At(s, "idle")
Waiting == Quiet /\ UNCHANGED vars

\* One more statement of the command session s is running.
Step(s) ==
  \/ GetUser(s) \/ FindMatching(s) \/ GetOrder(s)
  \/ ArchiveMatched(s) \/ ArchiveOrder(s)
  \/ UpdateSelf(s) \/ GetCounterparty(s) \/ UpdateCounterparty(s)
  \/ SettleMatched(s)
  \/ InsertGetUser(s) \/ InsertOrder(s) \/ InsertUpdateUser(s)
  \/ CancelGetOrder(s) \/ CancelGetUser(s) \/ CancelUpdateUser(s)
  \/ CancelDelete(s)

Next ==
  \/ \E s \in Sessions :
       Issue(s) \/ IssueCancel(s) \/ Step(s) \/ StatementFails(s) \/ PrepareFails(s)
  \/ Tick
  \/ Waiting

Spec == Init /\ [][Next]_vars

\* The marketplace with one command at a time: what the code of buy, sell and
\* cancel_order does on its own, before concurrency.
OneAtATime == \A s, t \in Sessions : ~At(s, "idle") /\ ~At(t, "idle") => s = t
SerialSpec == Init /\ [][Next /\ OneAtATime']_vars
=============================================================================
