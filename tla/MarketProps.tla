---------------------------- MODULE MarketProps ----------------------------
(***************************************************************************)
(* The properties of the order book, whatever the interleaving of the      *)
(* sessions (first part), and of one command at a time (second part).      *)
(***************************************************************************)
EXTENDS Market, FiniteSets

TablesOK ==
  /\ users \in [Users -> Wallet]
  /\ orders = [i \in DOMAIN orders |-> orders[i]]
  /\ DOMAIN orders \subseteq 1..orderSeq
  /\ \A i \in DOMAIN orders : orders[i] \in Order /\ orders[i].userID \in Users
  /\ orderSeq \in Nat
  /\ archives \in Seq(Order)

\* The labels at which a session has an order to work on, and a matched row.
HasOrder(l) == l \notin Cancelling \cup {"idle"}
HasMatch(l) == l \in Settling \cup (Cancelling \ {"cancel_get_order"})

LocalsOK ==
  /\ pc \in [Sessions -> Labels]
  /\ ord \in [Sessions -> Order]
  /\ found \in [Sessions -> Int]
  /\ match \in [Sessions -> Order]
  /\ wal \in [Sessions -> Wallet]
  /\ ret \in [Sessions -> {OK, Failure, SqliteError}]
  /\ \A s \in Sessions : HasOrder(pc[s]) => ord[s].userID = user[s]
  /\ \A s \in Sessions : HasMatch(pc[s]) => match[s].userID \in Users

\* The columns and the C locals hold values of their types, the rows of orders
\* have ids the AUTOINCREMENT counter has passed and owners that exist, an order
\* in hand is the session's user's and a matched order some user's (so that
\* get_user finds every row it is asked for).
TypeOK ==
  /\ TablesOK
  /\ LocalsOK
  /\ now \in Nat
  /\ user \in [Sessions -> Users]
  /\ issued \in Nat
  /\ faults \in Nat

\* o may be filled against m: same coin, opposite sides, different users, and
\* a price at least as good as the limit of o.
Compatible(o, m) ==
  /\ o.item = m.item
  /\ o.side # m.side
  /\ o.userID # m.userID
  /\ IF o.side = "buy" THEN m.unitPrice <= o.unitPrice
                       ELSE m.unitPrice >= o.unitPrice

-----------------------------------------------------------------------------
(* Any interleaving *)

\* While a trade is written to the tables (buy and sell, from archive_order to
\* update_order), its two orders are compatible, although the search and the
\* read of the matched row are separate statements and sessions run between
\* them.  Not so when find_matching_* returns an error code as an orderID.
TradesHonourOrders ==
  \A s \in Sessions : pc[s] \in Settling => Compatible(ord[s], match[s])

\* The order taken from the book is an oldest one: until the trade is settled
\* no resting order that fits the command is older than the one it found,
\* whatever was posted, filled or cancelled since find_matching_*.
TimePriority ==
  \A s \in Sessions, i \in DOMAIN orders :
    Compatible(ord[s], orders[i]) =>
      /\ pc[s] \in Settling => match[s].created_at <= orders[i].created_at
      /\ At(s, "get_order") /\ found[s] \in DOMAIN orders
           => orders[found[s]].created_at <= orders[i].created_at

\* Only an order that was given for nothing, or for less, rests with nothing to
\* offer: whatever rows the sessions hold copies of and whichever statement fails,
\* what a trade leaves of an order is positive (the branches that delete or write
\* back the matched order, and the test before the remainder is inserted).
LeftoverStep ==
  \A i \in DOMAIN orders' : orders'[i].quantity <= 0 =>
    \/ i \in DOMAIN orders /\ orders'[i] = orders[i]
    \/ i \notin DOMAIN orders /\ \E s \in Sessions : At(s, "insert_order") /\ found[s] = NoMatch
LeftoversArePositive == [][LeftoverStep]_vars

\* Every trade is archived on both sides: the rows of bought and of sold orders
\* differ at most by the trades that are between their two archive_order calls
\* and by those a failing statement ended there (by both rows when it was an
\* error code that buy or sell took for the orderID of a match).
SideCount(d) == Cardinality({k \in DOMAIN archives : archives[k].side = d})
HistoryPaired ==
  LET open == Cardinality({s \in Sessions : At(s, "archive_order")}) + 2 * faults
  IN  SideCount("buy") - SideCount("sell") \in -open..open

\* A row leaves table orders only when its owner cancels it or after a trade
\* has put it into the archives (delete_order in buy, sell and cancel_order).
OwnerCancels(i) ==
  \E s \in Sessions : /\ At(s, "cancel_delete")
                      /\ found[s] = i
                      /\ user[s] = orders[i].userID
Archived(i) == \E k \in DOMAIN archives : Terms(archives[k]) = Terms(orders[i])
RemovalStep ==
  \A i \in DOMAIN orders \ DOMAIN orders' : OwnerCancels(i) \/ Archived(i)
RemovalJustified == [][RemovalStep]_vars

\* Table orders keeps the promise of Book: no id is used twice, no update_order
\* written from a stale snapshot changes the terms of a row, rows leave one at
\* a time and ids are given in time order.
AbstractBook == INSTANCE Book WITH
  book <- [i \in DOMAIN orders |-> Terms(orders[i])], lastID <- orderSeq
BookSpec == AbstractBook!Spec

-----------------------------------------------------------------------------
(* One command at a time *)

\* Once the check at the head of buy or sell has passed, insert_order finds its
\* own check satisfied as well when nothing matched, though the two round the cost
\* differently.  What a trade left of an order is refused at most for want of one
\* coin: the doubles of the three costs need not add up.  That is for a trade with
\* an order that fits and is for no negative quantity, and only a sell order for
\* OMG is refused otherwise.
RestIsReserved ==
  \A s \in Sessions :
    LET o == ord[s]
        w == users[user[s]]
    IN  At(s, "insert_get_user") /\ ~(o.side = "sell" /\ o.item = "OMG") =>
          \/ CanReserve(o, w)
          \/ found[s] # NoMatch /\ CanReserve(o, AddCoin(w, "OMG", 1))
          \/ found[s] # NoMatch /\ ~(Compatible(o, match[s]) /\ match[s].quantity >= 0)

\* A command never overdraws the user who gave it: what buy, sell and
\* insert_order write for that user is below zero in no coin that the user had,
\* unless the trade itself is for a negative quantity or cost, or (after an error
\* code taken for an orderID) with an order that does not fit.
OwnWrite(s) == At(s, "update_self") \/ At(s, "insert_update_user")
Regular(o, m) == Compatible(o, m) /\ TxQuantity(o, m) >= 0 /\ TxCost(o, m) >= 0
TakerSolventStep ==
  \A s \in Sessions, c \in Coins :
    (/\ OwnWrite(s) /\ ~OwnWrite(s)' /\ users[user[s]][c] >= 0
     /\ At(s, "update_self") => Regular(ord[s], match[s]))
      => users'[user[s]][c] >= 0
TakerSolvent == [][TakerSolventStep]_vars

\* Row i is what a trade left of an order: the archives have the whole of it.
IsRest(i) ==
  \E k \in DOMAIN archives :
    LET o == archives[k] IN
    /\ o.item = orders[i].item /\ o.side = orders[i].side
    /\ o.unitPrice = orders[i].unitPrice /\ o.userID = orders[i].userID
    /\ o.created_at <= orders[i].created_at

\* Two resting orders that could trade are there only because the later one is
\* what a trade left of an order: buy and sell search once, and the rest is
\* inserted without a second search.  A search that fails finds no order.
CrossedOnlyByRests ==
  faults = 0 =>
    \A i, j \in DOMAIN orders :
      i < j /\ Compatible(orders[j], orders[i]) => IsRest(j)
=============================================================================
