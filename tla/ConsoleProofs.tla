--------------------------- MODULE ConsoleProofs ---------------------------
(***************************************************************************)
(* Theorems about the command loop, for all sets of lines, sessions, users *)
(* and coins and for every schedule: it runs the commands of Market and    *)
(* disturbs none, so what is proved of Market holds of the program that    *)
(* reads lines; and the lists myOrders and view print are right although   *)
(* the book moves while they are read.                                     *)
(***************************************************************************)
EXTENDS Console, FiniteSetTheorems, TLAPS

\* To Market, a session that waits for a line, queries or has ended is idle.
Trading == [s \in Sessions |-> IF pc[s] \in Labels THEN pc[s] ELSE "idle"]
Rows == INSTANCE RowProofs WITH pc <- Trading
MarketSpec == Rows!Spec

QueryLabels == {"my_inventory", "my_orders", "my_orders_archived", "view_buys",
                "view_sells"}

\* Every session is at a label of the command loop.
LabelsOK ==
  /\ pc \in [Sessions -> Labels \cup QueryLabels \cup {"crashed"}]
  /\ DOMAIN answer = Sessions

-----------------------------------------------------------------------------
(* The labels Market sees *)

LEMMA AtMaps ==
  ASSUME NEW s \in Sessions, NEW l \in Labels, At(s, l)
  PROVE  Rows!At(s, l)
  BY DEF At, Rows!At, Trading

LEMMA GotoMaps ==
  ASSUME LabelsOK, NEW s \in Sessions, NEW l \in Labels, Goto(s, l)
  PROVE  Rows!Goto(s, l)
  BY DEF LabelsOK, Goto, Rows!Goto, Trading

LEMMA ReturnMaps ==
  ASSUME LabelsOK, NEW s \in Sessions, NEW r, Return(s, r)
  PROVE  Rows!Return(s, r)
<1>1. "idle" \in Labels
  BY DEF Labels
<1> QED
  BY <1>1, GotoMaps DEF Return, Rows!Return, Rows!NoMatch, NoMatch, Rows!BlankOrder,
     BlankOrder, Rows!BlankWallet, BlankWallet, Rows!Coins, Coins

\* Market does not see a session move between labels that are not its own.
LEMMA QuietMaps ==
  ASSUME LabelsOK, NEW s \in Sessions, NEW l, Goto(s, l),
         pc[s] \in QueryLabels \cup {"idle"}, l \in QueryLabels \cup {"idle", "crashed"}
  PROVE  UNCHANGED Trading
<1>1. (QueryLabels \cup {"crashed"}) \cap Labels = {}
  BY DEF QueryLabels, Labels, Settling, Inserting, Cancelling
<1>2. Trading[s] = "idle" /\ Trading'[s] = "idle"
  BY <1>1 DEF LabelsOK, Goto, Trading
<1>3. \A t \in Sessions : t # s => pc'[t] = pc[t]
  BY DEF LabelsOK, Goto
<1> QED
  BY <1>2, <1>3 DEF Trading

-----------------------------------------------------------------------------
(* The statements Market sees *)

\* Doubles are the same to both, so what is assumed of the one holds of the other.
LEMMA SameRounding ==
  /\ \A n : Rows!Trunc(n) = Trunc(n)
  /\ \A n : Rows!Round(n) = Round(n)
<1>1. \A n : Rows!Trunc(n) = Trunc(n)
  BY DEF Rows!Trunc, Trunc
<1>2. \A n : Rows!Ulp(n) = Ulp(n)
  BY DEF Rows!Ulp, Ulp, Rows!Magnitude, Magnitude, Rows!Max, Max
<1>3. \A n, u : Rows!Nearest(n, u) = Nearest(n, u)
  BY DEF Rows!Nearest, Nearest
<1> QED
  BY <1>1, <1>2, <1>3 DEF Rows!Round, Round

LEMMA SameAssumptions == Rows!DoublesAssumption /\ Rows!MarketAssumption
  BY DoublesAssumption, MarketAssumption, SameRounding
  DEF Rows!DoublesAssumption, Rows!MarketAssumption, Rows!Coins, Coins

\* What no label is in is the same to both.
LEMMA SameTerms ==
  /\ Rows!Labels = Labels
  /\ Rows!Settling = Settling /\ Rows!Inserting = Inserting
  /\ \A o, w : Rows!Covered(o, w) = Covered(o, w)
  /\ \A o, w : Rows!CanReserve(o, w) = CanReserve(o, w)
  /\ \A o, w : Rows!Reserve(o, w) = Reserve(o, w)
  /\ \A o, w : Rows!Refund(o, w) = Refund(o, w)
  /\ \A o, m : Rows!TxQuantity(o, m) = TxQuantity(o, m)
  /\ \A o, m, w : Rows!TakerWallet(o, m, w) = TakerWallet(o, m, w)
  /\ \A o, m, w : Rows!MakerWallet(o, m, w) = MakerWallet(o, m, w)
  /\ \A o, n : Rows!Less(o, n) = Less(o, n)
  /\ \A o : Rows!Matching(o) = Matching(o)
<1>1. /\ Rows!Labels = Labels
      /\ Rows!Settling = Settling /\ Rows!Inserting = Inserting
  BY DEF Rows!Labels, Labels, Rows!Settling, Settling, Rows!Inserting, Inserting,
         Rows!Cancelling, Cancelling
<1>2. /\ \A n : Rows!Trunc(n) = Trunc(n)
      /\ \A n : Rows!Round(n) = Round(n)
  BY SameRounding
<1>3. /\ \A w, c, n : Rows!AddCoin(w, c, n) = AddCoin(w, c, n)
      /\ \A w, n : Rows!AddCost(w, n) = AddCost(w, n)
  BY <1>2 DEF Rows!AddCoin, AddCoin, Rows!AddCost, AddCost, Rows!AddOMG, AddOMG
<1>4. \A o, m : /\ Rows!TxQuantity(o, m) = TxQuantity(o, m)
                /\ Rows!TxCost(o, m) = TxCost(o, m)
  BY <1>2 DEF Rows!TxQuantity, TxQuantity, Rows!TxCost, TxCost
<1>5. \A o : Rows!Cost(o) = Cost(o)
  BY <1>2 DEF Rows!Cost, Cost
<1>6. \A o, w : Rows!Covered(o, w) = Covered(o, w)
  BY <1>5 DEF Rows!Covered, Covered
<1>7. \A o, w : Rows!CanReserve(o, w) = CanReserve(o, w)
  BY <1>2, <1>5 DEF Rows!CanReserve, CanReserve
<1>8. \A o, w : /\ Rows!Reserve(o, w) = Reserve(o, w)
                /\ Rows!Refund(o, w) = Refund(o, w)
  BY <1>2, <1>3, <1>5 DEF Rows!Reserve, Reserve, Rows!Refund, Refund
<1>9. \A o, m, w : /\ Rows!TakerWallet(o, m, w) = TakerWallet(o, m, w)
                   /\ Rows!MakerWallet(o, m, w) = MakerWallet(o, m, w)
  BY <1>3, <1>4 DEF Rows!TakerWallet, TakerWallet, Rows!MakerWallet, MakerWallet
<1>10. \A o, n : Rows!Less(o, n) = Less(o, n)
  BY DEF Rows!Less, Less
<1>11. \A o : Rows!Matching(o) = Matching(o)
  BY DEF Rows!Matching, Matching, Rows!FindMatchingSell, FindMatchingSell,
         Rows!FindMatchingBuy, FindMatchingBuy, Rows!Oldest, Oldest
<1> QED
  BY <1>1, <1>4, <1>6, <1>7, <1>8, <1>9, <1>10, <1>11

-----------------------------------------------------------------------------
(* The steps Market sees *)

LEMMA StepMaps ==
  ASSUME LabelsOK, NEW s \in Sessions, Step(s)
  PROVE  Rows!Step(s)
<1> USE AtMaps, GotoMaps, ReturnMaps, SameTerms
    DEF Labels, Settling, Inserting, Cancelling, tables, locals, bounds,
        Rows!tables, Rows!locals, Rows!bounds
<1>1. ASSUME ArchiveMatched(s) PROVE Rows!ArchiveMatched(s)
  BY <1>1 DEF ArchiveMatched, Rows!ArchiveMatched, InsertArchive, Rows!InsertArchive
<1>2. ASSUME ArchiveOrder(s) PROVE Rows!ArchiveOrder(s)
  BY <1>2 DEF ArchiveOrder, Rows!ArchiveOrder, InsertArchive, Rows!InsertArchive
<1>3. ASSUME UpdateSelf(s) PROVE Rows!UpdateSelf(s)
  BY <1>3 DEF UpdateSelf, Rows!UpdateSelf, UpdateUserBalance, Rows!UpdateUserBalance
<1>4. ASSUME GetCounterparty(s) PROVE Rows!GetCounterparty(s)
  BY <1>4 DEF GetCounterparty, Rows!GetCounterparty, ReadWallet, Rows!ReadWallet
<1>5. ASSUME UpdateCounterparty(s) PROVE Rows!UpdateCounterparty(s)
  BY <1>5 DEF UpdateCounterparty, Rows!UpdateCounterparty, UpdateUserBalance, Rows!UpdateUserBalance
<1>6. ASSUME InsertOrder(s) PROVE Rows!InsertOrder(s)
  BY <1>6 DEF InsertOrder, Rows!InsertOrder, InsertRow, Rows!InsertRow, WithRow, Rows!WithRow, NewOrderID, Rows!NewOrderID
<1>7. ASSUME InsertUpdateUser(s) PROVE Rows!InsertUpdateUser(s)
  BY <1>7 DEF InsertUpdateUser, Rows!InsertUpdateUser, UpdateUserBalance, Rows!UpdateUserBalance, OK,
              Rows!OK
<1>8. ASSUME CancelGetUser(s) PROVE Rows!CancelGetUser(s)
  BY <1>8 DEF CancelGetUser, Rows!CancelGetUser, ReadWallet, Rows!ReadWallet
<1>9. ASSUME CancelUpdateUser(s) PROVE Rows!CancelUpdateUser(s)
  BY <1>9 DEF CancelUpdateUser, Rows!CancelUpdateUser, UpdateUserBalance, Rows!UpdateUserBalance
<1>10. ASSUME CancelDelete(s) PROVE Rows!CancelDelete(s)
  BY <1>10 DEF CancelDelete, Rows!CancelDelete, DeleteOrder, Rows!DeleteOrder, OK, Rows!OK
<1>11. ASSUME GetUser(s) PROVE Rows!GetUser(s)
  BY <1>11 DEF GetUser, Rows!GetUser, ReadWallet, Rows!ReadWallet, Failure, Rows!Failure
<1>12. ASSUME FindMatching(s) PROVE Rows!FindMatching(s)
  BY <1>12 DEF FindMatching, Rows!FindMatching, NoMatch, Rows!NoMatch
<1>13. ASSUME GetOrder(s) PROVE Rows!GetOrder(s)
  BY <1>13 DEF GetOrder, Rows!GetOrder, TakeMatch, Rows!TakeMatch, Failure, Rows!Failure
<1>14. ASSUME SettleMatched(s) PROVE Rows!SettleMatched(s)
  BY <1>14 DEF SettleMatched, Rows!SettleMatched, WriteBack, Rows!WriteBack, DeleteOrder, Rows!DeleteOrder, UpdateOrder, Rows!UpdateOrder, OK, Rows!OK
<1>15. ASSUME InsertGetUser(s) PROVE Rows!InsertGetUser(s)
  BY <1>15 DEF InsertGetUser, Rows!InsertGetUser, ReadWallet, Rows!ReadWallet, InsertFails, Rows!InsertFails, NoMatch, Rows!NoMatch, SqliteError, Rows!SqliteError, Failure, Rows!Failure
<1>16. ASSUME CancelGetOrder(s) PROVE Rows!CancelGetOrder(s)
  BY <1>16 DEF CancelGetOrder, Rows!CancelGetOrder, OwnOrder, Rows!OwnOrder, Failure, Rows!Failure
<1> QED
  BY <1>1, <1>2, <1>3, <1>4, <1>5, <1>6, <1>7, <1>8, <1>9, <1>10, <1>11, <1>12, <1>13, <1>14, <1>15, <1>16
  DEF Step, Rows!Step

\* A statement that fails fails for Market as well.
LEMMA FaultMaps ==
  ASSUME LabelsOK, NEW s \in Sessions,
         (pc[s] \in Labels /\ StatementFails(s)) \/ PrepareFails(s)
  PROVE  Rows!StatementFails(s) \/ Rows!PrepareFails(s)
<1> USE AtMaps, GotoMaps, ReturnMaps, SameTerms
    DEF tables, locals, bounds, Rows!tables, Rows!locals, Rows!bounds
<1>1. "find_matching" \in Labels /\ "get_order" \in Labels /\ "insert_get_user" \in Labels
  BY DEF Labels, Inserting
<1>2. CASE PrepareFails(s)
  BY <1>1, <1>2 DEF PrepareFails, Rows!PrepareFails
<1>3. CASE pc[s] \in Labels /\ StatementFails(s)
  <2>1. Trading[s] = pc[s]
    BY <1>3 DEF Trading
  <2>2. InsertFails(s) => Rows!InsertFails(s)
    BY DEF InsertFails, Rows!InsertFails, NoMatch, Rows!NoMatch, SqliteError,
           Rows!SqliteError, Failure, Rows!Failure
  <2> QED
    BY <1>1, <1>3, <2>1, <2>2 DEF StatementFails, Rows!StatementFails, At, Rows!At,
       NoMatch, Rows!NoMatch, Failure, Rows!Failure
<1> QED
  BY <1>2, <1>3

LEMMA ReadMaps ==
  ASSUME LabelsOK, NEW s \in Sessions, ReadLine(s)
  PROVE  Rows!Issue(s) \/ Rows!IssueCancel(s) \/ UNCHANGED Rows!vars
<1> USE DEF tables, locals, bounds, Rows!tables, Rows!locals, Rows!bounds
<1>1. At(s, "idle") /\ Rows!At(s, "idle")
  BY AtMaps DEF ReadLine, Labels
<1>2. ASSUME ReadCommand(s)
      PROVE  Rows!Issue(s) \/ Rows!IssueCancel(s)
  <2>1. PICK l \in Lines : Trade(s, l) \/ Cancel(s, l)
    BY <1>2 DEF ReadCommand
  <2>2. CASE Trade(s, l)
    <3>1. /\ CoinNamed[l[2].word] \in Items
          /\ Trunc(l[4].value) \in Quantities
          /\ l[3].value \in Prices
      BY <2>2, ConsoleAssumption DEF Trade
    <3>2. l[1].word \in Sides
      BY <2>2 DEF Trade, IsTrade, Is, Sides
    <3>3. Rows!Goto(s, "get_user")
      BY <2>2, GotoMaps DEF Trade, Labels
    <3> QED
      BY <1>1, <1>2, <2>2, <3>1, <3>2, <3>3
      DEF ReadCommand, Trade, CreateOrder, Rows!Issue, Rows!Sides, Sides
  <2>3. CASE Cancel(s, l)
    <3>1. Trunc(l[2].value) \in OrderIDs
      BY <2>3, ConsoleAssumption DEF Cancel
    <3>2. Rows!Goto(s, "cancel_get_order")
      BY <2>3, GotoMaps DEF Cancel, Labels, Cancelling
    <3> QED
      BY <1>1, <1>2, <2>3, <3>1, <3>2 DEF ReadCommand, Cancel, Rows!IssueCancel
  <2> QED
    BY <2>1, <2>2, <2>3
<1>3. ASSUME ReadOther(s)
      PROVE  UNCHANGED Rows!vars
  <2>1. \/ UNCHANGED pc
        \/ \E l \in QueryLabels \cup {"crashed"} : Goto(s, l)
    BY <1>3 DEF ReadOther, TradeUnknown, Query, Help, Invalid, Reply, QueryLabels
  <2>2. UNCHANGED Trading
    <3>1. CASE UNCHANGED pc
      BY <3>1 DEF Trading
    <3>2. ASSUME NEW l \in QueryLabels \cup {"crashed"}, Goto(s, l)
          PROVE  UNCHANGED Trading
      BY <1>1, <3>2, QuietMaps DEF At
    <3> QED
      BY <2>1, <3>1, <3>2
  <2> QED
    BY <1>3, <2>2 DEF ReadOther, TradeUnknown, Query, Help, Invalid, Reply, Rows!vars,
       tables, Rows!tables, locals, Rows!locals, bounds, Rows!bounds
<1> QED
  BY <1>2, <1>3 DEF ReadLine

\* A query and a query that fails change nothing that Market knows.
LEMMA QueryMaps ==
  ASSUME LabelsOK, NEW s \in Sessions, QueryStep(s) \/ QueryFails(s)
  PROVE  UNCHANGED Rows!vars
<1>1. /\ pc[s] \in QueryLabels
      /\ \E l \in QueryLabels \cup {"idle"} : Goto(s, l)
      /\ UNCHANGED <<tables, now, user, locals, ret, bounds>>
  BY DEF QueryStep, QueryFails, MyInventory, MyOrders, OpenOrders, ArchivedOrders,
         ViewBuys, ViewSells, Read, At, QueryLabels
<1>2. UNCHANGED Trading
  BY <1>1, QuietMaps
<1> QED
  BY <1>1, <1>2 DEF Rows!vars, tables, Rows!tables, locals, Rows!locals, bounds,
     Rows!bounds

\* Every step of the command loop is a step of Market, or none.
LEMMA NextMaps == LabelsOK /\ [ConsoleNext]_allVars => [Rows!Next]_Rows!vars
<1> SUFFICES ASSUME LabelsOK, [ConsoleNext]_allVars
             PROVE  Rows!Next \/ UNCHANGED Rows!vars
  OBVIOUS
<1>1. ASSUME NEW s \in Sessions, ReadLine(s)
      PROVE  Rows!Next \/ UNCHANGED Rows!vars
  BY <1>1, ReadMaps DEF Rows!Next
<1>2. ASSUME NEW s \in Sessions, QueryStep(s) \/ QueryFails(s)
      PROVE  UNCHANGED Rows!vars
  BY <1>2, QueryMaps
<1>3. ASSUME NEW s \in Sessions, TradeStep(s)
      PROVE  Rows!Next
  BY <1>3, StepMaps, FaultMaps DEF TradeStep, Rows!Next
<1>4. CASE Tick
  BY <1>4 DEF Tick, Rows!Tick, Rows!Next, Trading, tables, Rows!tables, locals,
              Rows!locals, bounds, Rows!bounds
<1>5. CASE UNCHANGED allVars
  BY <1>5 DEF allVars, vars, Rows!vars, Trading, tables, Rows!tables, locals,
              Rows!locals, bounds, Rows!bounds
<1> QED
  BY <1>1, <1>2, <1>3, <1>4, <1>5 DEF ConsoleNext, Finished

LEMMA InitMaps == ConsoleInit => Rows!Init
  BY DEF ConsoleInit, Init, Rows!Init, Trading, Labels, DefaultWallet,
         Rows!DefaultWallet, Coins, Rows!Coins, BlankOrder, Rows!BlankOrder,
         BlankWallet, Rows!BlankWallet, NoMatch, Rows!NoMatch, OK, Rows!OK

LEMMA LabelsInit == ConsoleInit => LabelsOK
  BY DEF ConsoleInit, Init, LabelsOK, Labels

LEMMA LabelsStep == LabelsOK /\ [ConsoleNext]_allVars => LabelsOK'
<1> SUFFICES ASSUME LabelsOK, [ConsoleNext]_allVars
             PROVE  LabelsOK'
  OBVIOUS
<1> USE DEF LabelsOK
<1>1. ASSUME NEW s \in Sessions,
             NEW l \in Labels \cup QueryLabels \cup {"crashed"}, Goto(s, l)
      PROVE  pc' \in [Sessions -> Labels \cup QueryLabels \cup {"crashed"}]
  BY <1>1 DEF Goto
<1>2. CASE UNCHANGED allVars \/ (Tick /\ UNCHANGED cvars)
  BY <1>2 DEF allVars, vars, cvars, Tick
<1>3. ASSUME NEW s \in Sessions, ReadLine(s)
      PROVE  LabelsOK'
  <2>1. UNCHANGED pc \/ \E l \in Labels \cup QueryLabels \cup {"crashed"} : Goto(s, l)
    BY <1>3 DEF ReadLine, ReadCommand, Trade, Cancel, ReadOther, TradeUnknown, Query,
                Help, Invalid, Reply, QueryLabels, Labels, Cancelling
  <2>2. DOMAIN answer' = Sessions
    BY <1>3 DEF ReadLine, ReadCommand, Trade, Cancel, ReadOther, TradeUnknown, Query,
                Help, Invalid, Reply, Begin
  <2> QED
    BY <1>1, <2>1, <2>2
<1>4. ASSUME NEW s \in Sessions, QueryStep(s) \/ QueryFails(s)
      PROVE  LabelsOK'
  <2>1. \E l \in Labels \cup QueryLabels \cup {"crashed"} : Goto(s, l)
    BY <1>4 DEF QueryStep, QueryFails, MyInventory, MyOrders, OpenOrders,
         ArchivedOrders, ViewBuys, ViewSells, Read, QueryLabels, Labels
  <2>2. DOMAIN answer' = Sessions
    BY <1>4 DEF QueryStep, QueryFails, MyInventory, MyOrders, OpenOrders,
         ArchivedOrders, ViewBuys, ViewSells, Read
  <2> QED
    BY <1>1, <2>1, <2>2
<1>5. ASSUME NEW s \in Sessions, TradeStep(s)
      PROVE  LabelsOK'
  <2>1. UNCHANGED pc \/ \E l \in Labels : Goto(s, l)
    BY <1>5 DEF TradeStep, Step, StatementFails, PrepareFails, GetUser, FindMatching,
         GetOrder, TakeMatch, ArchiveMatched, ArchiveOrder, UpdateSelf,
         GetCounterparty, UpdateCounterparty, SettleMatched, InsertGetUser,
         InsertOrder, InsertUpdateUser, CancelGetOrder, CancelGetUser,
         CancelUpdateUser, CancelDelete, Return, InsertFails, Labels, Settling,
         Inserting, Cancelling
  <2>2. UNCHANGED answer
    BY <1>5 DEF TradeStep
  <2> QED
    BY <1>1, <2>1, <2>2
<1> QED
  BY <1>2, <1>3, <1>4, <1>5 DEF ConsoleNext, Finished

\* The command loop runs the commands of buy, sell and cancel_order and disturbs
\* none: no query, no malformed line and no session that ends on one changes
\* anything the trades rest on.
THEOREM CommandLoopTrades == ConsoleSpec => MarketSpec
  BY LabelsInit, LabelsStep, InitMaps, NextMaps, PTL DEF ConsoleSpec, MarketSpec, Rows!Spec

-----------------------------------------------------------------------------
(* The answers *)

\* The fields of an answer.
AnswersOK ==
  \A s \in Sessions :
    DOMAIN answer[s] = {"query", "item", "due", "failed", "open", "archived",
                        "buys", "sells", "coins"}

\* What has become of order i, which rested under terms d: it still rests under
\* them, a trade has put it into the archives, or it was cancelled.
Recorded(d) == \E k \in DOMAIN archives : Terms(archives[k]) = d
Accounted(i, d) ==
  \/ i \in DOMAIN orders /\ Terms(orders[i]) = d
  \/ Recorded(d)
  \/ i \in cancelled

\* An answer to myOrders: before the first SELECT every order due is accounted for
\* in the tables, then what the first list lacks is in the archives or cancelled,
\* then what the first list lacks is in the second or cancelled.
OwnDue(s) == {i \in DOMAIN answer[s].due : answer[s].due[i].userID = user[s]}
OrdersAnswer(s) ==
  /\ pc[s] \in {"my_orders", "my_orders_archived", "idle"}
  /\ At(s, "my_orders") =>
       \A i \in OwnDue(s) : Accounted(i, answer[s].due[i])
  /\ At(s, "my_orders_archived") /\ ~answer[s].failed =>
       \A i \in OwnDue(s) : \/ i \in answer[s].open
                            \/ Recorded(answer[s].due[i])
                            \/ i \in cancelled
  /\ At(s, "idle") /\ ~answer[s].failed =>
       \A i \in OwnDue(s) : \/ i \in answer[s].open
                            \/ answer[s].due[i] \in answer[s].archived
                            \/ i \in cancelled

\* An order that is not listed is kept out by better or equal ones.
Best(list, i, o) ==
  (\A r \in list : r.orderID # i) =>
    /\ Cardinality(list) = TopCount
    /\ \A r \in list : IF o.side = "buy" THEN r.unitPrice >= o.unitPrice
                                         ELSE r.unitPrice <= o.unitPrice

\* An answer to view: an order due that still rests has its terms, and is in the
\* list of its side, once that is read, or kept out of it.
ViewAnswer(s) ==
  /\ pc[s] \in {"view_buys", "view_sells", "idle"}
  /\ \A i \in DOMAIN answer[s].due \cap DOMAIN orders :
       LET d == answer[s].due[i] IN
       /\ d = Terms(orders[i])
       /\ d.item = answer[s].item /\ ~answer[s].failed =>
            /\ d.side = "buy" /\ ~At(s, "view_buys") => Best(answer[s].buys, i, d)
            /\ d.side = "sell" /\ At(s, "idle") => Best(answer[s].sells, i, d)

AnswerOf(s) ==
  /\ answer[s].query \in {"orders", "view"} => DOMAIN answer[s].due \subseteq 1..orderSeq
  /\ answer[s].query = "orders" => OrdersAnswer(s)
  /\ answer[s].query = "view" => ViewAnswer(s)

\* What is proved of Market for every state.
BookOK == Rows!TypeOK /\ Rows!BookInv /\ Rows!RemovalInv
AnswerInv == LabelsOK /\ AnswersOK /\ BookOK /\ \A s \in Sessions : AnswerOf(s)

-----------------------------------------------------------------------------
(* What happens to an order that is due *)

LEMMA BookTypes ==
  ASSUME BookOK
  PROVE  /\ orderSeq \in Nat /\ DOMAIN orders \subseteq 1..orderSeq
         /\ \A i \in DOMAIN orders : orders[i].unitPrice \in Int
         /\ \A i \in DOMAIN orders : orders[i].side \in Sides
  BY DEF BookOK, Rows!TypeOK, Rows!TablesOK, Rows!Order, Rows!Sides, Sides

\* A row leaves to the archives or to those that were cancelled.
LEMMA LeavesAccounted ==
  ASSUME LabelsOK, BookOK, [ConsoleNext]_allVars,
         NEW i \in DOMAIN orders \ DOMAIN orders'
  PROVE  i \in cancelled' \/ Recorded(Terms(orders[i]))
<1>1. PICK s \in Sessions : TradeStep(s)
  BY DEF ConsoleNext, ReadLine, ReadCommand, ReadOther, QueryStep, QueryFails,
         MyInventory, MyOrders, OpenOrders, ArchivedOrders, ViewBuys, ViewSells, Read,
         Tick, Finished, allVars, vars, tables
<1>2. CASE CancelDelete(s)
  <2>1. orders' = [j \in DOMAIN orders \ {found[s]} |-> orders[j]]
        /\ At(s, "cancel_delete")
    BY <1>2 DEF CancelDelete, DeleteOrder
  <2>2. found[s] = i /\ orders' # orders
    BY <2>1
  <2> QED
    BY <1>1, <2>1, <2>2 DEF TradeStep
<1>3. CASE SettleMatched(s)
  <2>1. /\ At(s, "settle_matched")
        /\ WriteBack(found[s], Less(match[s], TxQuantity(ord[s], match[s])))
    BY <1>3 DEF SettleMatched
  <2>2. found[s] = i
    BY <2>1 DEF WriteBack, DeleteOrder, UpdateOrder
  <2>3. Trading[s] = "settle_matched"
    BY <2>1 DEF Trading, At, Labels, Settling
  <2>4. Trading[s] \in Rows!Settling /\ Trading[s] \in Rows!Recorded
    BY <2>3 DEF Rows!Settling, Rows!Recorded
  <2>5. Terms(match[s]) = Terms(orders[i])
    BY <2>2, <2>4 DEF BookOK, Rows!BookInv, Rows!Terms, Terms
  <2>6. \E k \in DOMAIN archives : archives[k] = match[s]
    BY <2>4 DEF BookOK, Rows!RemovalInv
  <2> QED
    BY <2>5, <2>6 DEF Recorded
<1>4. CASE UNCHANGED orders \/ InsertOrder(s)
  BY <1>4 DEF InsertOrder, InsertRow, WithRow
<1> QED
  BY <1>1, <1>2, <1>3, <1>4 DEF TradeStep, Step, StatementFails, PrepareFails, tables,
     GetUser, FindMatching, GetOrder, ArchiveMatched, ArchiveOrder, UpdateSelf,
     GetCounterparty, UpdateCounterparty, InsertGetUser, InsertUpdateUser,
     CancelGetOrder, CancelGetUser, CancelUpdateUser

\* Once archived or cancelled, always so; no session changes its user.
LEMMA RecordsStay ==
  ASSUME LabelsOK, BookOK, [ConsoleNext]_allVars
  PROVE  /\ \A d : Recorded(d) => Recorded(d)'
         /\ cancelled \subseteq cancelled'
         /\ UNCHANGED user
         /\ orderSeq \in Nat /\ orderSeq' \in Nat /\ orderSeq <= orderSeq'
<1>1. [Rows!Next]_Rows!vars
  BY NextMaps
<1>2. /\ \A k \in DOMAIN archives : k \in DOMAIN archives' /\ archives'[k] = archives[k]
      /\ UNCHANGED user
  BY <1>1, Rows!ArchivesGrow, SameAssumptions
  DEF BookOK, Rows!Coins, Coins
<1>3. cancelled \subseteq cancelled'
  BY DEF ConsoleNext, ReadLine, ReadCommand, ReadOther, QueryStep, QueryFails,
         MyInventory, MyOrders, OpenOrders, ArchivedOrders, ViewBuys, ViewSells, Read,
         TradeStep, Tick, Finished, allVars, cvars
<1>4. orderSeq \in Nat /\ orderSeq' \in Nat /\ orderSeq <= orderSeq'
  BY <1>1, BookTypes, Rows!OrdersStep, SameAssumptions
  DEF BookOK, Rows!RowsKept, Rows!RowPosted, Rows!Coins, Coins
<1> QED
  BY <1>2, <1>3, <1>4 DEF Recorded

\* A row that stays keeps its terms, and no new row has an old id.
LEMMA RowStays ==
  ASSUME LabelsOK, BookOK, [ConsoleNext]_allVars, NEW i \in 1..orderSeq,
         i \in DOMAIN orders'
  PROVE  i \in DOMAIN orders /\ Terms(orders'[i]) = Terms(orders[i])
<1>1. [Rows!Next]_Rows!vars
  BY NextMaps
<1>2. i # orderSeq + 1
  BY BookTypes
<1> QED
  BY <1>1, <1>2, Rows!RowOrigin, SameAssumptions
  DEF BookOK, Rows!Terms, Terms, Rows!Coins, Coins

LEMMA AccountedStays ==
  ASSUME LabelsOK, BookOK, [ConsoleNext]_allVars, NEW i \in 1..orderSeq, NEW d,
         Accounted(i, d)
  PROVE  Accounted(i, d)'
<1>1. CASE i \in DOMAIN orders /\ Terms(orders[i]) = d /\ i \in DOMAIN orders'
  BY <1>1, RowStays DEF Accounted
<1>2. CASE i \in DOMAIN orders /\ Terms(orders[i]) = d /\ i \notin DOMAIN orders'
  BY <1>2, LeavesAccounted, RecordsStay DEF Accounted
<1>3. CASE Recorded(d) \/ i \in cancelled
  BY <1>3, RecordsStay DEF Accounted
<1> QED
  BY <1>1, <1>2, <1>3 DEF Accounted

\* An answer of a session that did nothing remains right.
LEMMA AnswerStays ==
  ASSUME AnswerInv, [ConsoleNext]_allVars, NEW s \in Sessions,
         answer'[s] = answer[s], pc'[s] = pc[s]
  PROVE  AnswerOf(s)'
<1> USE DEF AnswerInv
<1>1. AnswerOf(s) /\ user'[s] = user[s]
  BY RecordsStay
<1>2. ASSUME answer[s].query \in {"orders", "view"}
      PROVE  DOMAIN answer[s].due \subseteq 1..orderSeq
             /\ DOMAIN answer[s].due \subseteq 1..orderSeq'
  BY <1>1, <1>2, RecordsStay DEF AnswerOf
<1>3. ASSUME answer[s].query = "orders"
      PROVE  OrdersAnswer(s)'
  <2>1. OrdersAnswer(s)
    BY <1>1, <1>3 DEF AnswerOf
  <2>2. OwnDue(s)' = OwnDue(s) /\ OwnDue(s) \subseteq 1..orderSeq
    BY <1>1, <1>2, <1>3 DEF OwnDue
  <2>3. ASSUME NEW i \in OwnDue(s), At(s, "my_orders")
        PROVE  Accounted(i, answer[s].due[i])'
    <3>1. Accounted(i, answer[s].due[i]) /\ i \in 1..orderSeq
      BY <2>1, <2>2, <2>3 DEF OrdersAnswer
    <3> QED
      BY <3>1, AccountedStays DEF Accounted, Recorded
  <2>4. /\ \A i \in OwnDue(s) : Recorded(answer[s].due[i]) => Recorded(answer[s].due[i])'
        /\ cancelled \subseteq cancelled'
    BY RecordsStay DEF Recorded
  <2> QED
    BY <2>1, <2>2, <2>3, <2>4 DEF OrdersAnswer, At
<1>4. ASSUME answer[s].query = "view"
      PROVE  ViewAnswer(s)'
  <2>1. ViewAnswer(s)
    BY <1>1, <1>4 DEF AnswerOf
  <2>2. \A i \in DOMAIN answer[s].due \cap DOMAIN orders' :
          i \in DOMAIN orders /\ Terms(orders'[i]) = Terms(orders[i])
    BY <1>2, <1>4, RowStays
  <2>3. \A i \in DOMAIN answer[s].due \cap DOMAIN orders :
          LET d == answer[s].due[i] IN
          /\ d = Terms(orders[i])
          /\ d.item = answer[s].item /\ ~answer[s].failed =>
               /\ d.side = "buy" /\ pc[s] # "view_buys" => Best(answer[s].buys, i, d)
               /\ d.side = "sell" /\ pc[s] = "idle" => Best(answer[s].sells, i, d)
    BY <2>1 DEF ViewAnswer, At
  <2>4. \A i, d : /\ Best(answer[s].buys, i, d)' <=> Best(answer[s].buys, i, d)
                  /\ Best(answer[s].sells, i, d)' <=> Best(answer[s].sells, i, d)
    BY DEF Best
  <2> QED
    BY <2>1, <2>2, <2>3, <2>4 DEF ViewAnswer, At
<1> QED
  BY <1>2, <1>3, <1>4 DEF AnswerOf

\* A line that is read is answered with nothing yet, or begins a query of what
\* rests now.
LEMMA AnswerBegins ==
  ASSUME AnswerInv, NEW s \in Sessions, ReadLine(s)
  PROVE  AnswerOf(s)'
<1> USE DEF AnswerInv
<1>1. NoAnswer.query = "none"
  BY DEF NoAnswer
<1>2. CASE answer'[s] = NoAnswer
  BY <1>1, <1>2 DEF AnswerOf
<1>3. UNCHANGED <<orders, orderSeq, archives, user>>
  BY DEF ReadLine, ReadCommand, ReadOther, tables
<1>4. ASSUME NEW q, NEW c, NEW l, Begin(s, q, c), Goto(s, l)
      PROVE  /\ answer'[s].query = q /\ answer'[s].item = c
             /\ answer'[s].due = [i \in DOMAIN orders |-> Terms(orders[i])]
             /\ pc'[s] = l
  BY <1>4 DEF Begin, NoAnswer, LabelsOK, Goto
<1>5. CASE Begin(s, "inventory", "OMG") /\ Goto(s, "my_inventory")
  <2>1. answer'[s].query = "inventory"
    BY <1>4, <1>5
  <2> QED
    BY <2>1 DEF AnswerOf
<1>6. CASE Begin(s, "orders", "OMG") /\ Goto(s, "my_orders")
  <2>1. DOMAIN answer'[s].due = DOMAIN orders'
        /\ \A i \in DOMAIN orders' : answer'[s].due[i] = Terms(orders'[i])
    BY <1>3, <1>4, <1>6
  <2>2. answer'[s].query = "orders" /\ pc'[s] = "my_orders"
    BY <1>4, <1>6
  <2>3. \A i \in OwnDue(s)' : Accounted(i, answer[s].due[i])'
    BY <2>1 DEF Accounted, OwnDue
  <2>4. OrdersAnswer(s)'
    BY <2>2, <2>3 DEF OrdersAnswer, At
  <2>5. DOMAIN answer'[s].due \subseteq 1..orderSeq'
    BY <1>3, <2>1, BookTypes
  <2> QED
    BY <2>2, <2>4, <2>5 DEF AnswerOf
<1>7. ASSUME NEW c, Begin(s, "view", c), Goto(s, "view_buys")
      PROVE  AnswerOf(s)'
  <2>1. DOMAIN answer'[s].due = DOMAIN orders'
        /\ \A i \in DOMAIN orders' : answer'[s].due[i] = Terms(orders'[i])
    BY <1>3, <1>4, <1>7
  <2>2. answer'[s].query = "view" /\ pc'[s] = "view_buys"
    BY <1>4, <1>7
  <2>3. \A i \in DOMAIN answer'[s].due \cap DOMAIN orders' :
          answer'[s].due[i] = Terms(orders'[i]) /\ answer'[s].due[i].side \in Sides
    BY <1>3, <2>1, BookTypes DEF Terms
  <2>4. ViewAnswer(s)'
    BY <2>2, <2>3 DEF ViewAnswer, At, Sides
  <2>5. DOMAIN answer'[s].due \subseteq 1..orderSeq'
    BY <1>3, <2>1, BookTypes
  <2> QED
    BY <2>2, <2>4, <2>5 DEF AnswerOf
<1> QED
  BY <1>2, <1>5, <1>6, <1>7 DEF LabelsOK, ReadLine, ReadCommand, ReadOther, Trade,
     Cancel, TradeUnknown, Query, Help, Invalid, Reply

\* The rows view selects of one side keep out none that is better.
LEMMA ListedBest ==
  ASSUME BookOK, NEW side \in Sides, NEW c, NEW T \in Listed(side, c),
         NEW i \in DOMAIN orders, orders[i].item = c, orders[i].side = side
  PROVE  Best(T, i, Terms(orders[i]))
<1> DEFINE R == {j \in DOMAIN orders : orders[j].item = c /\ orders[j].side = side}
           row(j) == [orderID |-> j, unitPrice |-> orders[j].unitPrice]
           S == {row(j) : j \in R}
<1>1. /\ T \subseteq S
      /\ Cardinality(T) = IF Cardinality(S) < TopCount THEN Cardinality(S) ELSE TopCount
      /\ \A t \in T, r \in S \ T : ~Before(side, r.unitPrice, t.unitPrice)
  BY DEF Listed
<1>2. \A r \in S : r.unitPrice \in Int
  BY BookTypes
<1>3. row(i) \in S /\ orders[i].unitPrice \in Int
  BY BookTypes
<1>4. IsFiniteSet(S)
  <2>1. IsFiniteSet(1..orderSeq)
    <3>1. orderSeq \in Int
      BY BookTypes
    <3> QED
      BY <3>1, FS_Interval
  <2>2. IsFiniteSet(R)
    BY <2>1, BookTypes, FS_Subset
  <2> DEFINE f == [j \in R |-> row(j)]
  <2>3. f \in Surjection(R, S)
    BY DEF Surjection
  <2> QED
    BY <2>2, <2>3, FS_Surjection
<1>5. SUFFICES ASSUME \A r \in T : r.orderID # i
               PROVE  /\ Cardinality(T) = TopCount
                      /\ \A r \in T : IF side = "buy" THEN r.unitPrice >= orders[i].unitPrice
                                                       ELSE r.unitPrice <= orders[i].unitPrice
  BY DEF Best, Terms
<1>6. row(i) \notin T
  BY <1>5
<1>7. Cardinality(T) # Cardinality(S)
  BY <1>1, <1>3, <1>4, <1>6, FS_Subset
<1>8. \A r \in T : ~Before(side, orders[i].unitPrice, r.unitPrice)
  BY <1>1, <1>3, <1>6
<1>9. \A r \in T : r.unitPrice \in Int
  BY <1>1, <1>2
<1> HIDE DEF S, row, R
<1> QED
  BY <1>1, <1>3, <1>7, <1>8, <1>9 DEF Before

\* A SELECT of a query fills its part of the answer, or the answer has failed.
LEMMA AnswerAdvances ==
  ASSUME AnswerInv, NEW s \in Sessions, QueryStep(s) \/ QueryFails(s)
  PROVE  AnswerOf(s)'
<1> DEFINE a == answer[s]
<1>1. AnswerOf(s) /\ LabelsOK /\ AnswersOK /\ BookOK
  BY DEF AnswerInv
<1>2. UNCHANGED <<orders, orderSeq, archives, user, cancelled>>
  BY DEF QueryStep, QueryFails, MyInventory, MyOrders, OpenOrders, ArchivedOrders,
         ViewBuys, ViewSells, Read, tables
<1>3. answer'[s].query = a.query /\ answer'[s].item = a.item /\ answer'[s].due = a.due
  BY <1>1 DEF AnswersOK, LabelsOK, QueryStep, QueryFails, MyInventory, MyOrders,
         OpenOrders, ArchivedOrders, ViewBuys, ViewSells, Read
<1>4. a.query \in {"orders", "view"} => DOMAIN answer'[s].due \subseteq 1..orderSeq'
  BY <1>1, <1>2, <1>3 DEF AnswerOf
<1>5. OwnDue(s)' = OwnDue(s)
  BY <1>2, <1>3 DEF OwnDue
<1>6. CASE a.query \notin {"orders", "view"}
  BY <1>3, <1>6 DEF AnswerOf
<1>7. CASE QueryFails(s)
  <2>1. answer'[s].failed /\ pc[s] \in QueryLabels
        /\ CASE pc[s] = "my_orders" -> pc'[s] = "my_orders_archived"
             [] pc[s] = "view_buys" -> pc'[s] \in {"view_sells", "idle"}
             [] OTHER -> pc'[s] = "idle"
    BY <1>1, <1>7 DEF QueryFails, QueryLabels, AnswersOK, LabelsOK, Goto, At
  <2>2. a.query = "orders" => OrdersAnswer(s)'
    BY <1>1, <2>1 DEF OrdersAnswer, AnswerOf, At
  <2>3. a.query = "view" => ViewAnswer(s)'
    BY <1>1, <1>2, <1>3, <2>1 DEF ViewAnswer, AnswerOf, At
  <2> QED
    BY <1>3, <1>4, <2>2, <2>3 DEF AnswerOf
<1>8. CASE OpenOrders(s)
  <2>1. /\ pc[s] = "my_orders" /\ pc'[s] = "my_orders_archived"
        /\ answer'[s].open = OwnOpen(s) /\ answer'[s].failed = a.failed
    BY <1>1, <1>8 DEF OpenOrders, Read, AnswersOK, LabelsOK, Goto, At
  <2>2. a.query # "view"
    BY <1>1, <2>1 DEF AnswerOf, ViewAnswer
  <2>3. ASSUME a.query = "orders"
        PROVE  OrdersAnswer(s)'
    <3>1. \A i \in OwnDue(s) : Accounted(i, a.due[i])
      BY <1>1, <2>1, <2>3 DEF AnswerOf, OrdersAnswer, At
    <3>2. ASSUME NEW i \in OwnDue(s), i \in DOMAIN orders, Terms(orders[i]) = a.due[i]
          PROVE  i \in answer'[s].open
      BY <2>1, <3>2 DEF OwnOpen, OwnDue, Terms
    <3>3. \A i \in OwnDue(s) : \/ i \in answer'[s].open
                               \/ Recorded(a.due[i])
                               \/ i \in cancelled
      BY <3>1, <3>2 DEF Accounted
    <3>4. \A d : Recorded(d) => Recorded(d)'
      BY <1>2 DEF Recorded
    <3> QED
      BY <1>2, <1>3, <1>5, <2>1, <3>3, <3>4 DEF OrdersAnswer, At
  <2> QED
    BY <1>3, <1>4, <2>2, <2>3 DEF AnswerOf
<1>9. CASE ArchivedOrders(s)
  <2>1. /\ pc[s] = "my_orders_archived" /\ pc'[s] = "idle"
        /\ answer'[s].archived = OwnArchived(s) /\ answer'[s].failed = a.failed
        /\ answer'[s].open = a.open
    BY <1>1, <1>9 DEF ArchivedOrders, Read, AnswersOK, LabelsOK, Goto, At
  <2>2. a.query # "view"
    BY <1>1, <2>1 DEF AnswerOf, ViewAnswer
  <2>3. ASSUME a.query = "orders"
        PROVE  OrdersAnswer(s)'
    <3>1. ~a.failed => \A i \in OwnDue(s) : \/ i \in a.open
                                           \/ Recorded(a.due[i])
                                           \/ i \in cancelled
      BY <1>1, <2>1, <2>3 DEF AnswerOf, OrdersAnswer, At
    <3>2. ASSUME NEW i \in OwnDue(s), Recorded(a.due[i])
          PROVE  a.due[i] \in answer'[s].archived
      BY <2>1, <3>2 DEF OwnArchived, OwnDue, Recorded, Terms
    <3> QED
      BY <1>2, <1>3, <1>5, <2>1, <3>1, <3>2 DEF OrdersAnswer, At
  <2> QED
    BY <1>3, <1>4, <2>2, <2>3 DEF AnswerOf
<1>10. CASE MyInventory(s)
  BY <1>1, <1>6, <1>10 DEF AnswerOf, OrdersAnswer, ViewAnswer, MyInventory, At
<1>11. ASSUME a.query = "view", ViewBuys(s) \/ ViewSells(s)
       PROVE  AnswerOf(s)'
  <2>1. \A i \in DOMAIN a.due \cap DOMAIN orders :
          /\ a.due[i] = Terms(orders[i])
          /\ a.due[i].item = a.item /\ ~a.failed =>
               /\ a.due[i].side = "buy" /\ pc[s] # "view_buys" => Best(a.buys, i, a.due[i])
               /\ a.due[i].side = "sell" /\ pc[s] = "idle" => Best(a.sells, i, a.due[i])
    BY <1>1, <1>11 DEF AnswerOf, ViewAnswer, At
  <2>2. ASSUME NEW side \in Sides, NEW T \in Listed(side, a.item),
               NEW i \in DOMAIN a.due \cap DOMAIN orders,
               a.due[i].item = a.item, a.due[i].side = side
        PROVE  Best(T, i, a.due[i])
    <3>1. /\ a.due[i] = Terms(orders[i])
          /\ orders[i].item = a.item /\ orders[i].side = side
      BY <2>1, <2>2 DEF Terms
    <3> QED
      BY <1>1, <2>2, <3>1, ListedBest
  <2>3. CASE ViewBuys(s)
    <3>1. PICK T \in Listed("buy", a.item) :
            /\ pc'[s] = "view_sells" /\ answer'[s].buys = T
            /\ answer'[s].failed = a.failed
      BY <1>1, <2>3 DEF ViewBuys, Read, AnswersOK, LabelsOK, Goto, At
    <3>2. \A i \in DOMAIN a.due \cap DOMAIN orders :
            a.due[i].item = a.item /\ a.due[i].side = "buy" => Best(T, i, a.due[i])
      BY <2>2 DEF Sides
    <3>3. \A i, d : Best(answer[s].buys, i, d)' <=> Best(T, i, d)
      BY <3>1 DEF Best
    <3>4. ViewAnswer(s)'
      BY <1>2, <1>3, <2>1, <3>1, <3>2, <3>3 DEF ViewAnswer, At
    <3> QED
      BY <1>3, <1>4, <1>11, <3>4 DEF AnswerOf
  <2>4. CASE ViewSells(s)
    <3>1. PICK T \in Listed("sell", a.item) :
            /\ pc[s] = "view_sells" /\ pc'[s] = "idle" /\ answer'[s].sells = T
            /\ answer'[s].failed = a.failed /\ answer'[s].buys = a.buys
      BY <1>1, <2>4 DEF ViewSells, Read, AnswersOK, LabelsOK, Goto, At
    <3>2. \A i \in DOMAIN a.due \cap DOMAIN orders :
            a.due[i].item = a.item /\ a.due[i].side = "sell" => Best(T, i, a.due[i])
      BY <2>2 DEF Sides
    <3>3. \A i, d : /\ Best(answer[s].sells, i, d)' <=> Best(T, i, d)
                    /\ Best(answer[s].buys, i, d)' <=> Best(a.buys, i, d)
      BY <3>1 DEF Best
    <3>4. ViewAnswer(s)'
      BY <1>2, <1>3, <2>1, <3>1, <3>2, <3>3 DEF ViewAnswer, At
    <3> QED
      BY <1>3, <1>4, <1>11, <3>4 DEF AnswerOf
  <2> QED
    BY <1>11, <2>3, <2>4
<1>12. CASE ViewBuys(s) \/ ViewSells(s)
  <2>1. a.query # "orders"
    BY <1>1, <1>12 DEF AnswerOf, OrdersAnswer, ViewBuys, ViewSells, At
  <2> QED
    BY <1>6, <1>11, <1>12, <2>1
<1> QED
  BY <1>7, <1>8, <1>9, <1>10, <1>12 DEF QueryStep, MyOrders

-----------------------------------------------------------------------------
(* The theorems *)

\* Only its own steps change the label and the answer of a session.
LEMMA OthersAnswer ==
  ASSUME LabelsOK, [ConsoleNext]_allVars, NEW s \in Sessions
  PROVE  \/ ReadLine(s) \/ QueryStep(s) \/ QueryFails(s)
         \/ pc[s] \in Labels \ {"idle"} /\ answer'[s] = answer[s]
         \/ pc'[s] = pc[s] /\ answer'[s] = answer[s]
<1>1. ASSUME NEW t \in Sessions, TradeStep(t)
      PROVE  /\ answer' = answer /\ pc[t] \in Labels \ {"idle"}
             /\ pc' = pc \/ \E l : Goto(t, l)
  BY <1>1 DEF TradeStep, Step, StatementFails, PrepareFails, GetUser, FindMatching,
     GetOrder, TakeMatch, ArchiveMatched, ArchiveOrder, UpdateSelf,
     GetCounterparty, UpdateCounterparty, SettleMatched, InsertGetUser,
     InsertOrder, InsertUpdateUser, CancelGetOrder, CancelGetUser,
     CancelUpdateUser, CancelDelete, Return, InsertFails, At, Labels, Settling,
     Inserting, Cancelling
<1>2. ASSUME NEW t \in Sessions, t # s, ReadLine(t) \/ QueryStep(t) \/ QueryFails(t)
      PROVE  pc'[s] = pc[s] /\ answer'[s] = answer[s]
  BY <1>2 DEF LabelsOK, Goto, ReadLine, ReadCommand, Trade, Cancel, ReadOther,
     TradeUnknown, Query, Begin, Help, Invalid, Reply, QueryStep, QueryFails,
     MyInventory, MyOrders, OpenOrders, ArchivedOrders, ViewBuys, ViewSells, Read
<1>3. CASE (Tick /\ UNCHANGED cvars) \/ UNCHANGED allVars
  BY <1>3 DEF Tick, cvars, allVars, vars
<1>4. ASSUME NEW t \in Sessions, TradeStep(t)
      PROVE  \/ pc[s] \in Labels \ {"idle"} /\ answer'[s] = answer[s]
             \/ pc'[s] = pc[s] /\ answer'[s] = answer[s]
  BY <1>1, <1>4 DEF LabelsOK, Goto
<1> QED
  BY <1>2, <1>3, <1>4 DEF ConsoleNext, Finished

LEMMA AnswersStep ==
  ASSUME LabelsOK, AnswersOK, [ConsoleNext]_allVars
  PROVE  AnswersOK'
<1> SUFFICES ASSUME NEW s \in Sessions
             PROVE  DOMAIN answer'[s] = DOMAIN answer[s] \/ answer'[s] = NoAnswer
                    \/ \E q, c : Begin(s, q, c)
  BY DEF AnswersOK, LabelsOK, NoAnswer, Begin
<1>1. CASE ReadLine(s)
  BY <1>1 DEF LabelsOK, ReadLine, ReadCommand, Trade, Cancel, ReadOther,
     TradeUnknown, Query, Help, Invalid, Reply
<1>2. CASE QueryStep(s) \/ QueryFails(s)
  BY <1>2 DEF LabelsOK, QueryStep, QueryFails, MyInventory, MyOrders, OpenOrders,
     ArchivedOrders, ViewBuys, ViewSells, Read
<1> QED
  BY <1>1, <1>2, OthersAnswer

LEMMA AnswerInvInit == ConsoleInit => AnswerInv
<1> SUFFICES ASSUME ConsoleInit PROVE AnswerInv
  OBVIOUS
<1>1. \A s \in Sessions : answer[s] = NoAnswer
  BY DEF ConsoleInit
<1>2. AnswersOK /\ \A s \in Sessions : AnswerOf(s)
  BY <1>1 DEF AnswersOK, AnswerOf, NoAnswer
<1>3. BookOK
  BY InitMaps, Rows!InitType, Rows!BookInvInit, Rows!RemovalInvInit,
     SameAssumptions DEF BookOK, Rows!Coins, Coins
<1> QED
  BY <1>2, <1>3, LabelsInit DEF AnswerInv

LEMMA AnswerInvStep == AnswerInv /\ [ConsoleNext]_allVars => AnswerInv'
<1> SUFFICES ASSUME AnswerInv, [ConsoleNext]_allVars
             PROVE  AnswerInv'
  OBVIOUS
<1>1. LabelsOK /\ AnswersOK /\ BookOK
  BY DEF AnswerInv
<1>2. LabelsOK' /\ AnswersOK'
  BY <1>1, LabelsStep, AnswersStep
<1>3. BookOK'
  BY <1>1, NextMaps, Rows!TypeStep, Rows!BookInvStep, Rows!RemovalInvStep,
     SameAssumptions DEF BookOK, Rows!Coins, Coins
<1>4. ASSUME NEW s \in Sessions
      PROVE  AnswerOf(s)'
  <2>1. CASE pc'[s] = pc[s] /\ answer'[s] = answer[s]
    BY <2>1, AnswerStays
  <2>2. CASE pc[s] \in Labels \ {"idle"} /\ answer'[s] = answer[s]
    <3>1. pc[s] \notin {"my_orders", "my_orders_archived", "view_buys", "view_sells", "idle"}
      BY <2>2 DEF Labels, Settling, Inserting, Cancelling
    <3>2. answer[s].query \notin {"orders", "view"}
      BY <3>1 DEF AnswerInv, AnswerOf, OrdersAnswer, ViewAnswer
    <3> QED
      BY <2>2, <3>2 DEF AnswerOf
  <2> QED
    BY <1>1, <2>1, <2>2, AnswerBegins, AnswerAdvances, OthersAnswer
<1> QED
  BY <1>2, <1>3, <1>4 DEF AnswerInv

\* myOrders loses no order between its two lists: what rested when the line was
\* read is open, archived or cancelled, whatever the other sessions fill and
\* cancel meanwhile and whatever fails for them.
THEOREM NothingIsMissing == ConsoleSpec => []NothingMissing
<1>1. AnswerInv => NothingMissing
  BY DEF AnswerInv, AnswerOf, OrdersAnswer, OwnDue, NothingMissing, Done
<1> QED
  BY <1>1, AnswerInvInit, AnswerInvStep, PTL DEF ConsoleSpec

\* view keeps no order out of a list for a worse one, for any number of listed
\* orders and whatever happens between its two SELECTs.
THEOREM ViewShowsTheBest == ConsoleSpec => []ShowsTheBest
<1>1. AnswerInv => ShowsTheBest
  <2> SUFFICES ASSUME AnswerInv, NEW s \in Sessions, Done(s, "view"),
                      NEW i \in DOMAIN answer[s].due \cap DOMAIN orders,
                      orders[i].item = answer[s].item
               PROVE  Best(IF orders[i].side = "buy" THEN answer[s].buys
                                                     ELSE answer[s].sells, i, orders[i])
    BY DEF ShowsTheBest, Best
  <2>1. /\ answer[s].due[i] = Terms(orders[i])
        /\ orders[i].side = "buy" => Best(answer[s].buys, i, Terms(orders[i]))
        /\ orders[i].side = "sell" => Best(answer[s].sells, i, Terms(orders[i]))
    BY DEF AnswerInv, AnswerOf, ViewAnswer, Done, At, Terms
  <2>2. orders[i].side \in Sides
    BY BookTypes DEF AnswerInv
  <2> QED
    BY <2>1, <2>2 DEF Sides, Best, Terms
<1> QED
  BY <1>1, AnswerInvInit, AnswerInvStep, PTL DEF ConsoleSpec
=============================================================================
