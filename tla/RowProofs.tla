---------------------------- MODULE RowProofs -----------------------------
(*************************************************************************)
(* How the rows of table orders come to leave, that no trade leaves one  *)
(* for nothing, and that every trade is archived on both sides.  Counting*)
(* the archives needs the trades that are between their two              *)
(* archive_order calls, and a credit for each search whose error code    *)
(* was taken for an orderID: it may end in a trade of two orders of the  *)
(* same side.                                                            *)
(*************************************************************************)
EXTENDS MarketProofs, SequenceTheorems, FiniteSetTheorems

-----------------------------------------------------------------------------
(* Removal *)

\* The labels of cancel_order once the owner is checked, and of a trade once
\* the matched order is archived.
Refunding == Cancelling \ {"cancel_get_order"}
Recorded == Settling \ {"archive_matched"}

\* A session that refunds an order holds an id of its own user's, and a trade
\* that is recorded has its matched order in the archives.
RemovalInv ==
  \A s \in Sessions :
    /\ pc[s] \in Refunding =>
         /\ found[s] \in 1..orderSeq
         /\ found[s] \in DOMAIN orders => orders[found[s]].userID = user[s]
    /\ pc[s] \in Recorded => \E k \in DOMAIN archives : archives[k] = match[s]

\* archives only grows, and no session changes its user.
LEMMA ArchivesGrow ==
  ASSUME TypeOK, [Next]_vars
  PROVE  /\ \A k \in DOMAIN archives : k \in DOMAIN archives' /\ archives'[k] = archives[k]
         /\ UNCHANGED user
<1>1. UNCHANGED user
  BY DEF Next, Step, Waiting, Tick, vars, Issue, IssueCancel, StatementFails,
         PrepareFails, GetUser, FindMatching, GetOrder, ArchiveMatched, ArchiveOrder,
         UpdateSelf, GetCounterparty, UpdateCounterparty, SettleMatched,
         InsertGetUser, InsertOrder, InsertUpdateUser, CancelGetOrder,
         CancelGetUser, CancelUpdateUser, CancelDelete
<1>2. ASSUME NEW s \in Sessions, ArchiveMatched(s) \/ ArchiveOrder(s)
      PROVE  \E o \in Order : archives' = Append(archives, o)
  BY <1>2 DEF ArchiveMatched, ArchiveOrder, InsertArchive, TypeOK, LocalsOK
<1>3. (\E s \in Sessions : ArchiveMatched(s) \/ ArchiveOrder(s)) \/ UNCHANGED archives
  BY DEF Next, Step, Waiting, Tick, vars, tables, Issue, IssueCancel, StatementFails,
         PrepareFails, GetUser, FindMatching, GetOrder,
         UpdateSelf, GetCounterparty, UpdateCounterparty, SettleMatched,
         InsertGetUser, InsertOrder, InsertUpdateUser, CancelGetOrder,
         CancelGetUser, CancelUpdateUser, CancelDelete
<1>4. archives \in Seq(Order)
  BY DEF TypeOK, TablesOK
<1> QED
  BY <1>1, <1>2, <1>3, <1>4, AppendProperties

\* A session that refunds was refunding the same order, or has just read an
\* order of its user's.
LEMMA RefundingStep ==
  ASSUME TypeOK, [Next]_vars, NEW t \in Sessions, pc'[t] \in Refunding
  PROVE  \/ pc[t] \in Refunding /\ LocalsStay(t)
         \/ OwnOrder(t) /\ found'[t] = found[t] /\ UNCHANGED <<orders, orderSeq>>
<1> USE DEF TypeOK
<1>1. CASE UNCHANGED vars \/ Tick
  BY <1>1 DEF vars, locals, Tick, LocalsStay
<1>2. ASSUME NEW s \in Sessions, s # t, Acts(s)
      PROVE  pc'[t] = pc[t] /\ LocalsStay(t)
  BY <1>2, OthersStay
<1>3. CASE CancelGetOrder(t)
  <2>1. CASE Return(t, Failure)
    BY <2>1 DEF Return, Goto, LocalsOK, Refunding, Cancelling
  <2>2. CASE OwnOrder(t) /\ UNCHANGED found
    BY <1>3, <2>2 DEF CancelGetOrder, tables
  <2> QED
    BY <1>3, <2>1, <2>2 DEF CancelGetOrder
<1>4. CASE CancelGetUser(t) \/ CancelUpdateUser(t)
  BY <1>4 DEF CancelGetUser, CancelUpdateUser, ReadWallet, LocalsStay, locals, At,
              Refunding, Cancelling
<1>5. CASE \/ Issue(t) \/ IssueCancel(t) \/ StatementFails(t) \/ PrepareFails(t)
           \/ GetUser(t) \/ FindMatching(t) \/ GetOrder(t) \/ ArchiveMatched(t)
           \/ ArchiveOrder(t) \/ UpdateSelf(t) \/ GetCounterparty(t)
           \/ UpdateCounterparty(t) \/ SettleMatched(t) \/ InsertGetUser(t)
           \/ InsertOrder(t) \/ InsertUpdateUser(t) \/ CancelDelete(t)
  <2>1. pc'[t] \notin Refunding
    BY <1>5 DEF LocalsOK, Refunding, Cancelling, Goto, Return, InsertFails, TakeMatch,
                Issue, IssueCancel, StatementFails, PrepareFails, GetUser,
                FindMatching, GetOrder, ArchiveMatched, ArchiveOrder, UpdateSelf,
                GetCounterparty, UpdateCounterparty, SettleMatched, InsertGetUser,
                InsertOrder, InsertUpdateUser, CancelDelete
  <2> QED
    BY <2>1
<1> QED
  BY <1>1, <1>2, <1>3, <1>4, <1>5 DEF Next, Acts, Step, Waiting

\* A recorded trade was recorded before, or is recorded by the step.
LEMMA RecordedStep ==
  ASSUME TypeOK, [Next]_vars, NEW t \in Sessions, pc'[t] \in Recorded
  PROVE  \/ pc[t] \in Recorded /\ LocalsStay(t)
         \/ InsertArchive(match[t]) /\ LocalsStay(t)
<1> USE DEF TypeOK
<1>1. pc'[t] \in Settling
  BY DEF Recorded
<1>2. CASE pc[t] \in Settling /\ LocalsStay(t) /\ pc[t] # "archive_matched"
  BY <1>2 DEF Recorded
<1>3. CASE pc[t] = "archive_matched" /\ LocalsStay(t)
  <2>1. CASE pc'[t] = pc[t]
    BY <1>3, <2>1 DEF Recorded
  <2>2. CASE ArchiveMatched(t)
    BY <1>3, <2>2 DEF ArchiveMatched
  <2>3. CASE StatementFails(t)
    BY <1>1, <1>3, <2>3 DEF StatementFails, InsertFails, Return, Goto, At, LocalsOK,
                            Settling, Inserting
  <2>4. ASSUME NEW s \in Sessions, s # t, Acts(s)
        PROVE  pc'[t] = pc[t]
    BY <2>4, OthersStay
  <2>5. CASE UNCHANGED vars \/ Tick
    BY <2>1, <2>5 DEF vars, Tick
  <2>6. ~(\/ Issue(t) \/ IssueCancel(t) \/ PrepareFails(t)
          \/ GetUser(t) \/ FindMatching(t) \/ GetOrder(t)
          \/ ArchiveOrder(t) \/ UpdateSelf(t) \/ GetCounterparty(t)
          \/ UpdateCounterparty(t) \/ SettleMatched(t) \/ InsertGetUser(t)
          \/ InsertOrder(t) \/ InsertUpdateUser(t) \/ CancelGetOrder(t)
          \/ CancelGetUser(t) \/ CancelUpdateUser(t) \/ CancelDelete(t))
    BY <1>3 DEF At, Issue, IssueCancel, PrepareFails, GetUser, FindMatching, GetOrder,
                ArchiveOrder, UpdateSelf, GetCounterparty, UpdateCounterparty,
                SettleMatched, InsertGetUser, InsertOrder, InsertUpdateUser,
                CancelGetOrder, CancelGetUser, CancelUpdateUser, CancelDelete
  <2> QED
    BY <2>1, <2>2, <2>3, <2>4, <2>5, <2>6 DEF Next, Acts, Step, Waiting
<1>4. CASE JustTaken(t)
  <2>1. pc'[t] = "archive_matched"
    BY <1>4 DEF JustTaken, TakeMatch, Goto, LocalsOK
  <2> QED
    BY <2>1 DEF Recorded
<1> QED
  BY <1>1, <1>2, <1>3, <1>4, SettlingStep

LEMMA RemovalInvInit == Init => RemovalInv
  BY DEF Init, RemovalInv, Refunding, Recorded, Settling, Cancelling

LEMMA RemovalInvStep ==
  TypeOK /\ BookInv /\ RemovalInv /\ [Next]_vars => RemovalInv'
<1> SUFFICES ASSUME TypeOK, BookInv, RemovalInv, [Next]_vars
             PROVE  RemovalInv'
  OBVIOUS
<1>1. /\ orderSeq \in Nat /\ DOMAIN orders \subseteq 1..orderSeq
      /\ archives \in Seq(Order) /\ match \in [Sessions -> Order]
  BY DEF TypeOK, TablesOK, LocalsOK
<1>2. UNCHANGED user
  BY ArchivesGrow
<1>3. ASSUME NEW s \in Sessions, pc'[s] \in Refunding
      PROVE  /\ found'[s] \in 1..orderSeq'
             /\ found'[s] \in DOMAIN orders' => orders'[found'[s]].userID = user'[s]
  <2>1. /\ found'[s] \in 1..orderSeq
        /\ found'[s] \in DOMAIN orders => orders[found'[s]].userID = user[s]
    BY <1>1, <1>3, RefundingStep DEF RemovalInv, LocalsStay, OwnOrder
  <2>2. orderSeq' \in Nat /\ orderSeq <= orderSeq'
    BY <1>1, OrdersStep DEF RowsKept, RowPosted
  <2>3. ASSUME found'[s] \in DOMAIN orders'
        PROVE  orders'[found'[s]].userID = user[s]
    <3>1. found'[s] # orderSeq + 1
      BY <1>1, <2>1
    <3>2. found'[s] \in DOMAIN orders
          /\ Terms(orders'[found'[s]]) = Terms(orders[found'[s]])
      BY <2>3, <3>1, RowOrigin
    <3> QED
      BY <2>1, <3>2 DEF Terms
  <2> QED
    BY <1>1, <1>2, <2>1, <2>2, <2>3
<1>4. ASSUME NEW s \in Sessions, pc'[s] \in Recorded
      PROVE  \E k \in DOMAIN archives' : archives'[k] = match'[s]
  <2>1. CASE pc[s] \in Recorded /\ LocalsStay(s)
    BY <2>1, ArchivesGrow DEF RemovalInv, LocalsStay
  <2>2. CASE InsertArchive(match[s]) /\ LocalsStay(s)
    <3>1. archives' = Append(archives, match[s]) /\ match'[s] = match[s]
      BY <2>2 DEF InsertArchive, LocalsStay
    <3>2. Len(archives) + 1 \in DOMAIN archives'
          /\ archives'[Len(archives) + 1] = match[s]
      BY <1>1, <3>1, AppendProperties
    <3> QED
      BY <3>1, <3>2
  <2> QED
    BY <1>4, <2>1, <2>2, RecordedStep
<1> QED
  BY <1>3, <1>4 DEF RemovalInv

\* A row leaves table orders only when its owner cancels it or after a trade has
\* archived it, whatever the schedule and whatever fails.
THEOREM RemovalIsJustified == Spec => RemovalJustified
<1>1. TypeOK /\ BookInv /\ RemovalInv /\ [Next]_vars => [RemovalStep]_vars
  <2> SUFFICES ASSUME TypeOK, BookInv, RemovalInv, [Next]_vars,
                      NEW i \in DOMAIN orders \ DOMAIN orders'
               PROVE  OwnerCancels(i) \/ Archived(i)
    BY DEF RemovalStep
  <2>1. ASSUME NEW s \in Sessions, CancelDelete(s)
        PROVE  OwnerCancels(i)
    <3>1. DOMAIN orders' = DOMAIN orders \ {found[s]} /\ At(s, "cancel_delete")
      BY <2>1 DEF CancelDelete, DeleteOrder
    <3>2. found[s] = i /\ pc[s] \in Refunding
      BY <3>1 DEF At, Refunding, Cancelling
    <3> QED
      BY <3>1, <3>2 DEF OwnerCancels, RemovalInv
  <2>2. ASSUME NEW s \in Sessions, SettleMatched(s)
        PROVE  Archived(i)
    <3>1. /\ At(s, "settle_matched")
          /\ WriteBack(found[s], Less(match[s], TxQuantity(ord[s], match[s])))
      BY <2>2 DEF SettleMatched
    <3>2. found[s] = i
      BY <3>1 DEF WriteBack, DeleteOrder, UpdateOrder
    <3>3. pc[s] \in Settling /\ pc[s] \in Recorded
      BY <3>1 DEF At, Settling, Recorded
    <3>4. Terms(match[s]) = Terms(orders[i])
      BY <3>2, <3>3 DEF BookInv
    <3> QED
      BY <3>3, <3>4 DEF RemovalInv, Archived
  <2>3. ASSUME NEW s \in Sessions, InsertOrder(s)
        PROVE  FALSE
    BY <2>3 DEF InsertOrder, InsertRow, WithRow
  <2>4. \/ UNCHANGED orders
        \/ \E s \in Sessions : CancelDelete(s) \/ SettleMatched(s) \/ InsertOrder(s)
    BY DEF Next, Step, Waiting, Tick, vars, tables, Issue, IssueCancel, StatementFails,
           PrepareFails, GetUser, FindMatching, GetOrder, ArchiveMatched, ArchiveOrder,
           UpdateSelf, GetCounterparty, UpdateCounterparty,
           InsertGetUser, InsertUpdateUser, CancelGetOrder,
           CancelGetUser, CancelUpdateUser
  <2> QED
    BY <2>1, <2>2, <2>3, <2>4
<1>2. Init => TypeOK /\ BookInv /\ RemovalInv
  BY InitType, BookInvInit, RemovalInvInit
<1>3. TypeOK /\ BookInv /\ RemovalInv /\ [Next]_vars
        => (TypeOK /\ BookInv /\ RemovalInv)'
  BY TypeStep, BookInvStep, RemovalInvStep
<1> QED
  BY <1>1, <1>2, <1>3, PTL DEF Spec, RemovalJustified

-----------------------------------------------------------------------------
(* Leftovers *)

\* What a session inserts after a trade is for some coins.
RestInv ==
  \A s \in Sessions : pc[s] \in Inserting /\ found[s] # NoMatch => ord[s].quantity > 0

\* A session that inserts an order was inserting it, has just found no match, or has
\* just settled a trade that left some of the order.
LEMMA InsertingStep ==
  ASSUME TypeOK, [Next]_vars, NEW t \in Sessions, pc'[t] \in Inserting
  PROVE  \/ pc[t] \in Inserting /\ LocalsStay(t)
         \/ found'[t] = NoMatch
         \/ ord'[t].quantity > 0
<1> USE DEF TypeOK
<1>1. CASE UNCHANGED vars \/ Tick
  BY <1>1 DEF vars, locals, Tick, LocalsStay
<1>2. ASSUME NEW s \in Sessions, s # t, Acts(s)
      PROVE  pc'[t] = pc[t] /\ LocalsStay(t)
  BY <1>2, OthersStay
<1>3. CASE SettleMatched(t)
  <2> DEFINE q == TxQuantity(ord[t], match[t])
  <2>1. ord[t] \in Order /\ match[t] \in Order
    BY DEF LocalsOK
  <2>2. q \in Int
    BY <2>1, TxType
  <2> HIDE DEF q
  <2>3. CASE Return(t, OK)
    BY <2>3 DEF Return, Goto, LocalsOK, Inserting
  <2>4. CASE ord[t].quantity > q /\ ord' = [ord EXCEPT ![t] = Less(@, q)]
    <3>1. ord'[t].quantity = ord[t].quantity - q
      BY <2>1, <2>4 DEF Less, LocalsOK, Order
    <3> QED
      BY <2>1, <2>2, <2>4, <3>1 DEF Order
  <2> QED
    BY <1>3, <2>3, <2>4 DEF SettleMatched, q
<1>4. CASE FindMatching(t) \/ StatementFails(t)
  BY <1>4 DEF FindMatching, StatementFails, InsertFails, Return, Goto, LocalsOK, Inserting
<1>5. CASE \/ Issue(t) \/ IssueCancel(t) \/ PrepareFails(t)
           \/ GetUser(t) \/ GetOrder(t) \/ ArchiveMatched(t) \/ ArchiveOrder(t)
           \/ UpdateSelf(t) \/ GetCounterparty(t) \/ UpdateCounterparty(t)
           \/ InsertUpdateUser(t) \/ CancelGetOrder(t) \/ CancelGetUser(t)
           \/ CancelUpdateUser(t) \/ CancelDelete(t)
  BY <1>5 DEF Inserting, Issue, IssueCancel, PrepareFails, GetUser, GetOrder, TakeMatch,
              ArchiveMatched, ArchiveOrder, UpdateSelf, GetCounterparty,
              UpdateCounterparty, InsertUpdateUser, CancelGetOrder, CancelGetUser,
              CancelUpdateUser, CancelDelete, Goto, Return, LocalsOK
<1>6. CASE InsertGetUser(t) \/ InsertOrder(t)
  BY <1>6 DEF InsertGetUser, InsertOrder, InsertFails, At, Inserting, ReadWallet, Goto,
              Return, LocalsOK, LocalsStay, locals
<1> QED
  BY <1>1, <1>2, <1>3, <1>4, <1>5, <1>6 DEF Next, Acts, Step, Waiting

LEMMA RestInvStep == TypeOK /\ RestInv /\ [Next]_vars => RestInv'
<1> SUFFICES ASSUME TypeOK, RestInv, [Next]_vars, NEW s \in Sessions,
                    pc'[s] \in Inserting, found'[s] # NoMatch
             PROVE  ord'[s].quantity > 0
  BY DEF RestInv
<1> QED
  BY InsertingStep DEF RestInv, LocalsStay

\* A row a step leaves with nothing to offer was so before, or is posted with it.
LEMMA LeftoverOfStep ==
  ASSUME TypeOK, RestInv, [Next]_vars, NEW i \in DOMAIN orders', orders'[i].quantity <= 0
  PROVE  \/ i \in DOMAIN orders /\ orders'[i] = orders[i]
         \/ i \notin DOMAIN orders /\ \E s \in Sessions : At(s, "insert_order") /\ found[s] = NoMatch
<1>1. /\ ord \in [Sessions -> Order] /\ match \in [Sessions -> Order]
      /\ \A j \in DOMAIN orders : orders[j] \in Order /\ j # NewOrderID
  BY DEF TypeOK, TablesOK, LocalsOK, NewOrderID
<1>2. CASE UNCHANGED orders
  BY <1>2
<1>3. ASSUME NEW s \in Sessions, InsertOrder(s)
      PROVE  \/ i \in DOMAIN orders /\ orders'[i] = orders[i]
             \/ i \notin DOMAIN orders /\ At(s, "insert_order") /\ found[s] = NoMatch
  <2>1. CASE i = NewOrderID
    <3>1. orders'[i] = [ord[s] EXCEPT !.created_at = now]
      BY <1>3, <2>1 DEF InsertOrder, InsertRow, WithRow
    <3>2. ord[s].quantity \in Int /\ ord[s].quantity <= 0
      BY <1>1, <3>1 DEF Order
    <3>3. At(s, "insert_order") /\ pc[s] \in Inserting
      BY <1>3 DEF InsertOrder, At, Inserting
    <3>4. found[s] = NoMatch
      BY <3>2, <3>3 DEF RestInv
    <3> QED
      BY <1>1, <2>1, <3>3, <3>4
  <2>2. CASE i # NewOrderID
    BY <1>3, <2>2 DEF InsertOrder, InsertRow, WithRow
  <2> QED
    BY <2>1, <2>2
<1>4. ASSUME NEW s \in Sessions, CancelDelete(s)
      PROVE  i \in DOMAIN orders /\ orders'[i] = orders[i]
  BY <1>4 DEF CancelDelete, DeleteOrder
<1>5. ASSUME NEW s \in Sessions, SettleMatched(s)
      PROVE  i \in DOMAIN orders /\ orders'[i] = orders[i]
  <2> DEFINE q == TxQuantity(ord[s], match[s])
             o == Less(match[s], q)
  <2>1. match[s].quantity \in Int /\ ord[s].quantity \in Int
    BY <1>1 DEF Order
  <2>2. q \in Int /\ q <= match[s].quantity
    BY <2>1 DEF TxQuantity
  <2>3. o.quantity = match[s].quantity - q
    BY <1>1 DEF Less, Order
  <2>4. WriteBack(found[s], o)
    BY <1>5 DEF SettleMatched
  <2>5. CASE o.quantity = 0
    BY <2>4, <2>5 DEF WriteBack, DeleteOrder
  <2>6. CASE o.quantity # 0
    <3>1. o.quantity > 0
      BY <2>1, <2>2, <2>3, <2>6
    <3>2. o \in Order
      BY <1>1, <2>2 DEF Less, Order
    <3> HIDE DEF o
    <3>3. UpdateOrder(found[s], o)
      BY <2>4, <2>6 DEF WriteBack
    <3>4. i # found[s]
      <4> SUFFICES ASSUME i = found[s] PROVE FALSE
        OBVIOUS
      <4>1. orders'[i] = [o EXCEPT !.created_at = orders[i].created_at]
        BY <3>3 DEF UpdateOrder
      <4> QED
        BY <3>1, <3>2, <4>1 DEF Order
    <3> QED
      BY <3>3, <3>4 DEF UpdateOrder
  <2> QED
    BY <2>5, <2>6
<1>6. \/ UNCHANGED orders
      \/ \E s \in Sessions : CancelDelete(s) \/ SettleMatched(s) \/ InsertOrder(s)
  BY DEF Next, Step, Waiting, Tick, vars, tables, Issue, IssueCancel, StatementFails,
         PrepareFails, GetUser, FindMatching, GetOrder, ArchiveMatched, ArchiveOrder,
         UpdateSelf, GetCounterparty, UpdateCounterparty,
         InsertGetUser, InsertUpdateUser, CancelGetOrder,
         CancelGetUser, CancelUpdateUser
<1> QED
  BY <1>2, <1>3, <1>4, <1>5, <1>6

\* Whatever numbers commands are given for, no schedule and no failing statement makes
\* a trade leave an order for nothing, or for less, in the book.
THEOREM LeftoversStayPositive == Spec => LeftoversArePositive
<1>1. Init => TypeOK /\ RestInv
  BY InitType DEF Init, RestInv, Inserting
<1>2. TypeOK /\ RestInv /\ [Next]_vars => (TypeOK /\ RestInv)'
  BY TypeStep, RestInvStep
<1>3. TypeOK /\ RestInv /\ [Next]_vars => [LeftoverStep]_vars
  <2> SUFFICES ASSUME TypeOK, RestInv, [Next]_vars PROVE LeftoverStep
    OBVIOUS
  <2> QED
    BY LeftoverOfStep DEF LeftoverStep
<1> QED
  BY <1>1, <1>2, <1>3, PTL DEF Spec, LeftoversArePositive

-----------------------------------------------------------------------------
(* The two sides of the archives *)

\* The sessions that have archived a matched order of side d and not their own.
OpenOf(d) == {s \in Sessions : pc[s] = "archive_order" /\ match[s].side = d}

\* The sessions that hold, or may yet read, a match of the side of their own order.
Blind(s) ==
  \/ /\ pc[s] = "get_order"
     /\ found[s] \in 1..orderSeq =>
          found[s] \in DOMAIN orders /\ orders[found[s]].side = ord[s].side
  \/ /\ pc[s] \in {"archive_matched", "archive_order"}
     /\ match[s].side = ord[s].side
Blinded == {s \in Sessions : Blind(s)}

\* What the open trades do not explain of the difference between bought and sold,
\* and what the statements that failed may have cost.
Gap == SideCount("buy") - SideCount("sell")
         - (Cardinality(OpenOf("buy")) - Cardinality(OpenOf("sell")))
Slack == 2 * faults - 2 * Cardinality(Blinded)
HistoryInv == Gap \in -Slack..Slack

-----------------------------------------------------------------------------
(* Counting *)

\* The counters are numbers.
LEMMA CountType ==
  ASSUME TypeOK, IsFiniteSet(Sessions), NEW d
  PROVE  /\ SideCount(d) \in Nat
         /\ IsFiniteSet({k \in DOMAIN archives : archives[k].side = d})
         /\ IsFiniteSet(OpenOf(d)) /\ Cardinality(OpenOf(d)) \in Nat
         /\ IsFiniteSet(Blinded) /\ Cardinality(Blinded) \in Nat
<1>1. IsFiniteSet(DOMAIN archives)
  <2>1. DOMAIN archives = 1..Len(archives) /\ Len(archives) \in Nat
    BY DEF TypeOK, TablesOK
  <2> QED
    BY <2>1, FS_Interval
<1>2. IsFiniteSet({k \in DOMAIN archives : archives[k].side = d})
  BY <1>1, FS_Subset
<1>3. IsFiniteSet(OpenOf(d)) /\ IsFiniteSet(Blinded)
  BY FS_Subset DEF OpenOf, Blinded
<1> QED
  BY <1>2, <1>3, FS_CardinalityType DEF SideCount

\* An archived order counts once, on its side.
LEMMA CountStep ==
  ASSUME TypeOK, NEW o \in Order, InsertArchive(o), NEW d, IsFiniteSet(Sessions)
  PROVE  SideCount(d)' = IF o.side = d THEN SideCount(d) + 1 ELSE SideCount(d)
<1> DEFINE n == Len(archives) + 1
           S == {k \in DOMAIN archives : archives[k].side = d}
           T == {k \in DOMAIN archives' : archives'[k].side = d}
<1>1. archives \in Seq(Order) /\ archives' = Append(archives, o)
  BY DEF TypeOK, TablesOK, InsertArchive
<1>2. /\ DOMAIN archives = 1..Len(archives) /\ Len(archives) \in Nat
      /\ DOMAIN archives' = 1..n
      /\ archives'[n] = o
      /\ \A k \in 1..Len(archives) : archives'[k] = archives[k]
  BY <1>1, AppendProperties
<1>3. T = IF o.side = d THEN S \cup {n} ELSE S
  BY <1>2
<1>4. n \notin S
  BY <1>2
<1>5. IsFiniteSet(S)
  BY CountType, Zenon
<1>6. SideCount(d) = Cardinality(S) /\ SideCount(d)' = Cardinality(T)
  BY DEF SideCount
<1> HIDE DEF S, T, n
<1> QED
  BY <1>3, <1>4, <1>5, <1>6, FS_AddElement

\* A session opens and closes its own trade only.
LEMMA OpenStep ==
  ASSUME TypeOK, NEW s \in Sessions, Acts(s), NEW d, IsFiniteSet(Sessions)
  PROVE  Cardinality(OpenOf(d)') =
           Cardinality(OpenOf(d))
             + (IF pc'[s] = "archive_order" /\ match'[s].side = d THEN 1 ELSE 0)
             - (IF pc[s] = "archive_order" /\ match[s].side = d THEN 1 ELSE 0)
<1> DEFINE S == OpenOf(d)
           T == OpenOf(d)'
<1>1. \A t \in Sessions \ {s} : t \in T <=> t \in S
  BY OthersStay DEF OpenOf, LocalsStay
<1>2. /\ s \in T <=> pc'[s] = "archive_order" /\ match'[s].side = d
      /\ s \in S <=> pc[s] = "archive_order" /\ match[s].side = d
      /\ S \subseteq Sessions /\ T \subseteq Sessions
  BY DEF OpenOf
<1>3. T = IF s \in T THEN S \cup {s} ELSE S \ {s}
  BY <1>1, <1>2
<1>4. IsFiniteSet(S) /\ Cardinality(S) \in Nat
  BY CountType
<1> HIDE DEF S, T
<1>5. CASE s \in T
  BY <1>2, <1>3, <1>4, <1>5, FS_AddElement DEF S, T
<1>6. CASE s \notin T
  BY <1>2, <1>3, <1>4, <1>6, FS_RemoveElement DEF S, T
<1> QED
  BY <1>5, <1>6

\* A session gets blind by an error code it takes for an orderID, and in no other
\* way: what find_matching_* finds is of the other side for as long as it exists.
LEMMA BlindStep ==
  ASSUME TypeOK, BookInv, [Next]_vars, NEW t \in Sessions, Blind(t)'
  PROVE  Blind(t) \/ PrepareFails(t)
<1>1. /\ orderSeq \in Nat /\ DOMAIN orders \subseteq 1..orderSeq
      /\ orderSeq' \in Nat
      /\ ord[t] \in Order
      /\ \A i \in DOMAIN orders : orders[i] \in Order
  BY TypeStep DEF TypeOK, TablesOK, LocalsOK
<1>2. orderSeq <= orderSeq'
  BY <1>1, OrdersStep DEF RowsKept, RowPosted
<1>3. CASE pc'[t] = "get_order"
  <2>1. \A i \in 1..orderSeq : i \in DOMAIN orders' =>
           i \in DOMAIN orders /\ orders'[i].side = orders[i].side
    <3> SUFFICES ASSUME NEW i \in 1..orderSeq, i \in DOMAIN orders'
                 PROVE  i \in DOMAIN orders /\ orders'[i].side = orders[i].side
      OBVIOUS
    <3>1. i # orderSeq + 1
      BY <1>1
    <3> QED
      BY <3>1, RowOrigin DEF Terms
  <2>2. CASE At(t, "get_order") /\ LocalsStay(t)
    BY <1>1, <1>2, <1>3, <2>1, <2>2 DEF Blind, LocalsStay, At
  <2>3. CASE JustFound(t)
    <3>1. /\ found'[t] \in DOMAIN orders /\ Compatible(ord[t], orders[found'[t]])
          /\ UNCHANGED <<orders, orderSeq>> /\ ord'[t] = ord[t]
      BY <1>1, <2>3, MatchingOldest DEF JustFound
    <3> QED
      BY <1>1, <1>3, <3>1 DEF Blind, Compatible
  <2> QED
    BY <1>3, <2>2, <2>3, SearchStep
<1>4. CASE pc'[t] \in {"archive_matched", "archive_order"}
  <2>1. CASE JustTaken(t)
    <3>1. /\ pc[t] = "get_order" /\ found[t] \in DOMAIN orders
          /\ match'[t] = orders[found[t]]
          /\ ord'[t] = [ord[t] EXCEPT !.created_at = now]
      BY <2>1 DEF JustTaken, TakeMatch, At, TypeOK, LocalsOK
    <3>2. ord'[t].side = ord[t].side
      BY <1>1, <3>1 DEF Order
    <3> QED
      BY <1>4, <3>1, <3>2 DEF Blind
  <2>2. CASE pc[t] \in Settling /\ LocalsStay(t)
    <3>1. pc[t] \in {"archive_matched", "archive_order"}
      <4>1. CASE pc'[t] = pc[t]
        BY <1>4, <4>1
      <4>2. ASSUME NEW s \in Sessions, s # t, Acts(s)
            PROVE  pc'[t] = pc[t]
        BY <4>2, OthersStay
      <4>3. CASE Acts(t)
        BY <1>4, <2>2, <4>3
        DEF Acts, Step, Settling, At, Goto, Return, InsertFails, TypeOK, LocalsOK, Issue,
            IssueCancel, StatementFails, PrepareFails, GetUser, FindMatching, GetOrder,
            TakeMatch, ArchiveMatched, ArchiveOrder, UpdateSelf, GetCounterparty,
            UpdateCounterparty, SettleMatched, InsertGetUser, InsertOrder,
            InsertUpdateUser, CancelGetOrder, CancelGetUser, CancelUpdateUser, CancelDelete
      <4> QED
        BY <4>1, <4>2, <4>3 DEF Next, Acts, Waiting, Tick, vars
    <3> QED
      BY <1>4, <2>2, <3>1 DEF Blind, LocalsStay
  <2> QED
    BY <1>4, <2>1, <2>2, SettlingStep DEF Settling
<1> QED
  BY <1>3, <1>4 DEF Blind

\* So the blinded sessions do not get more but by an error code.
LEMMA BlindedStep ==
  ASSUME TypeOK, BookInv, [Next]_vars, IsFiniteSet(Sessions), NEW s \in Sessions,
         \A t \in Sessions : PrepareFails(t) => t = s
  PROVE  /\ Cardinality(Blinded') \in Nat
         /\ Cardinality(Blinded') <= Cardinality(Blinded) + 1
         /\ ~PrepareFails(s) => Cardinality(Blinded') <= Cardinality(Blinded)
         /\ Blind(s) /\ ~Blind(s)' => Cardinality(Blinded') <= Cardinality(Blinded) - 1
<1>1. /\ \A t \in Blinded' : t \in Sessions /\ (t \in Blinded \/ PrepareFails(t))
      /\ s \in Blinded <=> Blind(s)
      /\ s \in Blinded' <=> Blind(s)'
      /\ s \in Blinded => pc[s] \in {"get_order", "archive_matched", "archive_order"}
  BY BlindStep DEF Blinded, Blind
<1>2. /\ IsFiniteSet(Blinded) /\ Cardinality(Blinded) \in Nat
      /\ IsFiniteSet(Blinded') /\ Cardinality(Blinded') \in Nat
  BY CountType, FS_Subset, FS_CardinalityType, TypeStep DEF Blinded
<1>3. PrepareFails(s) => s \notin Blinded
  BY <1>1 DEF PrepareFails, At
<1>4. CASE PrepareFails(s)
  <2>1. Blinded' \subseteq Blinded \cup {s}
    BY <1>1
  <2>2. /\ IsFiniteSet(Blinded \cup {s})
        /\ Cardinality(Blinded \cup {s}) = Cardinality(Blinded) + 1
    BY <1>2, <1>3, <1>4, FS_AddElement
  <2>3. Cardinality(Blinded') <= Cardinality(Blinded \cup {s})
    BY <2>1, <2>2, FS_Subset
  <2>4. Cardinality(Blinded \cup {s}) \in Nat
    BY <2>2, FS_CardinalityType
  <2> QED
    BY <1>1, <1>2, <1>3, <1>4, <2>2, <2>3, <2>4
<1>5. CASE ~PrepareFails(s)
  <2>1. Blinded' \subseteq Blinded
    BY <1>1, <1>5
  <2>2. Cardinality(Blinded') <= Cardinality(Blinded)
    BY <1>2, <2>1, FS_Subset
  <2>3. ASSUME s \in Blinded, s \notin Blinded'
        PROVE  Cardinality(Blinded') <= Cardinality(Blinded) - 1
    <3>1. Blinded' \subseteq Blinded \ {s}
      BY <2>1, <2>3
    <3>2. IsFiniteSet(Blinded \ {s}) /\ Cardinality(Blinded \ {s}) = Cardinality(Blinded) - 1
      BY <1>2, <2>3, FS_RemoveElement
    <3> QED
      BY <3>1, <3>2, FS_Subset
  <2> QED
    BY <1>1, <1>2, <1>5, <2>2, <2>3
<1> QED
  BY <1>4, <1>5

-----------------------------------------------------------------------------
(* The invariant *)

\* A gap that moves by k stays within a slack that grows by k.
LEMMA Within ==
  ASSUME NEW g \in Int, NEW h \in Int, NEW a \in Int, NEW b \in Int, NEW k \in Nat,
         g \in -a..a, h - g \in -k..k, b >= a + k
  PROVE  h \in -b..b
  OBVIOUS

LEMMA HistoryInit == IsFiniteSet(Sessions) /\ Init => HistoryInv
<1> SUFFICES ASSUME IsFiniteSet(Sessions), Init PROVE HistoryInv
  OBVIOUS
<1>1. /\ \A d : {k \in DOMAIN archives : archives[k].side = d} = {}
      /\ \A d : OpenOf(d) = {}
      /\ Blinded = {}
      /\ faults = 0
  BY DEF Init, OpenOf, Blinded, Blind
<1>2. /\ SideCount("buy") = 0 /\ SideCount("sell") = 0
      /\ Cardinality(OpenOf("buy")) = 0 /\ Cardinality(OpenOf("sell")) = 0
      /\ Cardinality(Blinded) = 0
  BY <1>1, FS_EmptySet DEF SideCount
<1> QED
  BY <1>1, <1>2 DEF HistoryInv, Gap, Slack

\* A session archives, fails or does neither; each keeps the gap within the slack.
LEMMA HistoryStep ==
  TypeOK /\ BookInv /\ HistoryInv /\ IsFiniteSet(Sessions) /\ [Next]_vars => HistoryInv'
<1> SUFFICES ASSUME TypeOK, BookInv, HistoryInv, IsFiniteSet(Sessions), [Next]_vars
             PROVE  HistoryInv'
  OBVIOUS
<1>1. CASE UNCHANGED vars \/ Tick
  <2>1. UNCHANGED <<archives, orders, orderSeq, pc, ord, found, match, faults>>
    BY <1>1 DEF vars, tables, locals, bounds, Tick
  <2> QED
    BY <2>1 DEF HistoryInv, Gap, Slack, SideCount, OpenOf, Blinded, Blind
<1>2. ASSUME NEW s \in Sessions, Acts(s)
      PROVE  HistoryInv'
  <2>1. /\ SideCount("buy") \in Nat /\ SideCount("sell") \in Nat
        /\ Cardinality(OpenOf("buy")) \in Nat /\ Cardinality(OpenOf("sell")) \in Nat
        /\ Cardinality(Blinded) \in Nat /\ faults \in Nat
        /\ ord[s] \in Order /\ match[s] \in Order
    BY CountType DEF TypeOK, LocalsOK
  <2>2. \A t \in Sessions : PrepareFails(t) => t = s
    BY <1>2, OthersStay DEF PrepareFails, Goto, At, TypeOK, LocalsOK
  <2>3. /\ Cardinality(Blinded') \in Nat
        /\ Cardinality(Blinded') <= Cardinality(Blinded) + 1
        /\ ~PrepareFails(s) => Cardinality(Blinded') <= Cardinality(Blinded)
        /\ Blind(s) /\ ~Blind(s)' => Cardinality(Blinded') <= Cardinality(Blinded) - 1
    BY <2>2, BlindedStep
  <2>4. ASSUME NEW d
        PROVE  Cardinality(OpenOf(d)') =
           Cardinality(OpenOf(d))
             + (IF pc'[s] = "archive_order" /\ match'[s].side = d THEN 1 ELSE 0)
             - (IF pc[s] = "archive_order" /\ match[s].side = d THEN 1 ELSE 0)
    BY <1>2, OpenStep
  <2>5. /\ Gap \in Int /\ Slack \in Int
        /\ faults' \in Nat => Slack' \in Int
        /\ Slack' = 2 * faults' - 2 * Cardinality(Blinded')
    BY <2>1, <2>3 DEF Gap, Slack
  <2>6. ASSUME NEW k \in Nat, NEW g \in Int, NEW l \in Int, Gap' = g, Slack' = l,
               g - Gap \in -k..k, l >= Slack + k
        PROVE  HistoryInv'
    <3>1. Gap \in -Slack..Slack
      BY DEF HistoryInv
    <3>2. g \in -l..l
      BY <2>5, <2>6, <3>1, Within
    <3> QED
      BY <2>6, <3>2 DEF HistoryInv
  <2> USE DEF Sides
  <2>7. ord[s].side \in Sides /\ match[s].side \in Sides
    BY <2>1 DEF Order
  <2>8. CASE ArchiveMatched(s)
    <3>1. /\ pc[s] = "archive_matched" /\ pc'[s] = "archive_order"
          /\ match'[s] = match[s] /\ faults' = faults /\ InsertArchive(match[s])
          /\ ~PrepareFails(s)
      BY <2>8 DEF ArchiveMatched, At, Goto, locals, bounds, TypeOK, LocalsOK, PrepareFails
    <3>2. ASSUME NEW d
          PROVE  /\ SideCount(d)' = SideCount(d) + (IF match[s].side = d THEN 1 ELSE 0)
                 /\ Cardinality(OpenOf(d)') =
                      Cardinality(OpenOf(d)) + (IF match[s].side = d THEN 1 ELSE 0)
      <4>1. SideCount(d) \in Nat /\ Cardinality(OpenOf(d)) \in Nat
        BY CountType
      <4>2. SideCount(d)' = IF match[s].side = d THEN SideCount(d) + 1 ELSE SideCount(d)
        BY <2>1, <3>1, CountStep
      <4> QED
        BY <2>4, <3>1, <4>1, <4>2
    <3>3. Gap' = Gap
      BY <2>1, <2>7, <3>2 DEF Gap
    <3>4. Slack' >= Slack
      BY <2>1, <2>3, <3>1 DEF Slack
    <3> QED
      BY <2>1, <2>5, <2>6, <3>1, <3>3, <3>4
  <2>9. CASE ArchiveOrder(s)
    <3>1. /\ pc[s] = "archive_order" /\ pc'[s] = "update_self"
          /\ faults' = faults /\ InsertArchive(ord[s]) /\ ~PrepareFails(s)
      BY <2>9 DEF ArchiveOrder, At, Goto, locals, bounds, TypeOK, LocalsOK, PrepareFails
    <3>2. ASSUME NEW d
          PROVE  /\ SideCount(d)' = SideCount(d) + (IF ord[s].side = d THEN 1 ELSE 0)
                 /\ Cardinality(OpenOf(d)') =
                      Cardinality(OpenOf(d)) - (IF match[s].side = d THEN 1 ELSE 0)
      <4>1. SideCount(d) \in Nat /\ Cardinality(OpenOf(d)) \in Nat
        BY CountType
      <4>2. SideCount(d)' = IF ord[s].side = d THEN SideCount(d) + 1 ELSE SideCount(d)
        BY <2>1, <3>1, CountStep
      <4> QED
        BY <2>4, <3>1, <4>1, <4>2
    <3>3. CASE ord[s].side # match[s].side
      <4>1. Gap' = Gap
        BY <2>1, <2>7, <3>2, <3>3 DEF Gap
      <4>2. Slack' >= Slack
        BY <2>1, <2>3, <3>1 DEF Slack
      <4> QED
        BY <2>1, <2>5, <2>6, <3>1, <4>1, <4>2
    <3>4. CASE ord[s].side = match[s].side
      <4>1. Gap' \in Int
        BY <2>1, <3>2 DEF Gap
      <4>2. PICK g \in Int : Gap' = g
        BY <4>1
      <4>3. g - Gap \in -2..2
        BY <2>1, <2>7, <3>2, <3>4, <4>2 DEF Gap
      <4>4. Blind(s) /\ ~Blind(s)'
        BY <3>1, <3>4 DEF Blind
      <4>5. PICK l \in Int : Slack' = l
        BY <2>1, <2>5, <3>1
      <4>6. l >= Slack + 2
        BY <2>1, <2>3, <3>1, <4>4, <4>5 DEF Slack
      <4> QED
        BY <2>6, <4>2, <4>3, <4>5, <4>6
    <3> QED
      BY <3>3, <3>4
  <2>10. CASE ~ArchiveMatched(s) /\ ~ArchiveOrder(s)
    <3>1. UNCHANGED archives /\ pc'[s] # "archive_order"
      BY <1>2, <2>10
      DEF tables, Goto, Return, InsertFails, TakeMatch, TypeOK, LocalsOK, Acts, Step, Issue,
          IssueCancel, StatementFails, PrepareFails, GetUser, FindMatching, GetOrder,
          UpdateSelf, GetCounterparty, UpdateCounterparty, SettleMatched,
          InsertGetUser, InsertOrder, InsertUpdateUser, CancelGetOrder,
          CancelGetUser, CancelUpdateUser, CancelDelete
    <3>2. ASSUME NEW d
          PROVE  /\ SideCount(d)' = SideCount(d)
                 /\ Cardinality(OpenOf(d)') = Cardinality(OpenOf(d))
                      - (IF pc[s] = "archive_order" /\ match[s].side = d THEN 1 ELSE 0)
      <4>1. Cardinality(OpenOf(d)) \in Nat
        BY CountType
      <4>2. SideCount(d)' = SideCount(d)
        BY <3>1 DEF SideCount
      <4> QED
        BY <2>4, <3>1, <4>1, <4>2
    <3>3. CASE pc[s] = "archive_order"
      <4>1. StatementFails(s) /\ ~PrepareFails(s)
        BY <1>2, <2>10, <3>3
        DEF At, Acts, Step, Issue, IssueCancel, PrepareFails, GetUser, FindMatching,
            GetOrder, UpdateSelf, GetCounterparty, UpdateCounterparty, SettleMatched,
            InsertGetUser, InsertOrder, InsertUpdateUser, CancelGetOrder,
            CancelGetUser, CancelUpdateUser, CancelDelete
      <4>2. faults' = faults + 1
        BY <4>1 DEF StatementFails
      <4>3. Gap' \in Int /\ faults' \in Nat
        BY <2>1, <3>2, <4>2 DEF Gap
      <4>4. PICK g \in Int : Gap' = g
        BY <4>3
      <4>5. g - Gap \in -2..2
        BY <2>1, <2>7, <3>2, <3>3, <4>4 DEF Gap
      <4>6. PICK l \in Int : Slack' = l
        BY <2>5, <4>3
      <4>7. l >= Slack + 2
        BY <2>1, <2>3, <4>1, <4>2, <4>6 DEF Slack
      <4> QED
        BY <2>6, <4>4, <4>5, <4>6, <4>7
    <3>4. CASE pc[s] # "archive_order"
      <4>1. Gap' = Gap
        BY <2>1, <3>2, <3>4 DEF Gap
      <4>2. /\ faults' \in Nat /\ faults' >= faults
            /\ PrepareFails(s) => faults' = faults + 1
        BY <1>2, <2>1
        DEF bounds, Acts, Step, Issue,
          IssueCancel, StatementFails, PrepareFails, GetUser, FindMatching, GetOrder,
          ArchiveMatched, ArchiveOrder, UpdateSelf, GetCounterparty, UpdateCounterparty,
          SettleMatched, InsertGetUser, InsertOrder, InsertUpdateUser, CancelGetOrder,
          CancelGetUser, CancelUpdateUser, CancelDelete
      <4>3. Slack' >= Slack
        BY <2>1, <2>3, <4>2 DEF Slack
      <4> QED
        BY <2>5, <2>6, <4>1, <4>2, <4>3
    <3> QED
      BY <3>3, <3>4
  <2> QED
    BY <2>8, <2>9, <2>10
<1> QED
  BY <1>1, <1>2 DEF Next, Acts, Waiting

\* Every trade is archived on both sides, whatever the schedule: what the archives
\* lack are the trades under way and two rows at most for every statement that
\* failed.
THEOREM HistoryIsPaired ==
  ASSUME IsFiniteSet(Sessions)
  PROVE  Spec => []HistoryPaired
<1>1. Init => TypeOK /\ BookInv /\ HistoryInv
  BY InitType, BookInvInit, HistoryInit
<1>2. TypeOK /\ BookInv /\ HistoryInv /\ [Next]_vars
        => (TypeOK /\ BookInv /\ HistoryInv)'
  BY TypeStep, BookInvStep, HistoryStep
<1>3. TypeOK /\ HistoryInv => HistoryPaired
  <2> SUFFICES ASSUME TypeOK, HistoryInv PROVE HistoryPaired
    OBVIOUS
  <2> DEFINE S == {s \in Sessions : At(s, "archive_order")}
  <2>1. IsFiniteSet(S) /\ Cardinality(S) \in Nat
    BY FS_Subset, FS_CardinalityType
  <2>2. \A d : OpenOf(d) \subseteq S
    BY DEF OpenOf, At
  <2>3. \A d : Cardinality(OpenOf(d)) <= Cardinality(S)
    BY <2>1, <2>2, FS_Subset
  <2>4. /\ SideCount("buy") \in Nat /\ SideCount("sell") \in Nat
        /\ Cardinality(OpenOf("buy")) \in Nat /\ Cardinality(OpenOf("sell")) \in Nat
        /\ Cardinality(Blinded) \in Nat /\ faults \in Nat
    BY CountType DEF TypeOK
  <2>5. HistoryPaired <=>
          SideCount("buy") - SideCount("sell")
            \in -(Cardinality(S) + 2 * faults)..(Cardinality(S) + 2 * faults)
    BY DEF HistoryPaired
  <2> HIDE DEF S
  <2>6. Gap <= 2 * faults /\ -Gap <= 2 * faults
    BY <2>4 DEF HistoryInv, Slack, Gap
  <2>7. SideCount("buy") - SideCount("sell")
          = Gap + (Cardinality(OpenOf("buy")) - Cardinality(OpenOf("sell")))
    BY <2>4 DEF Gap
  <2>8. Cardinality(OpenOf("buy")) - Cardinality(OpenOf("sell"))
          \in -Cardinality(S)..Cardinality(S)
    BY <2>1, <2>3, <2>4
  <2>9. Gap \in Int
    BY <2>4 DEF Gap
  <2> QED
    BY <2>1, <2>4, <2>5, <2>6, <2>7, <2>8, <2>9
<1> QED
  BY <1>1, <1>2, <1>3, PTL DEF Spec
=============================================================================
