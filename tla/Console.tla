------------------------------ MODULE Console ------------------------------
(***************************************************************************)
(* The command loop of src/server.c (echo and its handlers): a session     *)
(* reads a line, already split into tokens, dispatches it, runs the        *)
(* command and prints an answer.  Trading commands run as in Market; the   *)
(* queries myOrders, view and myInventory are here, one action per SELECT. *)
(*                                                                         *)
(* A token is known by its lower-case word, the number strtod reads at its *)
(* head (in 1/Scale, 0 when there is none) and how much of it that is.     *)
(***************************************************************************)
EXTENDS MarketProps

CONSTANTS
  Lines,      \* the lines clients send, as sequences of tokens
  TopCount,   \* how many orders of a side view lists, 5 in src/db.c
  MaxLines    \* bound: lines read in a behaviour

VARIABLES
  answer,    \* answer[s]: what the last query of the session has printed
  asked,     \* the lines read that issued no command of Market
  cancelled  \* history: the orders cancel_order has deleted

cvars == <<answer, asked, cancelled>>
allVars == <<vars, cvars>>

Word(w) == [word |-> w, value |-> 0, parsed |-> "none"]
Number(n) == [word |-> "number", value |-> n, parsed |-> "all"]
NumberAndMore(n) == [word |-> "number", value |-> n, parsed |-> "some"]

CoinNamed == [omg |-> "OMG", doge |-> "DOGE", btc |-> "BTC", eth |-> "ETH"]

\* Fields of an answer: due is a history of the command, the orders that
\* rested when its line was read; the others are what is printed.
NoAnswer == [query |-> "none", item |-> "OMG", due |-> << >>, failed |-> FALSE,
             open |-> {}, archived |-> {}, buys |-> {}, sells |-> {},
             coins |-> BlankWallet]

ConsoleInit ==
  /\ Init
  /\ answer = [s \in Sessions |-> NoAnswer]
  /\ asked = 0
  /\ cancelled = {}

-----------------------------------------------------------------------------
(* A line *)

\* validate_command_args: the commands with arguments check their number.
Arity == [buy |-> 4, sell |-> 4, cancelorder |-> 2, view |-> 2]
HasArity(l) == l[1].word \in DOMAIN Arity => Len(l) = Arity[l[1].word]
Is(l, w) == Len(l) > 0 /\ l[1].word = w /\ HasArity(l)

IsTrade(l) == Is(l, "buy") \/ Is(l, "sell")

\* strtol without a rest
IsInteger(t) == t.parsed = "all" /\ t.value % Scale = 0

\* Market is given every order and every id that a line can hold.
ASSUME ConsoleAssumption ==
  /\ TopCount \in Nat /\ MaxLines \in Nat
  /\ \A l \in Lines :
       /\ IsTrade(l) /\ l[2].word \in DOMAIN CoinNamed =>
            /\ CoinNamed[l[2].word] \in Items
            /\ l[3].value \in Prices /\ Trunc(l[4].value) \in Quantities
       /\ Is(l, "cancelorder") /\ IsInteger(l[2]) => Trunc(l[2].value) \in OrderIDs

\* create_order_from_string for a known coin: a number that does not parse is 0.
CreateOrder(l, u) ==
  [item |-> CoinNamed[l[2].word], side |-> l[1].word,
   quantity |-> Trunc(l[4].value), unitPrice |-> l[3].value,
   userID |-> u, created_at |-> 0]

Begin(s, query, c) ==
  answer' = [answer EXCEPT ![s] =
    [NoAnswer EXCEPT !.query = query, !.item = c,
                     !.due = [i \in DOMAIN orders |-> Terms(orders[i])]]]

Trade(s, l) ==
  /\ IsTrade(l) /\ l[2].word \in DOMAIN CoinNamed
  /\ ord' = [ord EXCEPT ![s] = CreateOrder(l, user[s])]
  /\ Goto(s, "get_user")
  /\ answer' = [answer EXCEPT ![s] = NoAnswer]
  /\ UNCHANGED found

\* create_order_from_string returns NULL for another coin; buy and sell use the
\* pointer, and the process of the session ends.
TradeUnknown(s, l) ==
  /\ IsTrade(l) /\ l[2].word \notin DOMAIN CoinNamed
  /\ Goto(s, "crashed")
  /\ answer' = [answer EXCEPT ![s] = NoAnswer]
  /\ UNCHANGED <<ord, found>>

Cancel(s, l) ==
  /\ Is(l, "cancelorder") /\ IsInteger(l[2])
  /\ found' = [found EXCEPT ![s] = Trunc(l[2].value)]
  /\ Goto(s, "cancel_get_order")
  /\ answer' = [answer EXCEPT ![s] = NoAnswer]
  /\ UNCHANGED ord

Query(s, l) ==
  /\ \/ Is(l, "myinventory") /\ Goto(s, "my_inventory") /\ Begin(s, "inventory", "OMG")
     \/ Is(l, "myorders") /\ Goto(s, "my_orders") /\ Begin(s, "orders", "OMG")
     \/ /\ Is(l, "view") /\ l[2].word \in DOMAIN CoinNamed
        /\ Goto(s, "view_buys") /\ Begin(s, "view", CoinNamed[l[2].word])
  /\ UNCHANGED <<ord, found>>

Reply(s) == answer' = [answer EXCEPT ![s] = NoAnswer] /\ UNCHANGED <<pc, ord, found>>

\* handle_help prints the commands.
Help(s, l) == Is(l, "help") /\ Reply(s)

\* A line that is empty, unknown or malformed is answered as such.
Invalid(s, l) ==
  /\ ~IsTrade(l)
  /\ Is(l, "cancelorder") => ~IsInteger(l[2])
  /\ Is(l, "view") => l[2].word \notin DOMAIN CoinNamed
  /\ ~Is(l, "myinventory") /\ ~Is(l, "myorders") /\ ~Is(l, "help")
  /\ Reply(s)

ReadCommand(s) ==
  /\ issued < MaxCommands
  /\ \E l \in Lines : Trade(s, l) \/ Cancel(s, l)
  /\ issued' = issued + 1
  /\ UNCHANGED <<tables, now, user, match, wal, ret, faults, asked, cancelled>>

ReadOther(s) ==
  /\ \E l \in Lines : TradeUnknown(s, l) \/ Query(s, l) \/ Help(s, l) \/ Invalid(s, l)
  /\ asked' = asked + 1
  /\ UNCHANGED <<tables, now, user, match, wal, ret, bounds, cancelled>>

ReadLine(s) ==
  /\ At(s, "idle") /\ issued + asked < MaxLines
  /\ ReadCommand(s) \/ ReadOther(s)

-----------------------------------------------------------------------------
(* The queries.  They change no table and print what they read. *)

\* The fields of the answer that a SELECT fills; then the next label.
Read(s, new, label) ==
  /\ answer' = [answer EXCEPT ![s] = new]
  /\ Goto(s, label)
  /\ UNCHANGED <<tables, now, user, locals, ret, bounds, asked, cancelled>>

OwnOpen(s) == {i \in DOMAIN orders : orders[i].userID = user[s]}
OwnArchived(s) ==
  {Terms(archives[k]) : k \in {k \in DOMAIN archives : archives[k].userID = user[s]}}

Inventory(s) == users[user[s]]

MyInventory(s) ==
  /\ At(s, "my_inventory")
  /\ Read(s, [answer[s] EXCEPT !.coins = Inventory(s)], "idle")

\* Slip: the archives are read before the open orders.
ArchivesFirst(s) ==
  /\ At(s, "my_orders")
  /\ Read(s, [answer[s] EXCEPT !.archived = OwnArchived(s)], "my_orders_archived")
OrdersLast(s) ==
  /\ At(s, "my_orders_archived")
  /\ Read(s, [answer[s] EXCEPT !.open = OwnOpen(s)], "idle")
SwappedLists(s) == ArchivesFirst(s) \/ OrdersLast(s)

\* handle_my_orders: my_orders and get_archived_orders.
OpenOrders(s) ==
  /\ At(s, "my_orders")
  /\ Read(s, [answer[s] EXCEPT !.open = OwnOpen(s)], "my_orders_archived")
ArchivedOrders(s) ==
  /\ At(s, "my_orders_archived")
  /\ Read(s, [answer[s] EXCEPT !.archived = OwnArchived(s)], "idle")
MyOrders(s) == OpenOrders(s) \/ ArchivedOrders(s)

\* Slip: both sides are in ascending order of price.
Cheaper(side, p, q) == p < q

\* ORDER BY unitPrice DESC for buy orders and ASC for sell orders.
Before(side, p, q) == IF side = "buy" THEN p > q ELSE p < q

\* LIMIT TopCount: equal prices come in any order.
Listed(side, c) ==
  LET S == {[orderID |-> i, unitPrice |-> orders[i].unitPrice] :
              i \in {i \in DOMAIN orders : orders[i].item = c /\ orders[i].side = side}}
  IN  {T \in SUBSET S :
         /\ Cardinality(T) = IF Cardinality(S) < TopCount THEN Cardinality(S)
                                                          ELSE TopCount
         /\ \A t \in T, r \in S \ T : ~Before(side, r.unitPrice, t.unitPrice)}

\* handle_view: get_item_all_orders selects the two sides one after the other.
ViewBuys(s) ==
  /\ At(s, "view_buys")
  /\ \E T \in Listed("buy", answer[s].item) :
       Read(s, [answer[s] EXCEPT !.buys = T], "view_sells")
ViewSells(s) ==
  /\ At(s, "view_sells")
  /\ \E T \in Listed("sell", answer[s].item) :
       Read(s, [answer[s] EXCEPT !.sells = T], "idle")

\* A SELECT that fails is an empty list to myOrders, which goes on.  view shows
\* neither side when one cannot be prepared, and goes on with the rows it has when
\* stepping through them fails.  The answer keeps that it failed, and no rows; the
\* bound counts the statements of commands only.
QueryFails(s) ==
  /\ faults < MaxFaults
  /\ \/ At(s, "my_orders") /\ Goto(s, "my_orders_archived")
     \/ At(s, "view_buys") /\ Goto(s, "view_sells")
     \/ pc[s] \in {"my_inventory", "my_orders_archived", "view_buys", "view_sells"}
        /\ Goto(s, "idle")
  /\ answer' = [answer EXCEPT ![s].failed = TRUE, ![s].buys = {}]
  /\ UNCHANGED <<tables, now, user, locals, ret, bounds, asked, cancelled>>

-----------------------------------------------------------------------------
QueryStep(s) == MyInventory(s) \/ MyOrders(s) \/ ViewBuys(s) \/ ViewSells(s)

\* A statement of buy, sell or cancel_order.
TradeStep(s) ==
  /\ \/ Step(s)
     \/ pc[s] \in Labels /\ StatementFails(s)
     \/ PrepareFails(s)
  /\ cancelled' = IF At(s, "cancel_delete") /\ orders' # orders
                  THEN cancelled \cup {found[s]} ELSE cancelled
  /\ UNCHANGED <<answer, asked>>

Finished == (\A s \in Sessions : pc[s] \in {"idle", "crashed"}) /\ UNCHANGED allVars

ConsoleNext ==
  \/ \E s \in Sessions : ReadLine(s) \/ QueryStep(s) \/ QueryFails(s) \/ TradeStep(s)
  \/ Tick /\ UNCHANGED cvars
  \/ Finished

ConsoleSpec == ConsoleInit /\ [][ConsoleNext]_allVars

\* The operating system runs every process and SQLite's busy handler lets every
\* statement end, with success or with an error.
FairConsole ==
  ConsoleSpec /\ \A s \in Sessions : WF_allVars(QueryStep(s) \/ QueryFails(s) \/ TradeStep(s))

-----------------------------------------------------------------------------
(* Properties *)

Done(s, query) == At(s, "idle") /\ answer[s].query = query /\ ~answer[s].failed

\* An order of the user that rested when myOrders was read is listed, as open or
\* as archived, unless it was cancelled: nothing is lost between the two SELECTs
\* although other sessions fill the order meanwhile.  It takes the order in which
\* handle_my_orders reads the tables and the one in which buy and sell write them.
NothingMissing ==
  \A s \in Sessions : Done(s, "orders") =>
    \A i \in DOMAIN answer[s].due : answer[s].due[i].userID = user[s] =>
      \/ i \in answer[s].open
      \/ answer[s].due[i] \in answer[s].archived
      \/ i \in cancelled

\* view lists the best of each side: an order that rested all the while (ids are
\* not used twice) and is not listed is kept out by TopCount orders of its side,
\* none with a worse price, whatever happens between the two SELECTs.
ShowsTheBest ==
  \A s \in Sessions : Done(s, "view") =>
    \A i \in DOMAIN answer[s].due \cap DOMAIN orders :
      LET o == orders[i]
          list == IF o.side = "buy" THEN answer[s].buys ELSE answer[s].sells
      IN  o.item = answer[s].item /\ (\A r \in list : r.orderID # i) =>
            /\ Cardinality(list) = TopCount
            /\ \A r \in list : IF o.side = "buy" THEN r.unitPrice >= o.unitPrice
                                                 ELSE r.unitPrice <= o.unitPrice

\* A line that was read is answered, or the process of the session ends on it:
\* buy, sell, cancel_order and the queries return, whatever the other sessions do
\* to the rows they work on and whether or not a statement fails.
LineEnds == \A s \in Sessions : []<>(At(s, "idle") \/ At(s, "crashed"))

\* echo "reads messages from the client, processes them, and sends appropriate
\* responses back to the client" (server.h:109): every line is answered.  A line
\* that buys or sells an unknown coin ends the process of the session.
EveryLineAnswered == \A s \in Sessions : ~At(s, "idle") ~> At(s, "idle")
=============================================================================
