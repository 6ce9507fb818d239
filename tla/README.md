# Olin Marketplace for Goods: verification project

TLA+ specifications of the marketplace server, the TLC runs that check them on
small instances and the TLAPS proofs of what holds for every instance. The
program is the C code in `src/src`; paths and line numbers below are those of
the repository.

## 1. Inventory

The server (`run_server.c`) opens one SQLite database, drops and re-creates its
tables, listens on a port and forks a process for each connection
(`server.c`, `accept_client`). The child lets its client register or log in and
then runs a loop: read a line, split it into tokens, run the command, answer
(`echo`). All processes share the database file and nothing else, so the only
interaction between clients is through the rows they read and write.

| component | state | operations | interacts through |
| --- | --- | --- | --- |
| Store, `db.c` | tables `users`, `orders`, `archives`, their AUTOINCREMENT counters | one C function per SQL statement, except `insert_order` (three statements) and `get_item_all_orders` (two) | called by the commands; shared by all processes |
| Trading commands, `command.c` | none of their own; `user` and `order` structs on the stack between statements | `buy`, `sell`, `cancel_order`, `archive_order` | up to ten statements each, no transaction |
| Query commands, `command.c` | none | `my_orders`, `view_item_orders`, `get_archived_orders`, inventory | read the tables |
| Connection server, `server.c` | listening socket, child processes | `accept_client`, `echo`, `handle_*` | forks; calls the commands |
| Registration and login, `server.c` | row of `users`; `userID` of the process | `register_user`, `authenticate` | tables |
| Start, `run_server.c`, `init_db` | the tables | drop, create | wipes what other processes use |
| Parsing, `string_array.c`, `util.c`, `create_order_from_string` | none | tokenizer, number parsing | input of the commands |

What is hard about it:

* **Concurrency.** `buy` reads its user, searches a match, reads it, writes two
  archive rows, two balances and the matched order, and inserts the remainder,
  each in a transaction of its own. Balances and quantities are written as
  absolute values computed from rows read several statements earlier.
* **Failure half way.** Every statement can fail (SQLITE_BUSY after one second,
  I/O errors). What was committed before stays.
* **Order.** The search promises the oldest compatible order; it is settled
  four to eight statements later.
* **Money.** The cost of an order is taken when it is posted, given back when
  it is cancelled, and paid when it is filled, with three different roundings,
  each after a product or a sum of doubles that is rounded itself. Nothing keeps
  a quantity or a price from being negative.
* **Start.** A second server wipes the tables under the first.
* **Processes.** The parent keeps every descriptor it accepts; a session can
  crash, and its client is then connected to nobody; login reads a row, waits
  for the client and compares with what it read.
* **Queries.** `myOrders` and `view` are two SELECTs each, with other sessions'
  statements in between.

What makes each component correct:

* Store: ids are never reused, the terms of an order never change, orders leave
  one at a time.
* Trading: trades are between compatible orders, with the oldest; both sides are
  archived; orders leave by cancellation or after a trade only; nobody trades
  what he does not have; coins are neither made nor lost, but for a rounding;
  commands return.
* A command as a whole: it is one trade, post or withdrawal, or nothing.
* Queries: `myOrders` misses none of the user's orders; `view` shows the five
  best of each side.
* Server and login: a session acts for the user it logged in as; a client that
  connects is accepted; who was told that it is registered can log in.
* Parsing: the tokens of a line are its words; the array is written within its
  allocation.

`PROJECT.json` lists the components with their status and the hazards with the
line where each bites.

## 2. Modules

```
Doubles <- Db <- Market <- MarketProps <- Accounts <- Claims <- MCMarket
                            |       |         ^
                            |     Book    Settlement <- MCSettlement
                            |                 |
                         Console          Exchange
                            ^- MCConsole, ConsoleProofs
Server <- MCServer, ServerProofs
Tokens <- TokensProofs

MarketProps <- MarketProofs <- RowProofs <- SerialProofs <- AccountsProofs
                                                  ^- SettlementProofs
```

`A <- B` means that B extends A. Book and Exchange are instantiated, by
MarketProps and Settlement, and RowProofs by ConsoleProofs, which shows that the
trades of `Console` are those of `Market` and takes its theorems from there.
AccountsProofs also extends Accounts, and SettlementProofs Settlement.

* **Doubles** - the arithmetic of prices and costs. A double is an integer
  number of `1/Scale` coins, and the doubles are further apart the larger they are
  (`Ulp`); a product or a sum is rounded to the nearest of them (`Round`, ties to
  even) and cut off towards zero where C stores a double into an int (`Trunc`).
  IEEE 754 doubles are the instance `Scale = 2^1074`, `Half = 2^52`, `Spacings` the
  powers of two up to `Scale/8`; TLC runs with far fewer doubles, and the theorems
  are about all instances.
* **Db** - the tables and one operator per SQL statement. `orders` is a function
  from orderID to row (so a row has no `orderID` field), `orderSeq` the
  AUTOINCREMENT counter, `archives` the sequence of archived rows, `now` the
  clock behind CURRENT_TIMESTAMP. Usernames, names and passwords are left out.
  Coins and quantities are integers of either sign. The cost of an order is a
  rounded product; a balance plus a cost is rounded once more (`AddOMG`).
* **Market** - concurrent sessions running `buy`, `sell` and `cancel_order`, one
  action per SQL statement. `pc[s]` names the next statement; `ord`, `found`,
  `match` and `wal` are the C locals. `buy` and `sell` are the same sequence of
  statements with the direction of coins exchanged, so they share their actions
  and differ in `Covered`, `Matching`, `TakerWallet` and `MakerWallet`, which
  look at the side of the order. Statements that only touch locals belong to
  the action of the preceding statement; `assign_order_timestamp` reads the clock
  and is joined to `get_order`. `StatementFails` and `PrepareFails` are the error
  paths. A process that is killed half way leaves what a failing statement at the
  same place leaves, so crashes of a session need no action of their own.
* **Book** - what table `orders` promises: the abstract specification.
* **MarketProps** - type invariant and properties of the order book.
* **Accounts** - holdings, that is wallet and what the resting orders hold, and
  their sums over the users.
* **Claims** - statements of the headers and the README that the code does not
  meet.
* **Exchange** - the marketplace with one step per command: post, fill (and post
  the rest, or drop it), withdraw, by users who own what they trade and set aside;
  a refused command is no step. Money is exact here up to the coin: whatever the
  doubles do, each amount is the cost rounded down or up to a whole coin, and the
  rest of an order is dropped only if by one of these amounts its owner lacks the
  coins, or if it sells OMG. **Settlement** remembers the tables as they were when no
  command ran and states that they change as `Exchange` does.
* **Console** - the command loop: the lines a client sends, split into tokens,
  their dispatch, the checks of arity, coin and number, and the queries, one
  action per SELECT. It extends the statements of `Market`, so a session's
  queries run between the statements of other sessions' trades. A token is its
  word, or the number at its head and how much of it that is.
* **Tokens** - `tokenize_line`, a character at a time, on the growing array of
  `string_array.c`. The allocation is a function whose domain is what `malloc`
  or `realloc` returned, so a write past it is visible.
* **Server** - starts of `run_server`, accepting and forking, registration,
  login, and the end of processes; of a command only that it runs, ends or
  crashes. Tables are dropped and created under the sessions of other servers.
* **MCMarket**, **MCSettlement**, **MCConsole**, **MCServer** - the modules TLC
  runs; they add symmetries and the lines of `Console`.
* **MarketProofs**, **RowProofs**, **SerialProofs**, **AccountsProofs**,
  **SettlementProofs**, **ConsoleProofs**, **ServerProofs**, **TokensProofs** -
  theorems (section 5).

A definition whose comment starts with `Slip:` is a deliberately wrong variant
of the definition after it. It is used by no specification; put in the place of
that definition it violates the property `PROJECT.json` pairs it with, which
shows that the property depends on that line of code.

| code | action or operator |
| --- | --- |
| `handle_buy`, `handle_sell`, `create_order_from_string` | `Issue` |
| `handle_cancel_order` | `IssueCancel` |
| `buy` 161-171, `sell` 274-291 | `GetUser`, `Covered` |
| `find_matching_sell`, `find_matching_buy` | `FindMatching`, `FindMatchingSell`, `FindMatchingBuy` |
| `get_order`, `assign_order_timestamp` | `GetOrder`, `TakeMatch` |
| `archive_order` twice | `ArchiveMatched`, `ArchiveOrder` |
| balance of the caller, 200-224 | `UpdateSelf`, `TakerWallet` |
| balance of the other user, 226-246 | `GetCounterparty`, `UpdateCounterparty`, `MakerWallet` |
| `delete_order` or `update_order`, 248-259 | `SettleMatched`, `WriteBack` |
| `insert_order` | `InsertGetUser`, `InsertOrder`, `InsertUpdateUser` |
| `cancel_order` | `CancelGetOrder`, `CancelGetUser`, `CancelUpdateUser`, `CancelDelete` |
| `echo`, `validate_command_args` | `ReadLine` (`ReadCommand`, `ReadOther`), `HasArity`, `Is` |
| `handle_buy`, `handle_sell` from a line | `Trade`, `CreateOrder`; `TradeUnknown` for a NULL order |
| `handle_cancel_order` from a line | `Cancel`, `IsInteger` |
| `handle_my_orders`, `my_orders`, `get_archived_orders` | `OpenOrders`, `ArchivedOrders` |
| `handle_view`, `get_item_all_orders` | `ViewBuys`, `ViewSells`, `Listed` |
| `handle_my_inventory`, `handle_help`, invalid lines | `MyInventory`, `Help`, `Invalid` |
| `make_string_array`, `resize`, `add_string` | `MakeStringArray`, `Resized`, `AddString` |
| `tokenize_line` | `EndToken`, `SkipSpace`, `InToken`, `Returned` |
| `main`, `open_db`, `init_db`, `listen_for_connections` | `Open`, `DropTables`, `CreateTables`, `StartFails`, `Listen` |
| `accept_client` | `Accept` (fork succeeds or not), `AcceptFails`, `NextPlace` |
| `register_user`, `insert_user` | `Register`, `InsertUser`, `Unused` |
| `authenticate`, `get_user_by_username` | `ChooseLogin`, `GiveName`, `GivePassword`, `IDsOf` |
| `error_and_exit` in a child, a crash of a child | `Leave`, `Crash`, `Forget` |
| sockets and clients (not code of the repository) | `Connect`, `GiveUp`, `Hangup`, `Listening` |

### Assumptions

* A single SQL statement is atomic and durable. The connection is opened before
  `fork` and used by every child, which SQLite's documentation excludes; the
  locking of SQLite is not modelled.
* In `Market` and `Console` the users are registered and logged in, each session
  for any one of them; several sessions may belong to one user. How they come to
  be is in `Server`.
* Coins and quantities are unbounded integers where the C code uses `int`: no
  balance, sum or cost overflows. Prices and costs are rounded as doubles are, but
  there is no infinity, NaN or -0, which `strtod` also reads, and no intermediate
  result of more than double precision (x87, a fused multiply-add). A price is a
  double already (`Round(p) = p` in `MarketAssumption`).
* Quantities and prices are of either sign: `strtol` and `strtod` read negative
  numbers (command.c:53, 76) and nothing refuses them. What does not parse is 0.
* Rows with equal timestamps, or equal prices in `view`, may be returned in any
  order by ORDER BY.
* `Server`: `fork`, the statements of registration and the start of a server may
  fail at any time; the backlog holds every client that connects (there are few)
  and clients wait in it until they are accepted or the listener is gone. The
  three lines of a registration are one step, since nothing is read from the
  tables before the last of them. A client that is accepted and has no process
  may stay connected as long as a process of the server runs, or give up.
* `Console`: `view` lists `TopCount` orders of a side, 1 in the runs and 5 in the
  code. A failing SELECT gives up the whole query or shows an empty list; an
  answer that was shortened by an error in the middle of its rows counts as
  failed and nothing is said of it.

## 3. Runs

The bounds are `MaxCommands` (commands issued), `MaxLines` (lines read),
`MaxFaults` (statements of the trading commands that fail), `MaxTime` (ticks),
`OrderIDs` (ids a client names to `cancelOrder`), `MaxLine` (characters) and
`MaxFds` (descriptors).

| run | module, specification | bounds | shows |
| --- | --- | --- | --- |
| `market_race` | `MCMarket`, `Spec` | 2 sessions, 2 users, 4 commands, 1 tick, `cancelOrder 1` | `TradesHonourOrders`, `TimePriority` |
| `market_faults` | `MCMarket`, `Spec` | 3 sessions, 2 users, 3 commands, 1 fault, 1 error code, quantities -5 and 40 | `TypeOK`, `HistoryPaired`, `RemovalJustified`, `BookSpec`, `LeftoversArePositive` |
| `serial` | `MCMarket`, `SerialSpec` | 3 commands, DOGE and OMG, quantities -2, 3, 33, prices -31/32, 31/32, 9697/32, three spacings of doubles | `CreationBounded`, `EscrowExact`, `RestIsReserved`, `CrossedOnlyByRests`, `TakerSolvent` |
| `exchange` | `MCSettlement`, `SettledSpec` | 3 commands, 1 fault, 1 error code, DOGE and OMG, quantities 3, 33, prices 31/32, 9697/32, three spacings | `CreationBounded`, `ExchangeSpec` |
| `console` | `MCConsole`, `FairConsole` | 2 sessions, 3 lines out of 12, two of them for `buy`, `sell` or `cancel_order`, 1 fault, 1 error code, 1 tick | `NothingMissing`, `ShowsTheBest`, `LineEnds` |
| `server` | `MCServer`, `FairSpec` | 2 clients, 2 starts, 2 names, 2 passwords, 2 descriptors | `TypeOK`, `OwnIdentity`, `RegistrationKept`, `Admitted` |
| `tokens` | `Tokens`, `Spec` | lines of at most 10 characters, capacities 1 and 4 | `WithinAllocation`, `Split` |
| `claim_debt` | `MCMarket`, `SerialSpec` | 3 commands | violated: `NoDebt` |
| `claim_return` | `MCMarket`, `SerialSpec` | 3 commands, OMG | violated: `ZeroOrMinusOne` |
| `claim_refund` | `MCMarket`, `Spec` | 2 sessions, 3 commands | violated: `RefundsResting` |
| `claim_answer` | `MCConsole`, `FairConsole` | 2 lines | violated: `EveryLineAnswered` |
| `claim_identity` | `MCServer`, `Spec` | as `server`, 3 descriptors | violated: `SessionIsItsUser` |

Why the bounds are enough. Four commands are what it takes for a trade to race a
cancellation and a repost: post, take, cancel, post again, and the order that races is the first, so
`market_race` cancels no other; quantities 40 and 60
make trades full and partial on either side. Three sessions are
what two takers of one resting order need. One fault reaches every failing
branch at every statement. In
`market_faults` orders are for 40 or for -5: the trade of one with the other leaves
45, of which the next one takes 40, so that trades are full and partial there too. In `serial` and
`exchange` doubles are 1/32 of a coin apart below 4096 coins, 1/16 from there on
and 1/8 from 8192 on, so that 33 coins at 9697/32 cost 10000 and 1/32, which is
rounded to the 10000 OMG a user starts with, while 3 of them and the other 30 cost
amounts that are rounded differently and do not add up to it; at 31/32 a cost is
not whole, and the balance of 10000 plus or minus it is rounded. This is the case
of 0.29 and 0.07 in the code, with numbers TLC can enumerate: coins are made and
lost by rounding, and rests are refused. A second order of 33 at 9697/32 is
refused too, 33 against 3 is a partial fill in both directions, and -2 and -31/32
make costs and trades of either sign. The other runs have whole prices, which no
rounding touches.

`console` has lines that trade with each other in part, one of them for -5 coins, and three
lines are what it takes to post an order, read `myOrders` or `view` and fill,
outbid or cancel the order between the two SELECTs, at prices of 30 and 50; one
statement of a trade can fail, or a search can return an error code as an id, and
any SELECT of a query can fail, which is not counted: the answer is marked as failed
instead. The races of three commands are those of `market_race`. Ten characters make five
tokens, so an array of capacity 4 grows once and one of capacity 1 three times;
the theorems are about every line. In `server` two descriptors let two clients
be served at the same time, or one leave and come back, and then run out; a second
start drops the tables at any moment of a registration or login and serves the
clients that come after the first has gone. In `exchange` a fault ends the
comparison with `Exchange`; what it may create is bounded by `CreationBounded`.

Fairness. `FairConsole` has weak fairness of the steps of each session: every
process is scheduled, and a statement ends, with success or, when the database
is locked for longer than the busy timeout of one second, with an error. Nothing
is assumed about clients: no session has to issue a command. Deadlock is
checked; the only state without a step of a session is the one in which all
wait for their clients (`Waiting`). In `Console` sessions may also
have crashed (`Finished`).

`FairSpec` of `Server` has weak fairness of accepting each client that waits (the
backlog is a queue, and `accept4` takes the oldest), of the exit of a server
without descriptors (`OutOfDescriptors`: `accept4` then fails) and of the end of a
running command. Any other error of `accept4` also ends the server (`AcceptFails`), at
any moment or never. Clients owe nothing:
they may sit in the menu or between commands for ever, and `Admitted` holds all
the same because each has its own process. The runs of `Server` do not check
for deadlock: every start may have failed or exited, and then nothing happens.

`SerialSpec` is the same model with one command at a time. It separates what
the functions guarantee on their own from what concurrency takes away: of the
properties of run `serial`, `CreationBounded` and `EscrowExact` do not hold under
`Spec`.

## 4. What the code does against its documentation

* A filled order is paid twice by its owner: `insert_order` takes the coins when
  it is posted, `buy` (232-241) and `sell` (353-362) take them again when it is
  filled. Balances go below zero (`claim_debt`).
* `sell omg ...` without a match is refused by `insert_order` with SQLITE_ERROR,
  which `sell` returns and `handle_sell` reports as success (`claim_return`).
* Two sessions of a user who cancel the same order are both refunded
  (`claim_refund`).
* `buy` or `sell` with an unknown coin dereferences NULL and ends the session
  (`claim_answer`).
* Starting a second server drops the tables of the first before it finds the
  port in use; its sessions go on with userIDs that are given out again
  (`claim_identity`).

Seen while modelling, without a run of their own: two sessions that fill the
same order at once write back what each computed, so a quantity that was sold
is restored; util.h:66 promises to "split a string by whitespace into tokens", but
the last word of a line that does not end in whitespace is lost (`Split` says that
it is the only one); a fork that fails goes unnoticed and leaves its client connected
to nobody (place `dangling` of `Server`); a balance written from a
stale row hides what another session wrote in between, so coins are minted or
lost under `Spec`; `cancel_order` leaves the order resting when its last
statement fails after the refund (what that creates at most is in
`CreationBounded`); what a trade left of an order is posted without a second
search, so the book may hold two orders that could trade (`CrossedOnlyByRests`
says that there is no other reason); a SELECT that fails shows as an empty list;
registration and login cut two characters off a line that ends in a bare
newline; `find_matching_*` returns an SQLite code where
db.h:262 promises -1 (`PrepareFails` is this path); `archive_order` copies an
order with its whole quantity and does not move it.

Also seen, about amounts of money:

* 100 at 0.29 cost 28.999999999999996 as a double: `insert_order` takes 28 coins
  (db.c:117, 174-177), and `cancel_order` adds the double to the balance, which
  rounds to 29 more (command.c:479-480). So a post and a cancel can make a coin, and
  others can lose one; `EscrowExact` and `CreationBounded` say that it is one per
  command at most.
* The cost of a whole order, of the part that is filled and of the rest need not
  add up. With 70 OMG an order of 1000 at 0.07 passes the check of `buy`; once 900 are
  bought, `insert_order` refuses the rest, which costs 7 coins where 6 are left.
  `RestIsReserved` says that one coin is all that can be missing.
* Orders for negative quantities and at negative prices are accepted, rest and
  trade. Such trades do create coins and overdraw both users, so `CreationBounded`
  speaks of histories without them (`NoNegativeTrade`) and `TakerSolvent` of trades
  that are `Regular`. They also make resting orders with nothing to offer;
  `LeftoversArePositive` says that each of them was posted as such, for a negative
  quantity or none, and a trade never leaves one behind.

## 5. Proofs

Proved for all sets of sessions, users, coins, quantities, prices and error
codes, all bounds and all arithmetics of doubles, from `DoublesAssumption` and
`MarketAssumption`:

* `TypeCorrect`: `Spec => []TypeOK`. `TypeOK` is inductive because it also says
  that an order in hand belongs to the session's user and that a matched order
  belongs to some user, from which `get_user` and `update_user_balance` stay
  inside `users`.
* `BookRefined`: `Spec => BookSpec`. The step to worry about is `update_order`
  from a snapshot that may be stale. The invariant is `BookInv`: the snapshot of
  a session that settles a trade has the terms of its row for as long as the row
  exists, its id is one the counter has passed (so the row cannot come back as
  another order), and no timestamp lies in the future (so ids are in time
  order). `OrdersStep` shows that every step keeps the terms of all rows, removes
  one, or posts one under a new id.
* `TradesAreHonest` and `TimePriorityHolds`: `TradesHonourOrders` and
  `TimePriority` are invariants when `PrepareCodes = {}`, that is when no error
  code is taken for an orderID. Neither is inductive: `SearchInv` adds that
  the order found stays compatible while it rests, and `BookInv` that its
  terms do. `SettlingStep` and `SearchStep` reduce the 20 actions to two cases:
  the session keeps its locals or has just read the table.

* `RemovalIsJustified`: `Spec => RemovalJustified`. `RemovalInv` says that a
  session that refunds holds an id of its own user's and that a trade past
  `archive_matched` has its matched order in `archives`; both stay true because
  `archives` only grows, no session changes its user, and, by `BookInv`, the row
  that `settle_matched` deletes has the terms of the order that was archived.
* `LeftoversStayPositive`: `Spec => LeftoversArePositive`. What `update_order` writes
  back is positive because `delete_order` takes the branch where the matched order is
  used up; what `insert_order` inserts is positive unless no match was
  found (`RestInv`, kept because `buy` and `sell` compare before they insert).
* Under these, and under the theorems on money, are lemmas on doubles: a product
  that is rounded keeps its order (`RoundMonotone`) and stays between the multiples
  of any spacing around it (`RoundBetween`), so that a whole number of coins is
  never crossed (`CoinBounds`). That is what holds of every arithmetic with
  `DoublesAssumption`, and is all the theorems use.

Proved for all sets of clients, starts, names and passwords and every size of
the descriptor table, from `ServerAssumption`:

* `ServerTypes`: `Spec => []TypeOK`, with the bound on the descriptors and the
  clients without a server being those without a connection.
* `RegistrationHolds`: `Spec => []RegistrationKept`. `RowsInv` adds that a
  username has one row; `RowsWritten` reduces the actions to the three things
  that can happen to table `users`: nothing, a drop, a row with an unused name.
* `SessionsAreTheirUsers`: `Spec => []OwnIdentity`. `SessionInv` says what is known
  of a session between reading the row and the password (the id, name and
  password are those of a row of the table, unless it was dropped since), and
  that `status` is 0 outside the command loop, so that a registration alone never
  starts one. It is kept because the table only grows until it is dropped
  (`RowsGrow`) and a step of another process leaves the locals alone
  (`OthersUntouched`, `ServersTouchNone`).

Proved for all characters and lines and all initial capacities, from
`TokensAssumption`:

* `ArrayStaysWithin`: `Spec => []WithinAllocation`. `AddStringWithin` is the lemma
  about `add_string`, grown or not.
* `TokensAreWords`: `Spec => []Split`: of every line, the array that is returned holds
  all words but the one the line ends in the middle of, in their order, and of a
  line that ends in whitespace all of them. `Reading` says that the token under way is
  what has been read since the last space; `TokenEnds` that the next space makes
  a word of exactly that token, and `NoWordEnds` that nothing else ends a word.

Proved of all numbers of sessions that are finite (`IsFiniteSet(Sessions)` is a
hypothesis of the theorem, the code's processes being finitely many):

* `HistoryIsPaired`: `Spec => []HistoryPaired`. The invariant `HistoryInv` counts
  exactly what the property bounds: bought less sold rows is the difference of the
  trades between their two `archive_order` calls, up to two for each failed
  statement that no session may spend any more. A search that returns an error code
  as an orderID earns its credit when it fails and spends it, if at all, when two
  orders of the same side are archived (`Blind`); that is why the slack is
  `2 * faults` less the sessions that are blind now.

Proved under `SerialSpec`, one command at a time (`OneAtATime`, from which
`OthersIdle`: whatever moves, everyone else waits for a client):

* `RestReserved` and `TakerIsSolvent`: `RestIsReserved` and `TakerSolvent`, for every
  error code, those taken for an orderID included. `MoneyInv` carries the check at
  the head of `buy` or `sell` along the statements: the balance covers the cost of
  the whole order as one double (`Covered`), then, after a payment that was rounded,
  the rest by the rounding of `insert_order` but for a coin (`NearlyAffords`), and
  the `user` struct in hand is the row. The arithmetic is in `Paying`, `PaidForRest`
  and `PaidInFull`: a balance that covers a cost is not overdrawn by paying it or
  less, and what is left covers the cost of the rest but for a coin, since that is at
  most the whole less the part (`CostOfRest`) and the three roundings are each a small
  part of a coin.
* `CrossedByRestsAlone`: `[]CrossedOnlyByRests`. `CrossInv` says of an order in
  hand that either nothing in the book fits it or the archives already hold the
  order it is the rest of. The first part is that a search without a result has
  found that there is none (`MatchingComplete`: the minimum that ORDER BY and LIMIT 1
  promise exists, by well-founded induction on timestamps).
* `CreationIsBounded`: `[]CreationBounded`, for finite sets of users, quantities and
  prices (there are finitely many rows, `int`s and doubles; without it the sums and
  the largest order do not exist) and every error code, those taken for an orderID
  included. `Excess` is how much of what wallets and book hold is neither issued nor
  rounded nor explained by failures, and `ExcessOf` says label by label how much of
  that a command under way may have made: at most nothing while it is `Fresh`, short
  of a coin because it has not rounded yet; between the two wallets of a trade what
  the second one's owner will still pay (`MakerGain`); what an inserted order holds until
  it is paid for; what a cancelled order held until it is deleted. Each of these is
  at most `LargestReserve` (`ExcessBound`), so a statement that fails there leaves no
  more than that behind; and a `get_order` that was given an error code for an id may
  trade two orders that do not fit, for which the failure has paid beforehand
  (`Fitting`). That amounts are bounded by the orders commands were given is `SizeInv`,
  which needs that no order of a negative quantity is traded; `TradedInv` says that a
  trade is in the archives before any wallet is written, so that `NoNegativeTrade`
  speaks of the trade under way too. `FundsInv` has the `user` structs in hand equal
  their rows. In `TakerGains` and `MakerGains`, both sides of a trade together make at
  most one coin (`FairTrade`), which is the coin the command is allowed.
* `EscrowIsExact`: `EscrowExact`, for any sets of users, quantities and prices, with no
  sign excluded. `EscrowInv` says of each user that he owns what he was given, plus
  what the command under way has put into the book and not yet taken from him, or
  given back and not yet deleted (`Owned`), up to one OMG coin for each command that
  may have rounded (`Near`, `Spent`).
* Under both are lemmas on the sums of the community modules, which are defined
  with a recursive function that CHOOSE picks: `SumsExist` and `SumsAgree` show
  that there is one and that it does not matter which, `SumRemove`, `SumChange`,
  `SumMonotone` and `SumConstant` are its laws.
* `ExchangeRefined`: `SettledSpec => ExchangeSpec`. `settled` holds the tables as the
  last command left them, and `StageInv` says, label by label, what the command under
  way has made of them so far: nothing (`AsFound`), one or both archive rows, the
  wallet of the taker, of both (`HasWritten`), or all of a trade and the row of its
  rest but not yet its escrow (`HasInserted`). So the last statement of a command makes
  the whole step of `Exchange` (`CommandEnds`), with the guards of `Fill`, `Rest` and
  `Drop` kept from the statement that checked them (`Covered`, `CanReserve`). The
  amounts are the difficulty: the code rounds a product, then a sum, then cuts off,
  and `CostWhole` shows that whatever it does to a balance is a move by one of the two
  whole amounts next to the exact cost, of either sign. The theorem is about every error code and any number of
  faults, after the first of which `settled` no longer follows the tables.

Proved of `Console`, for all lines and all numbers of listed orders, from
`ConsoleAssumption` and those of `Market`:

* `CommandLoopTrades`: `ConsoleSpec => MarketSpec`, every step of the command loop
  is a step of `Market` or leaves its variables alone; `Rows` is `Market` with a
  session that reads a query, or has crashed, seen as waiting for its client. So
  the theorems about `Spec` hold of the program that reads lines.
* `NothingIsMissing`: `ConsoleSpec => []NothingMissing`. `OrdersAnswer` follows
  one order through the query: it rests with its terms, or a trade has archived it,
  or it was cancelled (`Accounted`), and a SELECT on the archives finds what the one
  on the orders was too late for. `LeavesAccounted` takes `RemovalInv` over from
  `RowProofs`: a row leaves to the archives or to the cancelled ones.
* `ViewShowsTheBest`: `ConsoleSpec => []ShowsTheBest`. `ViewAnswer` says of the
  list that was read first that whatever still rests has the terms it had, so what
  kept it out of the list still does.

Only model-checked: `LineEnds` and `Admitted` (liveness under fairness is outside
the prover).

## 6. Plan

1. *Done*: all components but the ones below, their runs, the theorems above.
2. Proofs to come: what remains true of money between concurrent sessions, and how
   far a balance can fall below zero.
3. Overflow of `int` and the infinities of `strtod`.

## 7. Not modelled

* `dump_database` (`db.c` 252-303): prints the tables on the server's console.
* The text of replies and logs, `coin_type_to_string`, `fprintf_to_string` and
  the welcome banner.
* The characters of names and passwords, with the trimming of line ends.
* Overflow of `int` (`TxQuantity`, balances and costs are unbounded here), NaN and
  infinite prices.
* Memory that the C code leaks, `free_string_array`, `free_order_list`.
* Build files and the test programs.
