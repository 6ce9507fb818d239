------------------------------- MODULE Server -------------------------------
(***************************************************************************)
(* The life of run_server: the start of a server (run_server.c), accepting *)
(* and forking (accept_client), registration and login, and the command    *)
(* loop as far as a connection is concerned; what the commands do is in    *)
(* Console and Market.  The servers are processes started one after the    *)
(* other or at the same time on one machine, with one port and one         *)
(* database file.                                                          *)
(*                                                                         *)
(* Of table users only the columns that identify a user are kept: rows[i]  *)
(* is the row with userID i (AUTOINCREMENT starts again with the table).   *)
(* pc[c] is the place of the process that serves the connection of client  *)
(* c, or "away" (not connected), "queued" (in the backlog of the listener) *)
(* or "dangling": accepted, and no process reads it.                       *)
(***************************************************************************)
EXTENDS Integers, Sequences

CONSTANTS
  Clients,    \* the clients, with one connection at a time each
  Servers,    \* the starts of run_server
  Names, Passwords,
  NoServer,   \* not a server
  MaxFds      \* how many connections fit in the descriptor table of a process

ASSUME ServerAssumption == NoServer \notin Servers /\ MaxFds \in Nat

VARIABLES
  rows,     \* table users
  exists,   \* whether table users exists
  stage,    \* stage[p]: what server p does next
  held,     \* held[p]: the connections whose descriptors server p has open
  pc,
  server,   \* server[c]: the server whose listener the connection came by
  userID, status,  \* the C locals of accept_client
  given,    \* given[c]: the username and password last read from the client
  auth      \* auth[c]: auth_user in authenticate, the row read by username

VARIABLES  \* history
  wipes,    \* how often the tables have been dropped
  since,    \* since[c]: wipes when auth[c] was read
  told      \* the users told "Registration successful!" since the last wipe

store == <<rows, exists>>
hosts == <<stage, held>>
locals == <<userID, status, given, auth>>
history == <<wipes, since, told>>
vars == <<store, hosts, pc, server, locals, history>>

Credentials == [username : Names, password : Passwords]
NoCredentials == [username |-> "", password |-> ""]
Given == [username : Names \cup {""}, password : Passwords \cup {""}]
NoUser == -1
ReadRow == [userID : Int, password : Passwords \cup {""}]
NoRow == [userID |-> NoUser, password |-> ""]

Stages == {"off", "drop", "create", "bind", "accept", "exited"}
Served == {"menu", "login", "password", "loop", "command"}
AllPlaces == Served \cup {"away", "queued", "dangling"}

Init ==
  /\ rows = << >> /\ exists = FALSE
  /\ stage = [p \in Servers |-> "off"]
  /\ held = [p \in Servers |-> 0]
  /\ pc = [c \in Clients |-> "away"]
  /\ server = [c \in Clients |-> NoServer]
  /\ userID = [c \in Clients |-> NoUser]
  /\ status = [c \in Clients |-> 0]
  /\ given = [c \in Clients |-> NoCredentials]
  /\ auth = [c \in Clients |-> NoRow]
  /\ wipes = 0
  /\ since = [c \in Clients |-> 0]
  /\ told = {}

-----------------------------------------------------------------------------
(* Sockets *)

At(c, place) == pc[c] = place

\* The listener is inherited by every child and closed when the last of them
\* and the server itself have gone.
Listening(p, st, q) ==
  st[p] = "accept" \/ \E c \in Clients : server[c] = p /\ q[c] \in Served

\* What the exit of the last process of a server does to the other ends: the
\* backlog goes with the listener, and a connection that nobody reads is open in
\* the server and the children forked after it was accepted.  (If these go
\* earlier, the client is taken to give up.)
Hangup(st, q) ==
  [c \in Clients |->
     IF q[c] \in {"queued", "dangling"} /\ ~Listening(server[c], st, q)
     THEN "away" ELSE q[c]]
Places(st, q) ==
  /\ pc' = Hangup(st, q)
  /\ server' = [c \in Clients |-> IF pc'[c] = "away" THEN NoServer ELSE server[c]]

\* The locals of a process go with it.
Forget(c) ==
  /\ userID' = [userID EXCEPT ![c] = NoUser]
  /\ status' = [status EXCEPT ![c] = 0]
  /\ given' = [given EXCEPT ![c] = NoCredentials]
  /\ auth' = [auth EXCEPT ![c] = NoRow]
  /\ since' = [since EXCEPT ![c] = 0]
  /\ UNCHANGED <<wipes, told>>

-----------------------------------------------------------------------------
(* Start *)

\* Server p goes to the next stage; no connection is concerned.
Enter(p, s) ==
  /\ stage' = [stage EXCEPT ![p] = s]
  /\ UNCHANGED <<held, pc, server, locals, since>>

Open(p) ==
  /\ stage[p] = "off"
  /\ Enter(p, "drop")
  /\ UNCHANGED <<store, wipes, told>>

\* init_db: all tables in one transaction, whoever uses them.
DropTables(p) ==
  /\ stage[p] = "drop"
  /\ rows' = << >> /\ exists' = FALSE
  /\ wipes' = wipes + 1 /\ told' = {}
  /\ Enter(p, "create")

\* CREATE TABLE IF NOT EXISTS
CreateTables(p) ==
  /\ stage[p] = "create"
  /\ exists' = TRUE
  /\ Enter(p, "bind")
  /\ UNCHANGED <<rows, wipes, told>>

\* Opening or resetting the database can fail (after table users was created,
\* perhaps), and the port can be in use.
StartFails(p) ==
  /\ \/ stage[p] \in {"off", "drop", "create"}
     \/ stage[p] = "bind" /\ \E r \in Servers : Listening(r, stage, pc)
  /\ \/ UNCHANGED exists
     \/ stage[p] = "create" /\ exists' = TRUE
  /\ Enter(p, "exited")
  /\ UNCHANGED <<rows, wipes, told>>

Listen(p) ==
  /\ stage[p] = "bind" /\ ~\E r \in Servers : Listening(r, stage, pc)
  /\ Enter(p, "accept")
  /\ UNCHANGED <<store, wipes, told>>

-----------------------------------------------------------------------------
(* accept_client *)

Connect(c) ==
  /\ At(c, "away")
  /\ \E p \in Servers : /\ Listening(p, stage, pc)
                        /\ server' = [server EXCEPT ![c] = p]
  /\ pc' = [pc EXCEPT ![c] = "queued"]
  /\ UNCHANGED <<store, hosts, locals, history>>

\* Slip: the server runs the session itself before it accepts again.
AcceptAlone(p, c) ==
  /\ stage[p] = "accept" /\ held[p] < MaxFds
  /\ At(c, "queued") /\ server[c] = p
  /\ \A d \in Clients : server[d] = p => pc[d] \notin Served
  /\ held' = [held EXCEPT ![p] = @ + 1]
  /\ pc' = [pc EXCEPT ![c] = "menu"]
  /\ UNCHANGED <<store, stage, server, locals, history>>

\* Slip: the descriptor table is not looked at.
AcceptMore(p, c) ==
  /\ stage[p] = "accept"
  /\ At(c, "queued") /\ server[c] = p
  /\ held' = [held EXCEPT ![p] = @ + 1]
  /\ pc' = [pc EXCEPT ![c] = "menu"]
  /\ UNCHANGED <<store, stage, server, locals, history>>

\* The descriptor stays open in the server, which never closes it.  A fork that
\* fails returns -1, and the server goes on as the parent it is.
Accept(p, c) ==
  /\ stage[p] = "accept" /\ held[p] < MaxFds
  /\ At(c, "queued") /\ server[c] = p
  /\ held' = [held EXCEPT ![p] = @ + 1]
  /\ \E place \in {"menu", "dangling"} : pc' = [pc EXCEPT ![c] = place]
  /\ UNCHANGED <<store, stage, server, locals, history>>

\* accept4 gives an error, whichever, and the server exits.
AcceptFails(p) ==
  /\ stage[p] = "accept"
  /\ stage' = [stage EXCEPT ![p] = "exited"]
  /\ held' = [held EXCEPT ![p] = 0]
  /\ Places(stage', pc)
  /\ UNCHANGED <<store, locals, history>>

\* The process of c ends: the client has closed the connection (getline gives
\* -1, or the end of the file), or the process has crashed in a command.
ChildEnds(c, place) ==
  /\ Places(stage, [pc EXCEPT ![c] = place])
  /\ Forget(c)
  /\ UNCHANGED <<store, hosts>>

Leave(c) == pc[c] \in Served /\ ChildEnds(c, "away")
Crash(c) == At(c, "command") /\ ChildEnds(c, "dangling")

\* A client whose connection nobody reads closes it.
GiveUp(c) ==
  /\ At(c, "dangling")
  /\ Places(stage, [pc EXCEPT ![c] = "away"])
  /\ UNCHANGED <<store, hosts, locals, history>>

-----------------------------------------------------------------------------
(* Registration and login *)

\* The loop of accept_client: on to the commands, or the menu once more.
NextPlace(id, st) == IF id \in {-1, 0} \/ st # 1 THEN "menu" ELSE "loop"

\* Slip: a username may be taken twice.
Unchecked(k) == TRUE

\* username TEXT UNIQUE
Unused(k) == \A i \in DOMAIN rows : rows[i].username # k.username

\* insert_user: AUTOINCREMENT gives the ids of a new table from 1 on.
InsertUser(k) ==
  /\ exists /\ Unused(k)
  /\ rows' = Append(rows, k)

\* register_user: three lines are read, then the row is inserted.  The name the
\* user is shown by is left out.
Register(c, k) ==
  /\ At(c, "menu")
  /\ given' = [given EXCEPT ![c] = k]
  /\ \/ /\ InsertUser(k)
        /\ userID' = [userID EXCEPT ![c] = Len(rows) + 1]
        /\ told' = told \cup {k}
     \/ /\ UNCHANGED <<rows, told>>       \* a user of that name, or an error
        /\ userID' = [userID EXCEPT ![c] = NoUser]
  /\ pc' = [pc EXCEPT ![c] = NextPlace(userID'[c], status[c])]
  /\ UNCHANGED <<exists, hosts, server, status, auth, wipes, since>>

ChooseLogin(c) ==
  /\ At(c, "menu")
  /\ pc' = [pc EXCEPT ![c] = "login"]
  /\ UNCHANGED <<store, hosts, server, locals, history>>

\* get_user_by_username: SELECT from users WHERE username = n.
IDsOf(n) == {i \in DOMAIN rows : rows[i].username = n}

\* get_user_by_username found a row: the password is asked for.  Otherwise, or
\* when the SELECT fails, the username is asked for again, and nothing changes.
GiveName(c, n) ==
  /\ At(c, "login")
  /\ \E i \in IDsOf(n) :
       auth' = [auth EXCEPT ![c] = [userID |-> i, password |-> rows[i].password]]
  /\ given' = [given EXCEPT ![c] = [username |-> n, password |-> ""]]
  /\ since' = [since EXCEPT ![c] = wipes]
  /\ pc' = [pc EXCEPT ![c] = "password"]
  /\ UNCHANGED <<store, hosts, server, userID, status, wipes, told>>

\* Slip: strcmp compares for inequality.
Differ(x, y) == x # y

Same(x, y) == x = y

\* strcmp with the row read before the password was asked for.
GivePassword(c, w) ==
  /\ At(c, "password")
  /\ \/ /\ Same(w, auth[c].password)
        /\ given' = [given EXCEPT ![c].password = w]
        /\ userID' = [userID EXCEPT ![c] = auth[c].userID]
        /\ status' = [status EXCEPT ![c] = 1]
        /\ pc' = [pc EXCEPT ![c] = NextPlace(userID'[c], 1)]
        /\ UNCHANGED <<auth, since>>
     \/ /\ ~Same(w, auth[c].password)
        /\ pc' = [pc EXCEPT ![c] = "login"]
        /\ given' = [given EXCEPT ![c] = NoCredentials]
        /\ auth' = [auth EXCEPT ![c] = NoRow]
        /\ since' = [since EXCEPT ![c] = 0]
        /\ UNCHANGED <<userID, status>>
  /\ UNCHANGED <<store, hosts, server, wipes, told>>

-----------------------------------------------------------------------------
(* echo *)

SendLine(c) ==
  /\ At(c, "loop")
  /\ pc' = [pc EXCEPT ![c] = "command"]
  /\ UNCHANGED <<store, hosts, server, locals, history>>

Answer(c) ==
  /\ At(c, "command")
  /\ pc' = [pc EXCEPT ![c] = "loop"]
  /\ UNCHANGED <<store, hosts, server, locals, history>>

-----------------------------------------------------------------------------
Starting(p) ==
  Open(p) \/ DropTables(p) \/ CreateTables(p) \/ StartFails(p) \/ Listen(p)
Serving(p) == AcceptFails(p) \/ \E c \in Clients : Accept(p, c)
Running(c) == Answer(c) \/ Crash(c)
ClientActs(c) ==
  \/ Connect(c) \/ Leave(c) \/ GiveUp(c) \/ ChooseLogin(c) \/ SendLine(c)
  \/ \E k \in Credentials : Register(c, k)
  \/ \E n \in Names : GiveName(c, n)
  \/ \E w \in Passwords : GivePassword(c, w)

Next ==
  \/ \E p \in Servers : Starting(p) \/ Serving(p)
  \/ \E c \in Clients : Running(c) \/ ClientActs(c)

Spec == Init /\ [][Next]_vars

OutOfDescriptors(p) == held[p] = MaxFds /\ AcceptFails(p)

\* The processes run: a server takes the connections of its backlog in order of
\* arrival, accept4 fails when no descriptor is free (any other error may never
\* come), and a command ends.  Nobody has to start a server, and clients do as they
\* like.
FairSpec ==
  /\ Spec
  /\ \A p \in Servers : WF_vars(OutOfDescriptors(p))
  /\ \A p \in Servers, c \in Clients : WF_vars(Accept(p, c))
  /\ \A c \in Clients : WF_vars(Running(c))

-----------------------------------------------------------------------------
(* Properties *)

TypeOK ==
  /\ rows \in Seq(Credentials) /\ exists \in BOOLEAN
  /\ stage \in [Servers -> Stages]
  /\ held \in [Servers -> 0..MaxFds]
  /\ pc \in [Clients -> AllPlaces]
  /\ server \in [Clients -> Servers \cup {NoServer}]
  /\ \A c \in Clients : server[c] = NoServer <=> At(c, "away")
  /\ userID \in [Clients -> Int] /\ status \in [Clients -> {0, 1}]
  /\ given \in [Clients -> Given] /\ auth \in [Clients -> ReadRow]
  /\ wipes \in Nat /\ since \in [Clients -> Nat] /\ told \subseteq Credentials

InCommands(c) == pc[c] \in {"loop", "command"}

\* A session runs its commands for the user whose name and password its client
\* gave last, as the table has them: through failed registrations, wrong
\* passwords and reconnections of all clients, and with the row and the password
\* read at different times.  Unless the tables were dropped since.
OwnIdentity ==
  \A c \in Clients : InCommands(c) /\ since[c] = wipes =>
    userID[c] \in DOMAIN rows /\ rows[userID[c]] = given[c]

\* Who was told "Registration successful! You can now log in." can: the row that
\* authenticate finds under that name, whichever SQLite returns, is the one with
\* that password, until the tables are dropped.
RegistrationKept ==
  \A k \in told :
    /\ IDsOf(k.username) # {}
    /\ \A i \in IDsOf(k.username) : rows[i] = k

\* A client in the backlog of a running server gets its turn, also while other
\* sessions never end, or the server runs out of descriptors and exits.
Waits(c, p) == At(c, "queued") /\ server[c] = p /\ stage[p] = "accept"
Admitted ==
  \A c \in Clients, p \in Servers :
    Waits(c, p) ~> ~At(c, "queued") \/ stage[p] = "exited"

\* echo runs with "the unique identifier of the authenticated user" (server.h:
\* 116), and the tables are dropped only when the server is off (README:83).
\* A second start drops them, and fails on the port, under the sessions of the
\* first: a userID then names nobody, or whoever registers next.
SessionIsItsUser ==
  \A c \in Clients : InCommands(c) =>
    userID[c] \in DOMAIN rows /\ rows[userID[c]] = given[c]
=============================================================================
