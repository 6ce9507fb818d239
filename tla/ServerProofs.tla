---------------------------- MODULE ServerProofs ----------------------------
(***************************************************************************)
(* Theorems about the connection server, for all sets of clients, starts   *)
(* of the server, names and passwords and for every number of descriptors. *)
(***************************************************************************)
EXTENDS Server, TLAPS

-----------------------------------------------------------------------------
(* Values *)

LEMMA Blanks == NoCredentials \in Given /\ NoRow \in ReadRow /\ NoUser \in Int
  BY DEF NoCredentials, Given, NoRow, ReadRow, NoUser

LEMMA NamesGiven ==
  /\ \A k \in Credentials : k \in Given
  /\ \A n \in Names : [username |-> n, password |-> ""] \in Given
  /\ \A g \in Given, w \in Passwords : [g EXCEPT !.password = w] \in Given
  BY DEF Credentials, Given

\* A record is its fields.
LEMMA SameFields ==
  ASSUME NEW N, NEW P,
         NEW x \in [username : N, password : P], NEW y \in [username : N, password : P],
         x.username = y.username, x.password = y.password
  PROVE  x = y
  OBVIOUS

LEMMA SameGiven ==
  ASSUME NEW x \in Given, NEW y \in Given,
         x.username = y.username, x.password = y.password
  PROVE  x = y
  BY SameFields DEF Given

LEMMA RowsRead ==
  ASSUME NEW k \in Credentials, NEW i \in Int
  PROVE  [userID |-> i, password |-> k.password] \in ReadRow
  BY DEF Credentials, ReadRow

\* One cell of a function is assigned.
LEMMA Assigned ==
  ASSUME NEW S, NEW f \in [Clients -> S], NEW c, NEW v \in S
  PROVE  [f EXCEPT ![c] = v] \in [Clients -> S]
  OBVIOUS

LEMMA Sequences ==
  ASSUME NEW S
  PROVE  /\ << >> \in Seq(S)
         /\ \A q \in Seq(S), v \in S :
              /\ Append(q, v) \in Seq(S)
              /\ Len(Append(q, v)) = Len(q) + 1
              /\ DOMAIN q = 1..Len(q)
              /\ \A i \in 1..Len(q) : Append(q, v)[i] = q[i] /\ q[i] \in S
              /\ Append(q, v)[Len(q) + 1] = v
  OBVIOUS

-----------------------------------------------------------------------------
(* Types *)

\* Closing connections sends clients away, and no one else anywhere.
LEMMA PlacesType ==
  ASSUME NEW st, NEW q \in [Clients -> AllPlaces], TypeOK, Places(st, q),
         \A c \in Clients : q[c] = "away" \/ pc[c] # "away"
  PROVE  /\ pc' \in [Clients -> AllPlaces]
         /\ server' \in [Clients -> Servers \cup {NoServer}]
         /\ \A c \in Clients : server'[c] = NoServer <=> pc'[c] = "away"
         /\ \A c \in Clients : pc'[c] = q[c] \/ pc'[c] = "away"
<1>1. \A c \in Clients : pc'[c] = q[c] \/ pc'[c] = "away"
  BY DEF Places, Hangup
<1>2. pc' \in [Clients -> AllPlaces]
  BY DEF Places, Hangup, AllPlaces
<1>3. /\ server' \in [Clients -> Servers \cup {NoServer}]
      /\ \A c \in Clients : server'[c] = IF pc'[c] = "away" THEN NoServer ELSE server[c]
  BY DEF Places, TypeOK
<1> QED
  BY <1>1, <1>2, <1>3 DEF TypeOK, At

LEMMA HangupPlace ==
  ASSUME NEW st, NEW q, Places(st, q), NEW d \in Clients
  PROVE  pc'[d] = q[d] \/ (q[d] \in {"dangling", "queued"} /\ pc'[d] = "away")
<1>1. pc'[d] = IF q[d] \in {"queued", "dangling"} /\ ~Listening(server[d], st, q)
               THEN "away" ELSE q[d]
  BY DEF Places, Hangup
<1> QED
  BY <1>1 DEF Listening

LEMMA PlaceNames ==
  \A x \in {"menu", "login", "password", "loop", "command", "away", "queued", "dangling"} :
    x \in AllPlaces
  BY DEF AllPlaces, Served

LEMMA NextPlaceNames == \A i, s : NextPlace(i, s) \in {"menu", "loop"}
  BY DEF NextPlace

\* What a step of the start of a server does to the types.
LEMMA StartingType ==
  ASSUME TypeOK, NEW p \in Servers, Starting(p)
  PROVE  TypeOK'
<1> USE DEF TypeOK, Enter, store, locals, At
<1> \A s \in Stages : [stage EXCEPT ![p] = s] \in [Servers -> Stages]
  OBVIOUS
<1> {"drop", "create", "bind", "accept", "exited"} \subseteq Stages
  BY DEF Stages
<1>1. CASE Open(p)
  BY <1>1 DEF Open
<1>2. CASE DropTables(p)
  <2>1. rows' \in Seq(Credentials) /\ wipes' \in Nat /\ told' \subseteq Credentials
    BY <1>2, Sequences DEF DropTables
  <2> QED
    BY <1>2, <2>1 DEF DropTables
<1>3. CASE CreateTables(p)
  BY <1>3 DEF CreateTables
<1>4. CASE StartFails(p)
  BY <1>4 DEF StartFails
<1>5. CASE Listen(p)
  BY <1>5 DEF Listen
<1> QED
  BY <1>1, <1>2, <1>3, <1>4, <1>5 DEF Starting

\* What accepting does to the types.
LEMMA ServingType ==
  ASSUME TypeOK, NEW p \in Servers, Serving(p)
  PROVE  TypeOK'
<1>1. ASSUME NEW c \in Clients, Accept(p, c)
      PROVE  TypeOK'
  <2>1. held' \in [Servers -> 0..MaxFds]
    BY <1>1, ServerAssumption DEF Accept, TypeOK
  <2>2. /\ pc' \in [Clients -> AllPlaces]
        /\ \A d \in Clients : pc'[d] = "away" <=> pc[d] = "away"
    BY <1>1, PlaceNames DEF Accept, TypeOK, At
  <2> QED
    BY <1>1, <2>1, <2>2 DEF Accept, TypeOK, store, locals, history, At
<1>2. CASE AcceptFails(p)
  <2>1. /\ stage' \in [Servers -> Stages]
        /\ held' \in [Servers -> 0..MaxFds]
    BY <1>2, ServerAssumption DEF AcceptFails, TypeOK, Stages
  <2>2. /\ pc' \in [Clients -> AllPlaces]
        /\ server' \in [Clients -> Servers \cup {NoServer}]
        /\ \A d \in Clients : server'[d] = NoServer <=> pc'[d] = "away"
    <3>1. Places(stage', pc) /\ pc \in [Clients -> AllPlaces]
      BY <1>2 DEF AcceptFails, TypeOK
    <3> QED
      BY <3>1, PlacesType
  <2> QED
    BY <1>2, <2>1, <2>2 DEF AcceptFails, TypeOK, store, locals, history, At
<1> QED
  BY <1>1, <1>2 DEF Serving

\* What the end of a session, or of a connection, does to the types.
LEMMA EndType ==
  ASSUME TypeOK, NEW c \in Clients, Leave(c) \/ Crash(c) \/ GiveUp(c)
  PROVE  TypeOK'
<1>1. PICK place \in {"away", "dangling"} : Places(stage, [pc EXCEPT ![c] = place])
  BY DEF Leave, Crash, GiveUp, ChildEnds
<1>2. pc[c] # "away"
  BY DEF Leave, Crash, GiveUp, Served, At
<1>3. /\ [pc EXCEPT ![c] = place] \in [Clients -> AllPlaces]
      /\ \A d \in Clients : [pc EXCEPT ![c] = place][d] = "away" \/ pc[d] # "away"
                              \/ (d # c /\ pc[d] = "away")
  BY <1>1, <1>2, PlaceNames DEF TypeOK
<1>4. \A d \in Clients : [pc EXCEPT ![c] = place][d] = "away" \/ pc[d] # "away"
  BY <1>2, <1>3 DEF TypeOK
<1>5. /\ pc' \in [Clients -> AllPlaces]
      /\ server' \in [Clients -> Servers \cup {NoServer}]
      /\ \A d \in Clients : server'[d] = NoServer <=> pc'[d] = "away"
  BY <1>1, <1>3, <1>4, PlacesType
<1>6. /\ UNCHANGED <<rows, exists, stage, held, wipes, told>>
      /\ Forget(c) \/ UNCHANGED <<userID, status, given, auth, since>>
  BY DEF Leave, Crash, GiveUp, ChildEnds, Forget, store, hosts, locals, history
<1>7. ASSUME Forget(c)
      PROVE  /\ userID' \in [Clients -> Int] /\ status' \in [Clients -> {0, 1}]
             /\ given' \in [Clients -> Given] /\ auth' \in [Clients -> ReadRow]
             /\ since' \in [Clients -> Nat]
  <2>1. userID' \in [Clients -> Int] /\ status' \in [Clients -> {0, 1}]
    BY <1>7, Blanks DEF Forget, TypeOK
  <2>2. given' \in [Clients -> Given]
    BY <1>7, Blanks DEF Forget, TypeOK
  <2>3. auth' \in [Clients -> ReadRow]
    BY <1>7, Blanks DEF Forget, TypeOK
  <2>4. since' \in [Clients -> Nat]
    BY <1>7 DEF Forget, TypeOK
  <2> QED
    BY <2>1, <2>2, <2>3, <2>4
<1> QED
  BY <1>5, <1>6, <1>7 DEF TypeOK, At

\* A step that moves one client between two places of a connection.
LEMMA MoveType ==
  ASSUME TypeOK, NEW c \in Clients, NEW place \in AllPlaces,
         pc' = [pc EXCEPT ![c] = place], server' = server,
         pc[c] # "away", place # "away"
  PROVE  /\ pc' \in [Clients -> AllPlaces]
         /\ server' \in [Clients -> Servers \cup {NoServer}]
         /\ \A d \in Clients : server'[d] = NoServer <=> pc'[d] = "away"
  BY DEF TypeOK, At

\* What a client does to the types.
LEMMA ClientType ==
  ASSUME TypeOK, NEW c \in Clients, Running(c) \/ ClientActs(c)
  PROVE  TypeOK'
<1>1. CASE Leave(c) \/ Crash(c) \/ GiveUp(c)
  BY <1>1, EndType
<1>2. CASE Connect(c)
  <2>1. /\ pc' \in [Clients -> AllPlaces]
        /\ server' \in [Clients -> Servers \cup {NoServer}]
        /\ \A d \in Clients : server'[d] = NoServer <=> pc'[d] = "away"
    BY <1>2, PlaceNames, ServerAssumption DEF Connect, TypeOK, At
  <2> QED
    BY <1>2, <2>1 DEF Connect, TypeOK, store, hosts, locals, history, At
<1>3. CASE ChooseLogin(c) \/ SendLine(c) \/ Answer(c)
  <2>1. /\ pc' \in [Clients -> AllPlaces]
        /\ server' \in [Clients -> Servers \cup {NoServer}]
        /\ \A d \in Clients : server'[d] = NoServer <=> pc'[d] = "away"
    BY <1>3, PlaceNames, MoveType DEF ChooseLogin, SendLine, Answer, At
  <2> QED
    BY <1>3, <2>1 DEF ChooseLogin, SendLine, Answer, TypeOK, store, hosts, locals, history, At
<1>4. ASSUME NEW k \in Credentials, Register(c, k)
      PROVE  TypeOK'
  <2>1. /\ pc' \in [Clients -> AllPlaces]
        /\ server' \in [Clients -> Servers \cup {NoServer}]
        /\ \A d \in Clients : server'[d] = NoServer <=> pc'[d] = "away"
    BY <1>4, PlaceNames, NextPlaceNames, MoveType DEF Register, hosts, At
  <2>2. rows' \in Seq(Credentials) /\ told' \subseteq Credentials
    <3>1. rows \in Seq(Credentials) /\ Append(rows, k) \in Seq(Credentials)
      BY Sequences DEF TypeOK
    <3> QED
      BY <1>4, <3>1 DEF Register, InsertUser, TypeOK
  <2>3. userID' \in [Clients -> Int]
    <3>1. PICK i \in Int : userID' = [userID EXCEPT ![c] = i]
      BY <1>4, Blanks, Sequences DEF Register, TypeOK
    <3> QED
      BY <3>1 DEF TypeOK
  <2>4. given' \in [Clients -> Given]
    BY <1>4, NamesGiven DEF Register, TypeOK
  <2> QED
    BY <1>4, <2>1, <2>2, <2>3, <2>4 DEF Register, TypeOK, hosts, At
<1>5. ASSUME NEW n \in Names, GiveName(c, n)
      PROVE  TypeOK'
  <2>1. /\ pc' \in [Clients -> AllPlaces]
        /\ server' \in [Clients -> Servers \cup {NoServer}]
        /\ \A d \in Clients : server'[d] = NoServer <=> pc'[d] = "away"
    BY <1>5, PlaceNames, MoveType DEF GiveName, At
  <2>2. auth' \in [Clients -> ReadRow]
    <3>1. PICK i \in DOMAIN rows :
            auth' = [auth EXCEPT ![c] = [userID |-> i, password |-> rows[i].password]]
      BY <1>5 DEF GiveName, IDsOf
    <3>2. i \in Int /\ rows[i] \in Credentials
      BY Sequences DEF TypeOK
    <3>3. [userID |-> i, password |-> rows[i].password] \in ReadRow
      BY <3>2, RowsRead
    <3> QED
      BY <3>1, <3>3 DEF TypeOK
  <2>3. /\ given' \in [Clients -> Given]
        /\ since' \in [Clients -> Nat]
    <3>1. PICK g \in Given : given' = [given EXCEPT ![c] = g]
      BY <1>5, NamesGiven DEF GiveName
    <3>2. since' \in [Clients -> Nat]
      BY <1>5 DEF GiveName, TypeOK
    <3> QED
      BY <3>1, <3>2 DEF TypeOK
  <2> QED
    BY <1>5, <2>1, <2>2, <2>3 DEF GiveName, TypeOK, store, hosts, At
<1>6. ASSUME NEW w \in Passwords, GivePassword(c, w)
      PROVE  TypeOK'
  <2>1. /\ pc' \in [Clients -> AllPlaces]
        /\ server' \in [Clients -> Servers \cup {NoServer}]
        /\ \A d \in Clients : server'[d] = NoServer <=> pc'[d] = "away"
    BY <1>6, PlaceNames, NextPlaceNames, MoveType DEF GivePassword, At
  <2>2. userID' \in [Clients -> Int] /\ status' \in [Clients -> {0, 1}]
    <3>1. auth[c].userID \in Int
      BY DEF TypeOK, ReadRow
    <3> QED
      BY <1>6, <3>1 DEF GivePassword, TypeOK
  <2>3. auth' \in [Clients -> ReadRow] /\ since' \in [Clients -> Nat]
    <3>1. auth' = auth \/ auth' = [auth EXCEPT ![c] = NoRow]
      BY <1>6 DEF GivePassword
    <3>2. auth' \in [Clients -> ReadRow]
      BY <3>1, Blanks DEF TypeOK
    <3>3. since' = since \/ since' = [since EXCEPT ![c] = 0]
      BY <1>6 DEF GivePassword
    <3>4. since' \in [Clients -> Nat]
      <4>1. since \in [Clients -> Nat] /\ 0 \in Nat
        BY DEF TypeOK
      <4> QED
        BY <3>3, <4>1, Assigned
    <3> QED
      BY <3>2, <3>4
  <2>4. given' \in [Clients -> Given]
    <3>1. given[c] \in Given /\ [given[c] EXCEPT !.password = w] \in Given
      BY NamesGiven DEF TypeOK
    <3>2. PICK g \in Given : given' = [given EXCEPT ![c] = g]
      BY <1>6, <3>1, Blanks DEF GivePassword
    <3> QED
      BY <3>2 DEF TypeOK
  <2> QED
    BY <1>6, <2>1, <2>2, <2>3, <2>4 DEF GivePassword, TypeOK, store, hosts, At
<1> QED
  BY <1>1, <1>2, <1>3, <1>4, <1>5, <1>6 DEF Running, ClientActs

LEMMA InitTypes == Init => TypeOK
<1> SUFFICES ASSUME Init PROVE TypeOK
  OBVIOUS
<1>1. /\ rows \in Seq(Credentials) /\ exists \in BOOLEAN
      /\ wipes \in Nat /\ since \in [Clients -> Nat] /\ told \subseteq Credentials
  BY Sequences DEF Init
<1>2. stage \in [Servers -> Stages] /\ held \in [Servers -> 0..MaxFds]
  <2>1. "off" \in Stages /\ 0 \in 0..MaxFds
    BY ServerAssumption DEF Stages
  <2> QED
    BY <2>1 DEF Init
<1>3. /\ pc \in [Clients -> AllPlaces]
      /\ server \in [Clients -> Servers \cup {NoServer}]
      /\ \A c \in Clients : server[c] = NoServer /\ At(c, "away")
  BY PlaceNames DEF Init, At
<1>4. /\ userID \in [Clients -> Int] /\ status \in [Clients -> {0, 1}]
      /\ given \in [Clients -> Given] /\ auth \in [Clients -> ReadRow]
  BY Blanks DEF Init
<1> QED
  BY <1>1, <1>2, <1>3, <1>4 DEF TypeOK

LEMMA TypesKept == TypeOK /\ [Next]_vars => TypeOK'
<1> SUFFICES ASSUME TypeOK, [Next]_vars PROVE TypeOK'
  OBVIOUS
<1>1. CASE UNCHANGED vars
  BY <1>1 DEF vars, store, hosts, locals, history, TypeOK, At
<1>2. CASE Next
  BY <1>2, StartingType, ServingType, ClientType DEF Next
<1> QED
  BY <1>1, <1>2

\* The tables, the servers and the locals of the sessions keep their types, no
\* server opens more connections than it has descriptors for, and exactly the
\* clients that are away belong to no server.
THEOREM ServerTypes == Spec => []TypeOK
  BY InitTypes, TypesKept, PTL DEF Spec

-----------------------------------------------------------------------------
(* Registration *)

\* A username has one row, and who was told of a registration is in the table.
RowsInv ==
  /\ TypeOK
  /\ \A i, j \in DOMAIN rows : rows[i].username = rows[j].username => i = j
  /\ \A k \in told : \E i \in DOMAIN rows : rows[i] = k

\* Table users only grows, or it is dropped.
Grown ==
  \/ /\ wipes' = wipes
     /\ \A i \in DOMAIN rows : i \in DOMAIN rows' /\ rows'[i] = rows[i]
  \/ wipes' = wipes + 1

\* The steps that write table users.
LEMMA RowsWritten ==
  ASSUME TypeOK, Next
  PROVE  \/ UNCHANGED <<rows, wipes, told>>
         \/ rows' = << >> /\ wipes' = wipes + 1 /\ told' = {}
         \/ \E k \in Credentials : /\ Unused(k)
                                   /\ rows' = Append(rows, k) /\ told' = told \cup {k}
                                   /\ UNCHANGED wipes
<1> USE DEF store, history
<1>1. ASSUME NEW p \in Servers, Starting(p) \/ Serving(p)
      PROVE  \/ UNCHANGED <<rows, wipes, told>>
             \/ rows' = << >> /\ wipes' = wipes + 1 /\ told' = {}
  <2>1. CASE DropTables(p)
    BY <2>1 DEF DropTables
  <2>2. ASSUME Open(p) \/ CreateTables(p) \/ StartFails(p) \/ Listen(p)
        PROVE  UNCHANGED <<rows, wipes, told>>
    <3>1. CASE Open(p)
      BY <3>1 DEF Open
    <3>2. CASE CreateTables(p)
      BY <3>2 DEF CreateTables
    <3>3. CASE StartFails(p)
      BY <3>3 DEF StartFails
    <3>4. CASE Listen(p)
      BY <3>4 DEF Listen
    <3> QED
      BY <2>2, <3>1, <3>2, <3>3, <3>4
  <2>3. ASSUME Serving(p)
        PROVE  UNCHANGED <<rows, wipes, told>>
    <3>1. ASSUME NEW c \in Clients, Accept(p, c)
          PROVE  UNCHANGED <<rows, wipes, told>>
      BY <3>1 DEF Accept
    <3>2. CASE AcceptFails(p)
      BY <3>2 DEF AcceptFails
    <3> QED
      BY <2>3, <3>1, <3>2 DEF Serving
  <2> QED
    BY <1>1, <2>1, <2>2, <2>3 DEF Starting
<1>2. ASSUME NEW c \in Clients, NEW k \in Credentials, Register(c, k)
      PROVE  \/ UNCHANGED <<rows, wipes, told>>
             \/ Unused(k) /\ rows' = Append(rows, k) /\ told' = told \cup {k} /\ UNCHANGED wipes
  BY <1>2 DEF Register, InsertUser
<1>3. ASSUME NEW c \in Clients, Running(c) \/ ClientActs(c),
             ~\E k \in Credentials : Register(c, k)
      PROVE  UNCHANGED <<rows, wipes, told>>
  BY <1>3 DEF Running, ClientActs, Answer, Crash, Connect, Leave, GiveUp, ChooseLogin,
              SendLine, GiveName, GivePassword, ChildEnds, Forget
<1> QED
  BY <1>1, <1>2, <1>3 DEF Next

LEMMA RowsGrow == TypeOK /\ Next => Grown
<1> SUFFICES ASSUME TypeOK, Next PROVE Grown
  OBVIOUS
<1>1. rows \in Seq(Credentials)
  BY DEF TypeOK
<1>2. ASSUME NEW k \in Credentials, rows' = Append(rows, k), wipes' = wipes
      PROVE  Grown
  BY <1>1, <1>2, Sequences DEF Grown
<1>3. CASE UNCHANGED <<rows, wipes, told>>
  BY <1>3 DEF Grown
<1> QED
  BY <1>2, <1>3, RowsWritten DEF Grown

LEMMA RowsInvKept == RowsInv /\ [Next]_vars => RowsInv'
<1> SUFFICES ASSUME RowsInv, [Next]_vars PROVE RowsInv'
  OBVIOUS
<1>1. TypeOK'
  BY TypesKept DEF RowsInv
<1>2. CASE UNCHANGED <<rows, wipes, told>>
  BY <1>1, <1>2 DEF RowsInv
<1>3. CASE rows' = << >> /\ told' = {}
  BY <1>1, <1>3 DEF RowsInv
<1>4. ASSUME NEW k \in Credentials, Unused(k), rows' = Append(rows, k), told' = told \cup {k}
      PROVE  RowsInv'
  <2>1. rows \in Seq(Credentials)
    BY DEF RowsInv, TypeOK
  <2>2. /\ Len(rows) \in Nat
        /\ DOMAIN rows = 1..Len(rows) /\ DOMAIN rows' = 1..(Len(rows) + 1)
        /\ \A i \in 1..Len(rows) : rows'[i] = rows[i]
        /\ rows'[Len(rows) + 1] = k
    BY <1>4, <2>1
  <2>3. ASSUME NEW i \in DOMAIN rows', NEW j \in DOMAIN rows',
               rows'[i].username = rows'[j].username
        PROVE  i = j
    <3>1. (i \in 1..Len(rows) \/ i = Len(rows) + 1) /\ (j \in 1..Len(rows) \/ j = Len(rows) + 1)
      BY <2>2
    <3>2. CASE i \in 1..Len(rows) /\ j \in 1..Len(rows)
      BY <2>2, <2>3, <3>2 DEF RowsInv
    <3>3. \A n \in 1..Len(rows) : rows'[n].username # k.username
      BY <1>4, <2>2 DEF Unused
    <3> QED
      BY <2>2, <2>3, <3>1, <3>2, <3>3
  <2>4. \A t \in told' : \E i \in DOMAIN rows' : rows'[i] = t
    <3>1. \A t \in told : \E i \in 1..Len(rows) : rows[i] = t
      BY <2>2 DEF RowsInv
    <3> QED
      BY <1>4, <2>2, <3>1
  <2> QED
    BY <1>1, <2>3, <2>4 DEF RowsInv
<1>5. CASE UNCHANGED vars
  BY <1>2, <1>5 DEF vars, store, history
<1> QED
  BY <1>2, <1>3, <1>4, <1>5, RowsWritten DEF RowsInv

\* Who was told of a successful registration is found by authenticate under that
\* name and with that password, until the tables are dropped: no later
\* registration, of the same name or of another, and none that fails, takes it
\* away.
THEOREM RegistrationHolds == Spec => []RegistrationKept
<1>1. Init => RowsInv
  BY InitTypes DEF Init, RowsInv
<1>2. RowsInv => RegistrationKept
  BY DEF RowsInv, RegistrationKept, IDsOf
<1> QED
  BY <1>1, <1>2, RowsInvKept, PTL DEF Spec

-----------------------------------------------------------------------------
(* Login *)

\* What is known of the user of session c, while the tables are not dropped: the
\* row read by username, before the password is checked; then the row of userID.
Session(c) ==
  /\ since[c] <= wipes
  /\ InCommands(c) \/ status[c] = 0
  /\ At(c, "password") => auth[c].userID >= 1
  /\ At(c, "password") /\ since[c] = wipes =>
       /\ auth[c].userID \in DOMAIN rows
       /\ rows[auth[c].userID].username = given[c].username
       /\ rows[auth[c].userID].password = auth[c].password
  /\ InCommands(c) /\ since[c] = wipes =>
       userID[c] \in DOMAIN rows /\ rows[userID[c]] = given[c]
SessionInv == TypeOK /\ \A c \in Clients : Session(c)

\* The process of c does nothing.
Untouched(c) ==
  /\ userID'[c] = userID[c] /\ status'[c] = status[c] /\ given'[c] = given[c]
  /\ auth'[c] = auth[c] /\ since'[c] = since[c]
  /\ \/ pc'[c] = pc[c]
     \/ pc[c] \notin {"password", "loop", "command"} /\ pc'[c] \notin {"password", "loop", "command"}
\* The process of c has ended or not begun.
Fresh(c) ==
  pc'[c] \notin {"password", "loop", "command"} /\ status'[c] = 0 /\ since'[c] = 0

LEMMA UntouchedKept ==
  ASSUME SessionInv, Grown, NEW c \in Clients, Untouched(c)
  PROVE  Session(c)'
<1>1. wipes \in Nat /\ since[c] \in Nat
  BY DEF SessionInv, TypeOK
<1>2. CASE wipes' = wipes + 1
  BY <1>1, <1>2 DEF SessionInv, Session, Untouched, InCommands, At
<1>3. CASE wipes' = wipes /\ \A i \in DOMAIN rows : i \in DOMAIN rows' /\ rows'[i] = rows[i]
  BY <1>3 DEF SessionInv, Session, Untouched, InCommands, At
<1> QED
  BY <1>2, <1>3 DEF Grown

LEMMA FreshHolds ==
  ASSUME SessionInv, Grown, NEW c \in Clients, Fresh(c)
  PROVE  Session(c)'
<1>1. wipes' \in Nat
  BY DEF SessionInv, TypeOK, Grown
<1> QED
  BY <1>1 DEF Session, Fresh, InCommands, At

\* Every process other than that of c.
LEMMA OthersUntouched ==
  ASSUME TypeOK, NEW c \in Clients, Running(c) \/ ClientActs(c), NEW d \in Clients, d # c
  PROVE  Untouched(d)
<1> USE DEF TypeOK, locals, history
<1>1. CASE Answer(c) \/ SendLine(c) \/ ChooseLogin(c) \/ Connect(c)
  BY <1>1 DEF Answer, SendLine, ChooseLogin, Connect, Untouched
<1>2. CASE Leave(c) \/ Crash(c) \/ GiveUp(c)
  <2>1. PICK place \in {"away", "dangling"} : Places(stage, [pc EXCEPT ![c] = place])
    BY <1>2 DEF Leave, Crash, GiveUp, ChildEnds
  <2>2. pc'[d] = pc[d] \/ (pc[d] \in {"dangling", "queued"} /\ pc'[d] = "away")
    <3>1. [pc EXCEPT ![c] = place][d] = pc[d]
      OBVIOUS
    <3> QED
      BY <2>1, <3>1, HangupPlace
  <2>3. Forget(c) \/ UNCHANGED <<userID, status, given, auth, since>>
    BY <1>2 DEF Leave, Crash, GiveUp, ChildEnds
  <2>4. /\ userID'[d] = userID[d] /\ status'[d] = status[d] /\ given'[d] = given[d]
        /\ auth'[d] = auth[d] /\ since'[d] = since[d]
    BY <2>3 DEF Forget
  <2> QED
    BY <2>2, <2>4 DEF Untouched
<1>3. ASSUME NEW k \in Credentials, Register(c, k)
      PROVE  Untouched(d)
  BY <1>3 DEF Register, Untouched
<1>4. ASSUME NEW n \in Names, GiveName(c, n)
      PROVE  Untouched(d)
  BY <1>4 DEF GiveName, Untouched
<1>5. ASSUME NEW w \in Passwords, GivePassword(c, w)
      PROVE  Untouched(d)
  BY <1>5 DEF GivePassword, Untouched
<1> QED
  BY <1>1, <1>2, <1>3, <1>4, <1>5 DEF Running, ClientActs

LEMMA ServersTouchNone ==
  ASSUME TypeOK, NEW p \in Servers, Starting(p) \/ Serving(p), NEW d \in Clients
  PROVE  Untouched(d)
<1> USE DEF TypeOK, locals, history
<1>1. CASE Starting(p)
  BY <1>1 DEF Starting, Open, DropTables, CreateTables, StartFails, Listen, Enter, Untouched
<1>2. ASSUME NEW c \in Clients, Accept(p, c)
      PROVE  Untouched(d)
  BY <1>2 DEF Accept, At, Untouched
<1>3. CASE AcceptFails(p)
  <2>1. pc'[d] = pc[d] \/ (pc[d] \in {"dangling", "queued"} /\ pc'[d] = "away")
    BY <1>3, HangupPlace DEF AcceptFails
  <2> QED
    BY <1>3, <2>1 DEF AcceptFails, Untouched
<1> QED
  BY <1>1, <1>2, <1>3 DEF Serving

\* The process of c itself.
LEMMA SessionKept ==
  ASSUME SessionInv, Grown, NEW c \in Clients, Running(c) \/ ClientActs(c)
  PROVE  Session(c)'
<1>0. TypeOK /\ Session(c) /\ wipes \in Nat
  BY DEF SessionInv, TypeOK
<1>1. CASE Connect(c) \/ ChooseLogin(c)
  <2>1. Untouched(c)
    BY <1>0, <1>1 DEF Connect, ChooseLogin, At, Untouched, locals, history, TypeOK
  <2> QED
    BY <2>1, UntouchedKept
<1>2. CASE SendLine(c) \/ Answer(c)
  <2>1. /\ UNCHANGED <<rows, wipes, userID, status, given, auth, since>>
        /\ InCommands(c) /\ pc'[c] \in {"loop", "command"}
    BY <1>0, <1>2 DEF SendLine, Answer, store, locals, history, At, InCommands, TypeOK
  <2> QED
    BY <1>0, <2>1 DEF Session, InCommands, At
<1>3. CASE Leave(c) \/ Crash(c)
  <2>1. PICK place \in {"away", "dangling"} : Places(stage, [pc EXCEPT ![c] = place]) /\ Forget(c)
    BY <1>3 DEF Leave, Crash, ChildEnds
  <2>2. pc'[c] \in {"away", "dangling"}
    BY <1>0, <2>1 DEF Places, Hangup, TypeOK
  <2>3. status'[c] = 0 /\ since'[c] = 0
    BY <1>0, <2>1 DEF Forget, TypeOK
  <2> QED
    BY <2>2, <2>3, FreshHolds DEF Fresh
<1>4. CASE GiveUp(c)
  <2>1. pc[c] = "dangling" /\ pc'[c] = "away"
    BY <1>0, <1>4 DEF GiveUp, Places, Hangup, At, TypeOK
  <2>2. Untouched(c)
    BY <1>4, <2>1 DEF GiveUp, Untouched, locals, history
  <2> QED
    BY <2>2, UntouchedKept
<1>5. ASSUME NEW k \in Credentials, Register(c, k)
      PROVE  Session(c)'
  <2>1. status[c] = 0 /\ since[c] <= wipes
    BY <1>0, <1>5 DEF Register, Session, InCommands, At
  <2>2. /\ UNCHANGED <<status, wipes, since>>
        /\ pc' = [pc EXCEPT ![c] = NextPlace(userID'[c], status[c])]
    BY <1>5 DEF Register
  <2>3. pc'[c] = "menu"
    BY <1>0, <2>1, <2>2 DEF NextPlace, TypeOK
  <2> QED
    BY <2>1, <2>2, <2>3 DEF Session, InCommands, At
<1>6. ASSUME NEW n \in Names, GiveName(c, n)
      PROVE  Session(c)'
  <2>1. PICK i \in DOMAIN rows :
          /\ rows[i].username = n
          /\ auth' = [auth EXCEPT ![c] = [userID |-> i, password |-> rows[i].password]]
    BY <1>6 DEF GiveName, IDsOf
  <2>2. /\ auth'[c].userID = i /\ auth'[c].password = rows[i].password
        /\ given'[c].username = n /\ since'[c] = wipes /\ pc'[c] = "password"
        /\ UNCHANGED <<rows, wipes>> /\ status'[c] = 0
    BY <1>0, <1>6, <2>1 DEF GiveName, TypeOK, store, Session, InCommands, At
  <2>3. i >= 1
    BY <1>0, Sequences DEF TypeOK
  <2> QED
    BY <1>0, <2>1, <2>2, <2>3 DEF Session, InCommands, At
<1>7. ASSUME NEW w \in Passwords, GivePassword(c, w)
      PROVE  Session(c)'
  <2>1. CASE Same(w, auth[c].password)
    <3>1. /\ given' = [given EXCEPT ![c].password = w]
          /\ userID' = [userID EXCEPT ![c] = auth[c].userID]
          /\ status' = [status EXCEPT ![c] = 1]
          /\ pc' = [pc EXCEPT ![c] = NextPlace(userID'[c], 1)]
          /\ UNCHANGED <<auth, since, rows, wipes>> /\ w = auth[c].password
      BY <1>7, <2>1 DEF GivePassword, store, Same
    <3>2. At(c, "password") /\ auth[c].userID >= 1 /\ auth[c].userID \in Int
      BY <1>0, <1>7 DEF GivePassword, Session, TypeOK, ReadRow
    <3>3. userID'[c] = auth[c].userID /\ pc'[c] = "loop"
      BY <1>0, <3>1, <3>2 DEF NextPlace, TypeOK
    <3>4. given'[c] = [given[c] EXCEPT !.password = w] /\ given[c] \in Given
      BY <1>0, <3>1 DEF TypeOK
    <3>5. ASSUME since[c] = wipes
          PROVE  userID'[c] \in DOMAIN rows /\ rows[userID'[c]] = given'[c]
      <4>1. /\ auth[c].userID \in DOMAIN rows
            /\ rows[auth[c].userID].username = given[c].username
            /\ rows[auth[c].userID].password = w
        BY <1>0, <3>1, <3>2, <3>5 DEF Session
      <4>2. rows[auth[c].userID] \in Credentials
        BY <1>0, <4>1, Sequences DEF TypeOK
      <4>3. given'[c].username = given[c].username /\ given'[c].password = w
        BY <3>4 DEF Given
      <4>4. given'[c] \in Given /\ rows[auth[c].userID] \in Given
        BY <3>4, <4>2, NamesGiven
      <4>5. rows[auth[c].userID] = given'[c]
        BY <4>1, <4>3, <4>4, SameGiven
      <4> QED
        BY <3>3, <4>1, <4>5
    <3> QED
      BY <1>0, <3>1, <3>3, <3>5 DEF Session, InCommands, At
  <2>2. CASE ~Same(w, auth[c].password)
    <3>1. /\ pc' = [pc EXCEPT ![c] = "login"] /\ since' = [since EXCEPT ![c] = 0]
          /\ UNCHANGED status /\ At(c, "password")
      BY <1>7, <2>2 DEF GivePassword
    <3>2. pc'[c] = "login" /\ since'[c] = 0 /\ status'[c] = 0
      BY <1>0, <3>1 DEF TypeOK, Session, InCommands, At
    <3> QED
      BY <3>2, FreshHolds DEF Fresh
  <2> QED
    BY <2>1, <2>2
<1> QED
  BY <1>1, <1>2, <1>3, <1>4, <1>5, <1>6, <1>7 DEF Running, ClientActs

LEMMA SessionInvKept == SessionInv /\ [Next]_vars => SessionInv'
<1> SUFFICES ASSUME SessionInv, [Next]_vars PROVE SessionInv'
  OBVIOUS
<1>1. TypeOK /\ TypeOK'
  BY TypesKept DEF SessionInv
<1>2. CASE UNCHANGED vars
  BY <1>1, <1>2 DEF SessionInv, Session, vars, store, hosts, locals, history, InCommands, At
<1>3. CASE Next
  <2>1. Grown
    BY <1>1, <1>3, RowsGrow
  <2>2. ASSUME NEW d \in Clients
        PROVE  Session(d)'
    <3>1. ASSUME NEW p \in Servers, Starting(p) \/ Serving(p)
          PROVE  Session(d)'
      BY <1>1, <2>1, <3>1, ServersTouchNone, UntouchedKept
    <3>2. ASSUME NEW c \in Clients, Running(c) \/ ClientActs(c)
          PROVE  Session(d)'
      BY <1>1, <2>1, <3>2, OthersUntouched, UntouchedKept, SessionKept
    <3> QED
      BY <1>3, <3>1, <3>2 DEF Next
  <2> QED
    BY <1>1, <2>2 DEF SessionInv
<1> QED
  BY <1>2, <1>3

\* A session runs its commands for the user whose name and password its client
\* gave last, whatever the other clients and servers do between the reading of
\* the row and the password, until the tables are dropped.
THEOREM SessionsAreTheirUsers == Spec => []OwnIdentity
<1>1. Init => SessionInv
  BY InitTypes DEF Init, SessionInv, Session, InCommands, At
<1>2. SessionInv => OwnIdentity
  BY DEF SessionInv, Session, OwnIdentity
<1> QED
  BY <1>1, <1>2, SessionInvKept, PTL DEF Spec
=============================================================================
