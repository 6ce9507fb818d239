-------------------------------- MODULE Book --------------------------------
(***************************************************************************)
(* What table orders promises to every session: orders appear under an id  *)
(* no order ever had, later ids carry later timestamps, the terms of an    *)
(* order never change while it rests, and orders leave one at a time.      *)
(***************************************************************************)
EXTENDS Integers

VARIABLES
  book,    \* book[id] = the terms of the resting order id
  lastID   \* the largest id ever given

Init == DOMAIN book = {} /\ lastID = 0

Kept(ids) == \A id \in ids : book'[id] = book[id]

Post ==
  /\ lastID' = lastID + 1
  /\ DOMAIN book' = DOMAIN book \cup {lastID'}
  /\ Kept(DOMAIN book)
  /\ \A id \in DOMAIN book : book[id].created_at <= book'[lastID'].created_at

Remove ==
  /\ \E id \in DOMAIN book : DOMAIN book' = DOMAIN book \ {id}
  /\ Kept(DOMAIN book')
  /\ UNCHANGED lastID

Next == Post \/ Remove
Spec == Init /\ [][Next]_<<book, lastID>>
=============================================================================
