------------------------------- MODULE Claims -------------------------------
(***************************************************************************)
(* What the headers and the README of the repository say and the code does *)
(* not do.  Each property is checked by a run that finds it violated; the  *)
(* quoted lines are those of the repository.                               *)
(***************************************************************************)
EXTENDS Accounts

\* A column of users is the "Amount of OMG coins owned by the user" (db.h:50),
\* or of another coin: it is never a debt.  buy and sell take the coins of a
\* resting order from its owner a second time when it is filled, after
\* insert_order took them when it was posted.
NoDebt == Quiet => \A u \in Users, c \in Coins : users[u][c] >= 0

\* "@return 0 on success, -1 on failure" (command.h:127 and 136): buy and sell
\* return nothing else.  handle_sell tests for -1 only.
ZeroOrMinusOne == \A s \in Sessions : ret[s] \in {OK, Failure}

\* cancel_order works by "refunding the appropriate amount or returning the
\* quantity of the item" (command.h:246), and "the order is deleted": coins are
\* given back for an order that rests, so once for an order.
RefundStep ==
  \A s \in Sessions :
    At(s, "cancel_update_user") /\ At(s, "cancel_delete")'
      => found[s] \in DOMAIN orders
RefundsResting == [][RefundStep]_vars
=============================================================================
