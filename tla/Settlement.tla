----------------------------- MODULE Settlement -----------------------------
(***************************************************************************)
(* The tables as they were when no command was running, one command at a   *)
(* time: each command, of up to a dozen statements, is one step of         *)
(* Exchange, or none.                                                      *)
(***************************************************************************)
EXTENDS Accounts

VARIABLE settled  \* history: the tables when the last command returned, until
                  \* a statement has failed

Order1(o) == [item |-> o.item, side |-> o.side, quantity |-> o.quantity,
              unitPrice |-> o.unitPrice, userID |-> o.userID]
Snapshot ==
  [users |-> users, lastID |-> orderSeq,
   book |-> [i \in DOMAIN orders |-> Order1(orders[i])],
   archives |-> [k \in DOMAIN archives |-> Order1(archives[k])]]

SettledInit == Init /\ settled = Snapshot
SettledNext ==
  /\ Next /\ OneAtATime'
  /\ settled' = IF Quiet' /\ faults' = 0 THEN Snapshot' ELSE settled
SettledSpec == SettledInit /\ [][SettledNext]_<<vars, settled>>

\* Between commands the tables change as Exchange does: a command trades once,
\* with both archive rows, both balances, the matched order and the rest of its
\* own, or posts, or withdraws, or leaves the tables alone.  That is as long as
\* no statement has failed.
AbstractExchange == INSTANCE Exchange WITH
  accounts <- settled.users, book <- settled.book, lastID <- settled.lastID,
  history <- settled.archives, Endowment <- DefaultWallet
ExchangeSpec == AbstractExchange!Spec
=============================================================================
