----------------------------- MODULE MCConsole -----------------------------
(* TLC instances of the command loop. *)
EXTENDS Console, TLC

SessionSymmetry == Permutations(Sessions)

Whole(n) == Number(n * Scale)
Order4(w, c, p, q) == <<Word(w), Word(c), p, q>>

\* Orders that trade with each other in part, one for a negative quantity, two prices
\* for view, a coin that is not traded, ids with and without a rest, and every query.
MixedLines ==
  { << >>, <<Word("help")>>, <<Word("buy"), Word("doge")>>,
    Order4("buy", "doge", Whole(50), Whole(60)),
    Order4("buy", "doge", Whole(30), Whole(-5)),
    Order4("sell", "doge", Whole(50), Whole(40)),
    Order4("buy", "xmr", Whole(50), Whole(60)),
    <<Word("cancelorder"), Whole(1)>>, <<Word("cancelorder"), NumberAndMore(Scale)>>,
    <<Word("myorders")>>, <<Word("view"), Word("doge")>>, <<Word("myinventory")>> }
MixedQuantities == {-5, 40, 60}
=============================================================================
