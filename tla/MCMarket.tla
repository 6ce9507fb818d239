------------------------------ MODULE MCMarket ------------------------------
(* TLC instances of the order book. *)
EXTENDS Claims, TLC

\* Sessions differ in nothing but their user, and Init leaves that open.
SessionSymmetry == Permutations(Sessions)

\* In serial, doubles are 1/8 apart from 8192 coins on, 1/16 from 4096 on and 1/32
\* below.  33 coins at 9697/32 cost 10000 and 1/32, rounded to what a new user has,
\* and what 3 of them and the other 30 cost does not add up to it; at 31/32 a cost
\* is not whole.
MixedQuantities == {-2, 3, 33}
MixedPrices == {-31, 31, 9697}

\* In market_faults all costs are whole; 40 against -5 leave 45, which 40 fill in part.
SignedQuantities == {-5, 40}
=============================================================================
