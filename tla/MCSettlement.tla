---------------------------- MODULE MCSettlement ----------------------------
(* TLC instance of the marketplace with one command at a time; the numbers  *)
(* are those of MCMarket.                                                   *)
EXTENDS Settlement, TLC

SessionSymmetry == Permutations(Sessions)
=============================================================================
