------------------------------ MODULE MCServer ------------------------------
(* TLC instances of the connection server. *)
EXTENDS Server, TLC

\* Clients differ in nothing, nor do names, nor passwords.
ClientSymmetry == Permutations(Clients) \cup Permutations(Names) \cup Permutations(Passwords)
=============================================================================
