---------------------------- MODULE MCDirectory ----------------------------
(* Instances of Directory for TLC.  *)
EXTENDS Directory, TLC

(* "Ann" and "ann" are one address.  *)
MCAddress == {"Ann", "ann", "bob", "cyd"}
MCLower == [address \in MCAddress |-> IF address = "Ann" THEN "ann" ELSE address]

Symmetry == Permutations(Account) \cup Permutations(Brn)
=============================================================================
