---------------------------- MODULE MCModeration ----------------------------
(* Instances of Moderation for TLC.  *)
EXTENDS Moderation, TLC

Symmetry == Permutations(Request) \cup Permutations(Admin)
                \cup Permutations(Value) \cup Permutations(Reason)
=============================================================================
