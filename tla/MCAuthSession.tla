--------------------------- MODULE MCAuthSession ---------------------------
(* Instances of AuthSession for TLC.  *)
EXTENDS AuthSession, TLC

Symmetry == Permutations(User) \cup Permutations(Jti) \cup Permutations(Request)
=============================================================================
