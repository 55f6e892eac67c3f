---------------------------- MODULE MCOnboarding ----------------------------
(* Instances of Onboarding for TLC.  *)
EXTENDS Onboarding, TLC

Symmetry == Permutations(Request) \cup Permutations(Admin)
=============================================================================
