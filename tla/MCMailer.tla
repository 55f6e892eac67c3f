------------------------------ MODULE MCMailer ------------------------------
(* Instances of Mailer for TLC.  *)
EXTENDS Mailer, TLC
=============================================================================
