------------------------------ MODULE MCMailer ------------------------------
(* Instances of Mailer for TLC. *)
EXTENDS Mailer, TLC

CONSTANTS c1, c2

Symmetry == Permutations({c1, c2})
=============================================================================
