------------------------------- MODULE MCMaker -------------------------------
(* The maker against any taker, for TLC. *)
EXTENDS Maker
=============================================================================
