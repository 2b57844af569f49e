------------------------------- MODULE MCTaker -------------------------------
(* The taker against any maker, for TLC. *)
EXTENDS Taker
=============================================================================
