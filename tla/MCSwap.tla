-------------------------------- MODULE MCSwap --------------------------------
(* A swap between two xud processes, for TLC. *)
EXTENDS Swap
=============================================================================
