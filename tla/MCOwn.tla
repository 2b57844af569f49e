-------------------------------- MODULE MCOwn ---------------------------------
(* One own order and two swaps of peers, for TLC.   *)
EXTENDS OwnOrders, TLC

HashSymmetry == Permutations(Hashes)
=============================================================================
