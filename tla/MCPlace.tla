------------------------------- MODULE MCPlace --------------------------------
(* One order placed against two peers and an own order, for TLC. *)
EXTENDS PlaceOrder, TLC

PeerSymmetry == Permutations(PeerIds)
=============================================================================
