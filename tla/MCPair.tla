-------------------------------- MODULE MCPair --------------------------------
(* A trading pair with few orders, for TLC. *)
EXTENDS TradingPair, TLC

\* Nothing in the module tells two own orders, or two of peers, apart.
OwnSymmetry == Permutations(OwnIds)
PeerSymmetry == Permutations(PeerIds)
=============================================================================
