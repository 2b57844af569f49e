-------------------------------- MODULE MCLnd --------------------------------
(* A client of one lnd, for TLC. *)
EXTENDS LndClient

=============================================================================
