-------------------------------- MODULE MCPool --------------------------------
(* Two nodes and the sockets between them, for TLC. *)
EXTENDS Pool

=============================================================================
