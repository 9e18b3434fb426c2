--------------------------- MODULE MCConnections ---------------------------
(* Connections for TLC: two clients of one address, one after the other. *)
EXTENDS Connections
=============================================================================
