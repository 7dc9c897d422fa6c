------------------------------- MODULE MCRelay -------------------------------
(* Instance of Relay for TLC: the configurations set the bounds. *)
EXTENDS Relay
=============================================================================
