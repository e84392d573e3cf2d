------------------------------- MODULE MCPump -------------------------------
(* TLC instance of Pump. *)
EXTENDS Pump
=============================================================================
