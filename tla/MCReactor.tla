----------------------------- MODULE MCReactor -----------------------------
(* TLC instance of Reactor. *)
EXTENDS Reactor
=============================================================================
