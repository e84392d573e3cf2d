----------------------------- MODULE MCWebAdmin -----------------------------
(* TLC instance of WebAdmin. *)
EXTENDS WebAdmin

CONSTANTS s1, a

MCFirst == [site |-> s1, pass |-> a]
=============================================================================
