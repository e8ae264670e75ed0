-------------------------- MODULE MCWebConnections --------------------------
(* TLC instance of WebConnections. *)
EXTENDS WebConnections, TLC
=============================================================================
