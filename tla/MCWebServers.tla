---------------------------- MODULE MCWebServers ----------------------------
(* TLC instance of WebServers. *)
EXTENDS WebServers, TLC
=============================================================================
