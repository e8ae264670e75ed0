---------------------------- MODULE MCWebBackups ----------------------------
(* TLC instance of WebBackups. *)
EXTENDS WebBackups, TLC
=============================================================================
