---------------------------- MODULE MCWebSession ----------------------------
(* TLC instance of WebSession. *)
EXTENDS WebSession, TLC
=============================================================================
