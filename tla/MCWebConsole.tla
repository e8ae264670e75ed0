---------------------------- MODULE MCWebConsole ----------------------------
(* TLC instance of WebConsole. *)
EXTENDS WebConsole, TLC
=============================================================================
