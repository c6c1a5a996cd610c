---------------------------- MODULE MCLoginHandler ----------------------------
(***************************************************************************)
(* LoginHandler for TLC: two rows can have one name, and a change can fall *)
(* before, during and after a run of the process.                          *)
(***************************************************************************)
EXTENDS LoginHandler
===============================================================================
