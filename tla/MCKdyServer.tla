----------------------------- MODULE MCKdyServer -----------------------------
(***************************************************************************)
(* KdyServer for TLC: as many sessions as threads, so that one session     *)
(* lost or given back late would make a thread connect.                    *)
(***************************************************************************)
EXTENDS KdyServer
===============================================================================
