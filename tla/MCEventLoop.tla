----------------------------- MODULE MCEventLoop -----------------------------
(***************************************************************************)
(* EventLoop for TLC: two rows can have one name, a change of users can    *)
(* fall before, during and after a run of the process, and the clock runs  *)
(* past the timeout.                                                       *)
(***************************************************************************)
EXTENDS EventLoop
===============================================================================
