-------------------------- MODULE MCDBConnectionPool --------------------------
(***************************************************************************)
(* DBConnectionPool for TLC.  The configurations differ in how many        *)
(* threads there are for each session the pool starts with.                *)
(***************************************************************************)
EXTENDS DBConnectionPool, TLC

(* Threads and sessions are interchangeable in the safety runs.            *)
Symmetry == Permutations(Threads) \cup Permutations(Sessions)
===============================================================================
