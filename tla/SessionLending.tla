---------------------------- MODULE SessionLending ----------------------------
(***************************************************************************)
(* What a pool of database sessions promises to the threads that use it,   *)
(* with no queue, no mutex and no order: a session is with at most one     *)
(* borrower, a returned session may be lent again or closed, and the       *)
(* number of sessions open at one time never passes Limit.                 *)
(*                                                                         *)
(* DBConnectionPool implements this specification; the refinement is       *)
(* stated there (Lending) and proved in DBConnectionPoolProofs.            *)
(***************************************************************************)
EXTENDS Naturals, FiniteSets

CONSTANTS
  Threads,    (* the borrowers                                    *)
  Sessions,   (* every session that may ever be opened            *)
  NoSession,  (* what a thread that borrows nothing holds         *)
  Limit       (* the number of sessions that may be open at once  *)

VARIABLES
  idle,  (* the open sessions nobody holds                    *)
  lent   (* lent[t]: the session thread t holds, or NoSession *)

vars == <<idle, lent>>

(* The sessions out on loan. *)
Lent == {lent[t] : t \in Threads} \ {NoSession}

Borrowers == {t \in Threads : lent[t] # NoSession}

Init ==
  /\ idle = {}
  /\ lent = [t \in Threads |-> NoSession]

(* The pool opens a session ahead of demand. *)
Open(s) ==
  /\ s \notin idle \cup Lent
  /\ idle' = idle \cup {s}
  /\ UNCHANGED lent

(* Thread t borrows s: an idle session, or one opened for it.  Never one   *)
(* that another thread holds.                                              *)
Borrow(t, s) ==
  /\ lent[t] = NoSession
  /\ s \notin Lent
  /\ idle' = idle \ {s}
  /\ lent' = [lent EXCEPT ![t] = s]

(* Thread t returns its session; the pool may close idle sessions.         *)
GiveBack(t, closed) ==
  /\ lent[t] # NoSession
  /\ idle' = (idle \cup {lent[t]}) \ closed
  /\ lent' = [lent EXCEPT ![t] = NoSession]

(* No step opens more sessions than Limit: the idle ones plus the loans.   *)
WithinLimit == Cardinality(idle) + Cardinality(Borrowers) <= Limit

Next ==
  /\ \/ \E s \in Sessions : Open(s)
     \/ \E t \in Threads, s \in Sessions : Borrow(t, s)
     \/ \E t \in Threads, closed \in SUBSET Sessions : GiveBack(t, closed)
  /\ WithinLimit'

Spec == Init /\ [][Next]_vars
===============================================================================
