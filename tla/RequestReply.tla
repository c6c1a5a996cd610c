----------------------------- MODULE RequestReply -----------------------------
(***************************************************************************)
(* What a client of one HTTP connection counts on: it asks, and each       *)
(* question gets one answer, in the order asked, until an answer closes    *)
(* the connection.  HTTPConnection implements this when requests reach     *)
(* the server whole (AnswersEachOnce there).                               *)
(***************************************************************************)
EXTENDS Naturals, Sequences

VARIABLES
  asked,     (* how many requests the client has sent          *)
  answered,  (* the requests the client has answers to, so far *)
  closed     (* the server has ended the connection            *)

vars == <<asked, answered, closed>>

Init == asked = 0 /\ answered = <<>> /\ closed = FALSE

Ask ==
  /\ ~closed
  /\ asked' = asked + 1
  /\ UNCHANGED <<answered, closed>>

(* The next answer is to the oldest question still open.                   *)
Answer ==
  /\ ~closed /\ Len(answered) < asked
  /\ answered' = Append(answered, Len(answered) + 1)
  /\ closed' \in BOOLEAN
  /\ UNCHANGED asked

Next == Ask \/ Answer

Spec == Init /\ [][Next]_vars
===============================================================================
