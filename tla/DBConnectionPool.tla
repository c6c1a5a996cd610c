--------------------------- MODULE DBConnectionPool ---------------------------
(***************************************************************************)
(* db::DBConnectionPool and db::DBSession (src/db/db_connection_pool.cpp,  *)
(* src/db/db.cpp): a singleton queue of MySQL sessions, guarded by one     *)
(* mutex, from which a thread takes a session for the length of one full   *)
(* expression                                                              *)
(*                                                                         *)
(*     DBConnectionPool::instance().getConnection()->executeQuery(q)       *)
(*     DBConnectionPool::instance().getConnection()->insert(dd)            *)
(*                                                                         *)
(* The temporary shared_ptr dies at the end of that expression and its     *)
(* deleter puts the session back.  selectAll reads its result set within   *)
(* the expression; queryDuration goes on reading afterwards, when the      *)
(* session is in the queue again.                                          *)
(*                                                                         *)
(* In the program the threads are the event-loop thread (HTTP handlers)    *)
(* and the MQTT client's callback thread; here Threads is any finite set.  *)
(* What MySQL answers is abstracted to "a result set" or "an exception".   *)
(***************************************************************************)
EXTENDS Integers, Sequences, FiniteSets

CONSTANTS
  Threads,    (* threads that call into the pool                        *)
  Sessions,   (* DBSession objects (addresses) the allocator may return *)
  PoolSize,   (* poolSize, MySQL_CONNPOOL_SIZE in the program           *)
  NoSession,  (* a thread that holds no session                         *)
  NoThread    (* a free mutex                                           *)

ASSUME PoolAssumption ==
  /\ PoolSize \in Nat \ {0}
  /\ IsFiniteSet(Threads)
  /\ NoSession \notin Sessions
  /\ NoThread \notin Threads

VARIABLES
  connections,  (* _connections, the queue of idle sessions; front first    *)
  built,        (* loop counter i of the pool's constructor                 *)
  mutex,        (* the thread that holds _mutex across a connect, or none   *)
  pc,           (* where each thread is in its use of the pool              *)
  held,         (* the session behind each thread's temporary shared_ptr    *)
  rows,         (* the session each thread's open result set came from      *)
  crashed       (* the process is gone: uncaught exception or null pointer  *)

vars == <<connections, built, mutex, pc, held, rows, crashed>>

-------------------------------------------------------------------------------
(* Sessions and who has them.                                              *)

Idle == {connections[i] : i \in DOMAIN connections}

Held == {held[t] : t \in Threads} \ {NoSession}

(* The sessions that exist as objects: not yet deleted.                    *)
Live == Idle \cup Held

(* Addresses at which a new DBSession can be allocated.                    *)
Unused == Sessions \ Live

Borrowers == {t \in Threads : held[t] # NoSession}

Limit == IF PoolSize > Cardinality(Threads) THEN PoolSize
                                            ELSE Cardinality(Threads)

-------------------------------------------------------------------------------
(* The queue operations.                                                   *)

(* _connections.pop()                                                      *)
Popped_Forgotten(q) == q
Popped(q) == Tail(q)

(* The deleter: push the session, and when more than twice the pool size   *)
(* is idle, delete from the front down to the pool size.                   *)
Pushed_TrimEagerly(q, s) ==
  LET p == Append(q, s)
  IN IF Len(p) > PoolSize THEN SubSeq(p, Len(p) - PoolSize + 1, Len(p)) ELSE p
Pushed_TrimOneMore(q, s) ==
  LET p == Append(q, s)
  IN IF Len(p) > 2 * PoolSize THEN SubSeq(p, Len(p) - PoolSize + 2, Len(p)) ELSE p
Pushed_Dropped(q, s) == q
Pushed(q, s) ==
  LET p == Append(q, s)
  IN IF Len(p) > 2 * PoolSize THEN SubSeq(p, Len(p) - PoolSize + 1, Len(p)) ELSE p

-------------------------------------------------------------------------------
Init ==
  /\ connections = <<>>
  /\ built = 0
  /\ mutex = NoThread
  /\ pc = [t \in Threads |-> "outside"]
  /\ held = [t \in Threads |-> NoSession]
  /\ rows = [t \in Threads |-> NoSession]
  /\ crashed = FALSE

(* The loop condition of the constructor.                                  *)
MoreToBuild_OffByOne == built <= PoolSize
MoreToBuild == built < PoolSize

Ready == ~crashed /\ ~MoreToBuild

(* One round of the constructor's loop.                                    *)
Construct ==
  /\ ~crashed /\ MoreToBuild
  /\ \E s \in Unused : connections' = Append(connections, s)
  /\ built' = built + 1
  /\ UNCHANGED <<mutex, pc, held, rows, crashed>>

(* new DBSession throws: the exception leaves the constructor,             *)
(* LoginHandler's constructor and main, and the program ends.              *)
ConstructFails ==
  /\ ~crashed /\ MoreToBuild
  /\ crashed' = TRUE
  /\ UNCHANGED <<connections, built, mutex, pc, held, rows>>

Build == Construct \/ ConstructFails

(* getConnection() when a session is idle: one critical section.           *)
TakeIdle(t) ==
  /\ Ready /\ mutex = NoThread
  /\ pc[t] = "outside" /\ connections # <<>>
  /\ held' = [held EXCEPT ![t] = Head(connections)]
  /\ connections' = Popped(connections)
  /\ pc' = [pc EXCEPT ![t] = "holding"]
  /\ UNCHANGED <<built, mutex, rows, crashed>>

(* getConnection() when the queue is empty: the thread connects a new      *)
(* session and holds _mutex for the whole of it.                           *)
BeginGrow(t) ==
  /\ Ready /\ mutex = NoThread
  /\ pc[t] = "outside" /\ connections = <<>>
  /\ mutex' = t
  /\ pc' = [pc EXCEPT ![t] = "connecting"]
  /\ UNCHANGED <<connections, built, held, rows, crashed>>

Enter(t) == TakeIdle(t) \/ BeginGrow(t)

(* The new session is pushed, and front() and pop() take it straight out.  *)
GrowOk(t) ==
  /\ Ready /\ pc[t] = "connecting"
  /\ \E s \in Unused :
       LET q == Append(connections, s)
       IN /\ held' = [held EXCEPT ![t] = Head(q)]
          /\ connections' = Popped(q)
  /\ mutex' = NoThread
  /\ pc' = [pc EXCEPT ![t] = "holding"]
  /\ UNCHANGED <<built, rows, crashed>>

(* getConnection() returns nullptr, and every caller applies -> to it.     *)
GrowFails(t) ==
  /\ Ready /\ pc[t] = "connecting"
  /\ mutex' = NoThread
  /\ crashed' = TRUE
  /\ UNCHANGED <<connections, built, pc, held, rows>>

(* executeQuery(): a result set, or an SQLException turned into nullopt;   *)
(* executeUpdate(): a count, or an SQLException on its way to the caller.  *)
(* Only the first leaves a result set open.                                *)
Execute(t) ==
  /\ Ready /\ pc[t] = "holding"
  /\ \/ rows' = [rows EXCEPT ![t] = held[t]]
     \/ UNCHANGED rows
  /\ pc' = [pc EXCEPT ![t] = "executed"]
  /\ UNCHANGED <<connections, built, mutex, held, crashed>>

(* selectAll(): the rows are read, and the result set dies, while the      *)
(* session is still held.                                                  *)
ReadAll(t) ==
  /\ Ready /\ pc[t] = "executed" /\ rows[t] # NoSession
  /\ rows' = [rows EXCEPT ![t] = NoSession]
  /\ UNCHANGED <<connections, built, mutex, pc, held, crashed>>

(* End of the full expression (or unwinding through it): the deleter.      *)
GiveBack(t) ==
  /\ Ready /\ mutex = NoThread
  /\ pc[t] = "executed"
  /\ connections' = Pushed(connections, held[t])
  /\ held' = [held EXCEPT ![t] = NoSession]
  /\ pc' = [pc EXCEPT ![t] = IF rows[t] = NoSession THEN "outside" ELSE "reading"]
  /\ UNCHANGED <<built, mutex, rows, crashed>>

(* The last qr->next(); ret goes out of scope and the result set with it.  *)
FinishRows(t) ==
  /\ Ready /\ pc[t] = "reading"
  /\ rows' = [rows EXCEPT ![t] = NoSession]
  /\ pc' = [pc EXCEPT ![t] = "outside"]
  /\ UNCHANGED <<connections, built, mutex, held, crashed>>

(* A dead process does nothing more.                                       *)
Terminated == crashed /\ UNCHANGED vars

(* What a thread does on its own once it has entered getConnection().      *)
Proceed(t) ==
  \/ GrowOk(t) \/ GrowFails(t)
  \/ Execute(t) \/ ReadAll(t) \/ GiveBack(t) \/ FinishRows(t)

Next ==
  \/ Build
  \/ \E t \in Threads : Enter(t) \/ Proceed(t)
  \/ Terminated

(* A thread inside a statement keeps running: the scheduler runs it, and a *)
(* connect attempt ends, one way or the other.  Nothing forces a thread to *)
(* start a statement.                                                      *)
Fairness == \A t \in Threads : WF_vars(Proceed(t))

Spec == Init /\ [][Next]_vars
FairSpec == Spec /\ Fairness

-------------------------------------------------------------------------------
States == {"outside", "connecting", "holding", "executed", "reading"}

(* The type of every variable.                                             *)
TypeOK ==
  /\ connections \in Seq(Sessions)
  /\ built \in 0..PoolSize
  /\ mutex \in Threads \cup {NoThread}
  /\ pc \in [Threads -> States]
  /\ held \in [Threads -> Sessions \cup {NoSession}]
  /\ rows \in [Threads -> Sessions \cup {NoSession}]
  /\ crashed \in BOOLEAN

(* getConnection never hands one MySQL connection to two threads: the      *)
(* queue has no duplicate, a lent session is not in it, and no two threads *)
(* hold the same one.  (A MySQL connection is not safe to share.)          *)
Exclusive ==
  /\ \A i, j \in DOMAIN connections : connections[i] = connections[j] => i = j
  /\ \A t \in Threads : held[t] \notin Idle
  /\ \A t, u \in Threads : held[t] = held[u] /\ held[t] # NoSession => t = u

(* The elastic pool has a floor and a ceiling: trimming never takes it     *)
(* below PoolSize, and growth never past the larger of PoolSize and the    *)
(* number of threads.                                                      *)
SessionBounds ==
  LET total == Len(connections) + Cardinality(Borrowers)
  IN /\ total <= Limit
     /\ ~MoreToBuild => total >= PoolSize

(* With no more threads than PoolSize (the program has two threads and ten *)
(* sessions) getConnection never has to connect, so it never returns the   *)
(* nullptr its callers do not test for, whatever MySQL does after startup. *)
NeverNull ==
  Cardinality(Threads) <= PoolSize =>
    /\ mutex = NoThread
    /\ crashed => built < PoolSize

(* queryDuration reads its rows after giving the session back.  With no    *)
(* more than 2 * PoolSize threads the trimming loop never deletes the      *)
(* session under an open result set.                                       *)
RowsHaveSession ==
  Cardinality(Threads) <= 2 * PoolSize =>
    \A t \in Threads : rows[t] # NoSession => rows[t] \in Live

(* A thread inside a statement gets out of it, although its return takes   *)
(* the mutex that others may hold across a connect, again and again.  The  *)
(* mutex is not fair; what ends the wait is that up to 2 * PoolSize other  *)
(* threads never have a session trimmed, so that they soon stop growing.   *)
StatementsEnd ==
  Cardinality(Threads) <= 2 * PoolSize + 1 =>
    \A t \in Threads : pc[t] # "outside" ~> (pc[t] = "outside" \/ crashed)

(* The abstract specification, with the queue seen as a set.               *)
Lending == INSTANCE SessionLending WITH idle <- Idle, lent <- held

(* The pool implements exclusive lending within Limit.                     *)
LendsExclusively == Lending!Spec
===============================================================================
