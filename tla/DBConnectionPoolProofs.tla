------------------------ MODULE DBConnectionPoolProofs ------------------------
(***************************************************************************)
(* What holds of DBConnectionPool for every number of threads and every    *)
(* pool size.                                                              *)
(*                                                                         *)
(* Exclusive and SessionBounds are not inductive: that the session of      *)
(* GrowOk comes back out of the queue at once needs an empty queue, and    *)
(* that it can raise the total by one needs a thread that holds nothing.   *)
(* IInv adds who owns the mutex, who holds a session, and what the         *)
(* constructor has built so far.                                           *)
(***************************************************************************)
EXTENDS DBConnectionPool, TLAPS, FiniteSetTheorems, SequenceTheorems

Elems(q) == {q[i] : i \in DOMAIN q}

Distinct(q) == \A i, j \in DOMAIN q : q[i] = q[j] => i = j

(* The mutex is held exactly by the thread that connects, and only while   *)
(* the queue is empty and complete.                                        *)
MutexInv ==
  /\ mutex # NoThread => pc[mutex] = "connecting" /\ connections = <<>> /\ ~MoreToBuild
  /\ ~crashed => \A t \in Threads : pc[t] = "connecting" => mutex = t

(* A thread holds a session exactly while it is inside a statement.        *)
HoldInv == \A t \in Threads : held[t] # NoSession <=> pc[t] \in {"holding", "executed"}

(* Nobody borrows before the constructor is done.                          *)
BuildInv == MoreToBuild => Len(connections) = built /\ Borrowers = {}

IInv == TypeOK /\ Exclusive /\ MutexInv /\ HoldInv /\ BuildInv /\ SessionBounds

-------------------------------------------------------------------------------
(* Lemmas about the queue operations.                                      *)

(* Appending a new element: one longer, still without duplicates.          *)
LEMMA AppendFacts ==
  ASSUME NEW S, NEW q \in Seq(S), NEW s \in S
  PROVE  /\ Append(q, s) \in Seq(S)
         /\ Len(Append(q, s)) = Len(q) + 1
         /\ Elems(Append(q, s)) = Elems(q) \cup {s}
         /\ Distinct(q) /\ s \notin Elems(q) => Distinct(Append(q, s))
<1> DEFINE p == Append(q, s)
<1>1. /\ p \in Seq(S)
      /\ Len(p) = Len(q) + 1
      /\ \A i \in 1..Len(q) : p[i] = q[i]
      /\ p[Len(q) + 1] = s
  BY AppendProperties
<1>2. DOMAIN p = 1..(Len(q) + 1) /\ DOMAIN q = 1..Len(q) /\ Len(q) \in Nat
  BY <1>1, LenProperties
<1>3. Elems(p) = Elems(q) \cup {s}
  BY <1>1, <1>2 DEF Elems
<1>4. Distinct(q) /\ s \notin Elems(q) => Distinct(p)
  BY <1>1, <1>2 DEF Distinct, Elems
<1> QED
  BY <1>1, <1>3, <1>4

(* pop(): one shorter, without the element that was in front.              *)
LEMMA PoppedFacts ==
  ASSUME NEW S, NEW q \in Seq(S), q # <<>>, Distinct(q)
  PROVE  /\ Head(q) \in S
         /\ Popped(q) \in Seq(S)
         /\ Len(Popped(q)) = Len(q) - 1
         /\ Head(q) \in Elems(q)
         /\ Elems(Popped(q)) = Elems(q) \ {Head(q)}
         /\ Distinct(Popped(q))
<1> DEFINE p == Tail(q)
<1>1. /\ Head(q) \in S
      /\ p \in Seq(S)
      /\ Len(p) = Len(q) - 1
      /\ \A i \in 1..Len(p) : p[i] = q[i + 1]
  BY HeadTailProperties
<1>2. Len(q) \in Nat \ {0} /\ Head(q) = q[1]
  BY EmptySeq
<1>3. DOMAIN q = 1..Len(q) /\ DOMAIN p = 1..(Len(q) - 1)
  BY <1>1, LenProperties
<1>4. Distinct(p)
  BY <1>1, <1>2, <1>3 DEF Distinct
<1>5. \A i \in DOMAIN q : q[i] # Head(q) => i - 1 \in DOMAIN p /\ q[i] = p[i - 1]
  BY <1>1, <1>2, <1>3
<1>6. \A i \in DOMAIN p : p[i] \in Elems(q) /\ p[i] # Head(q)
  BY <1>1, <1>2, <1>3 DEF Elems, Distinct
<1>7. Elems(p) = Elems(q) \ {Head(q)}
  BY <1>5, <1>6 DEF Elems
<1>8. Head(q) \in Elems(q)
  BY <1>2, <1>3 DEF Elems
<1>9. Popped(q) = p
  BY DEF Popped
<1> HIDE DEF p
<1> QED
  BY <1>1, <1>4, <1>7, <1>8, <1>9

(* The deleter: one longer, or trimmed to PoolSize of the newest.          *)
LEMMA PushedFacts ==
  ASSUME NEW S, NEW q \in Seq(S), NEW s \in S, Distinct(q), s \notin Elems(q)
  PROVE  /\ Pushed(q, s) \in Seq(S)
         /\ Len(Pushed(q, s)) = IF Len(q) + 1 > 2 * PoolSize THEN PoolSize ELSE Len(q) + 1
         /\ Elems(Pushed(q, s)) \subseteq Elems(q) \cup {s}
         /\ Len(q) + 1 <= 2 * PoolSize => Elems(Pushed(q, s)) = Elems(q) \cup {s}
         /\ Distinct(Pushed(q, s))
<1> DEFINE p == Append(q, s)
           m == Len(p) - PoolSize + 1
           r == SubSeq(p, m, Len(p))
<1>1. /\ p \in Seq(S) /\ Len(p) = Len(q) + 1
      /\ Elems(p) = Elems(q) \cup {s} /\ Distinct(p)
  BY AppendFacts
<1>2. PoolSize \in Nat \ {0} /\ Len(q) \in Nat
  BY PoolAssumption, LenProperties
<1>3. CASE ~(Len(p) > 2 * PoolSize)
  <2>1. Pushed(q, s) = p
    BY <1>3 DEF Pushed
  <2> QED
    BY <2>1, <1>1, <1>3
<1>4. CASE Len(p) > 2 * PoolSize
  <2>1. Pushed(q, s) = r
    BY <1>4 DEF Pushed
  <2>2. DOMAIN p = 1..Len(p) /\ Len(p) \in Nat /\ m \in Nat \ {0} /\ m <= Len(p)
    BY <1>1, <1>2, <1>4, LenProperties
  <2>3. \A i \in m..Len(p) : p[i] \in S
    BY <2>2, <1>1, ElementOfSeq
  <2>4. /\ r \in Seq(S)
        /\ Len(r) = IF m <= Len(p) THEN Len(p) - m + 1 ELSE 0
        /\ \A i \in 1..(Len(p) - m + 1) : r[i] = p[m + i - 1]
    BY SMTT(60), <2>2, <2>3, SubSeqProperties
  <2>5. Len(r) = PoolSize /\ DOMAIN r = 1..PoolSize
    BY <2>2, <2>4, <1>2, LenProperties
  <2>6. \A i \in DOMAIN r : m + i - 1 \in DOMAIN p /\ r[i] = p[m + i - 1]
    BY <2>2, <2>4, <2>5, <1>2
  <2>7. Elems(r) \subseteq Elems(p)
    BY <2>6 DEF Elems
  <2>8. Distinct(r)
    <3> SUFFICES ASSUME NEW i \in DOMAIN r, NEW j \in DOMAIN r, r[i] = r[j]
                 PROVE  i = j
      BY DEF Distinct
    <3>1. m + i - 1 = m + j - 1
      BY ZenonT(60), <2>6, <1>1 DEF Distinct
    <3> QED
      BY <3>1, <2>2, <2>5, <1>2
  <2>9. Len(q) + 1 > 2 * PoolSize
    BY <1>1, <1>4
  <2> HIDE DEF p, m, r
  <2> QED
    BY <2>1, <2>4, <2>5, <2>7, <2>8, <2>9, <1>1, <1>2
<1> QED
  BY <1>3, <1>4

(* A queue without duplicates has no more elements than its length.        *)
LEMMA ElemsCardinality ==
  ASSUME NEW S, NEW q \in Seq(S)
  PROVE  IsFiniteSet(Elems(q)) /\ Cardinality(Elems(q)) <= Len(q)
<1>1. DOMAIN q = 1..Len(q) /\ Len(q) \in Nat
  BY LenProperties
<1>2. IsFiniteSet(1..Len(q)) /\ Cardinality(1..Len(q)) = Len(q)
  BY <1>1, FS_Interval
<1>3. Elems(q) = {q[i] : i \in 1..Len(q)}
  BY <1>1 DEF Elems
<1>4. q \in Surjection(1..Len(q), Elems(q))
  BY <1>1, <1>3 DEF Surjection
<1> QED
  BY <1>2, <1>4, FS_Surjection

(* Borrowers, when one thread's loan changes.                              *)
LEMMA BorrowersFacts ==
  ASSUME TypeOK, NEW t \in Threads, NEW v,
         held' = [held EXCEPT ![t] = v]
  PROVE  /\ IsFiniteSet(Borrowers) /\ Cardinality(Borrowers) \in Nat
         /\ v # NoSession => Borrowers' = Borrowers \cup {t}
         /\ v = NoSession => Borrowers' = Borrowers \ {t}
         /\ Borrowers \subseteq Threads
<1>1. Borrowers \subseteq Threads
  BY DEF Borrowers
<1>2. IsFiniteSet(Borrowers) /\ Cardinality(Borrowers) \in Nat
  BY <1>1, PoolAssumption, FS_Subset, FS_CardinalityType
<1>3. \A u \in Threads : held'[u] = IF u = t THEN v ELSE held[u]
  BY DEF TypeOK
<1> QED
  BY <1>1, <1>2, <1>3 DEF Borrowers

-------------------------------------------------------------------------------
(* The inductive invariant.                                                *)

(* The initial state satisfies it.                                         *)
LEMMA InitInv == Init => IInv
<1> SUFFICES ASSUME Init PROVE IInv
  OBVIOUS
<1> USE PoolAssumption
<1>1. Borrowers = {}
  BY DEF Init, Borrowers
<1>2. Len(connections) = 0 /\ Cardinality(Borrowers) = 0
  BY <1>1, FS_EmptySet DEF Init
<1>3. Cardinality(Threads) \in Nat
  BY FS_CardinalityType
<1>4. Limit \in Nat
  BY <1>3 DEF Limit
<1>5. TypeOK
  <2>1. connections \in Seq(Sessions)
    BY EmptySeq DEF Init
  <2>2. built \in 0..PoolSize
    BY DEF Init
  <2>3. /\ mutex \in Threads \cup {NoThread}
        /\ pc \in [Threads -> States]
        /\ held \in [Threads -> Sessions \cup {NoSession}]
        /\ rows \in [Threads -> Sessions \cup {NoSession}]
        /\ crashed \in BOOLEAN
    BY DEF Init, States
  <2> QED
    BY <2>1, <2>2, <2>3 DEF TypeOK
<1>6. Exclusive
  BY DEF Init, Exclusive, Idle
<1>7. MutexInv /\ HoldInv /\ BuildInv
  BY <1>1, <1>2 DEF Init, MutexInv, HoldInv, BuildInv
<1>8. SessionBounds
  BY <1>2, <1>4 DEF Init, SessionBounds, MoreToBuild
<1> QED
  BY <1>5, <1>6, <1>7, <1>8 DEF IInv

(* Limit bounds both the floor and the number of threads.                  *)
LEMMA LimitFacts ==
  /\ Cardinality(Threads) \in Nat /\ Limit \in Nat
  /\ Limit >= PoolSize /\ Limit >= Cardinality(Threads)
<1>1. Cardinality(Threads) \in Nat
  BY PoolAssumption, FS_CardinalityType
<1> QED
  BY <1>1, PoolAssumption DEF Limit

(* The facts about the present state that every action's proof starts from *)
LEMMA IInvFacts ==
  ASSUME IInv
  PROVE  /\ connections \in Seq(Sessions) /\ Len(connections) \in Nat
         /\ Distinct(connections) /\ Idle = Elems(connections)
         /\ IsFiniteSet(Borrowers) /\ Cardinality(Borrowers) \in Nat
         /\ Borrowers \subseteq Threads
         /\ built \in 0..PoolSize
<1>1. connections \in Seq(Sessions) /\ built \in 0..PoolSize
  BY DEF IInv, TypeOK
<1>2. Borrowers \subseteq Threads
  BY DEF Borrowers
<1> QED
  BY <1>1, <1>2, LenProperties, PoolAssumption, FS_Subset, FS_CardinalityType
  DEF IInv, Exclusive, Distinct, Elems, Idle

(* Every round of the constructor preserves it.                            *)
LEMMA ConstructInv == IInv /\ Construct => IInv'
<1> SUFFICES ASSUME IInv, Construct PROVE IInv'
  OBVIOUS
<1>1. PICK s \in Unused : connections' = Append(connections, s)
  BY DEF Construct
<1>2. s \in Sessions /\ s \notin Idle /\ s \notin Held
  BY <1>1 DEF Unused, Live
<1>3. /\ connections' \in Seq(Sessions)
      /\ Len(connections') = Len(connections) + 1
      /\ Elems(connections)' = Elems(connections) \cup {s}
      /\ Distinct(connections')
  BY <1>1, <1>2, IInvFacts, AppendFacts DEF Elems
<1>4. built < PoolSize /\ built' = built + 1 /\ Len(connections) = built /\ Borrowers = {}
  BY DEF Construct, MoreToBuild, IInv, BuildInv
<1>5. UNCHANGED <<mutex, pc, held, rows, crashed, Borrowers>> /\ ~crashed
  BY DEF Construct, Borrowers
<1>6. PoolSize \in Nat /\ built \in Nat
  BY PoolAssumption, IInvFacts
<1>7. Idle' = Idle \cup {s}
  BY <1>3, IInvFacts DEF Idle, Elems
<1>8. TypeOK'
  BY <1>3, <1>4, <1>5, <1>6 DEF IInv, TypeOK
<1>9. Exclusive'
  <2>1. \A t \in Threads : held[t] # s
    BY <1>2, PoolAssumption DEF Held
  <2> QED
    BY <2>1, <1>3, <1>5, <1>7 DEF IInv, Exclusive, Distinct
<1>10. MutexInv'
  BY <1>4, <1>5 DEF IInv, MutexInv, MoreToBuild
<1>11. HoldInv' /\ BuildInv'
  BY <1>3, <1>4, <1>5 DEF IInv, HoldInv, BuildInv
<1>12. SessionBounds'
  <2>1. Cardinality(Borrowers') = 0
    BY <1>4, <1>5, FS_EmptySet
  <2>2. Len(connections') = built' /\ built' <= PoolSize /\ built' \in Nat
    BY <1>3, <1>4, <1>6
  <2>3. Limit' = Limit /\ Limit \in Nat /\ Limit >= PoolSize
    BY LimitFacts DEF Limit
  <2>4. Len(connections') + Cardinality(Borrowers') = built'
    <3>1. \A n \in Nat : n + 0 = n
      OBVIOUS
    <3> QED
      BY <3>1, <2>1, <2>2
  <2>5. built' <= Limit' /\ (~MoreToBuild' => built' >= PoolSize)
    BY <2>2, <2>3, <1>6 DEF MoreToBuild
  <2> QED
    BY <2>4, <2>5 DEF SessionBounds
<1> QED
  BY <1>8, <1>9, <1>10, <1>11, <1>12 DEF IInv

(* A failing constructor changes nothing else.                             *)
LEMMA ConstructFailsInv == IInv /\ ConstructFails => IInv'
BY DEF ConstructFails, IInv, TypeOK, Exclusive, Idle, MutexInv, HoldInv, BuildInv,
       Borrowers, SessionBounds, Limit, MoreToBuild

(* Taking an idle session moves it from the queue to the thread.           *)
LEMMA TakeIdleInv == ASSUME NEW t \in Threads PROVE IInv /\ TakeIdle(t) => IInv'
<1> SUFFICES ASSUME IInv, TakeIdle(t) PROVE IInv'
  OBVIOUS
<1> DEFINE s == Head(connections)
<1>1. /\ held' = [held EXCEPT ![t] = s]
      /\ connections' = Popped(connections) /\ connections # <<>>
      /\ pc' = [pc EXCEPT ![t] = "holding"] /\ pc[t] = "outside"
      /\ UNCHANGED <<built, mutex, rows, crashed>>
      /\ mutex = NoThread /\ ~crashed /\ ~MoreToBuild
  BY DEF TakeIdle, Ready
<1>2. /\ s \in Sessions /\ s \in Idle /\ s # NoSession
      /\ connections' \in Seq(Sessions)
      /\ Len(connections') = Len(connections) - 1
      /\ Elems(connections') = Elems(connections) \ {s}
      /\ Distinct(connections')
  BY <1>1, IInvFacts, PoppedFacts, PoolAssumption
<1>3. Idle' = Idle \ {s}
  BY <1>2, IInvFacts DEF Idle, Elems
<1>4. held[t] = NoSession /\ held \in [Threads -> Sessions \cup {NoSession}]
      /\ pc \in [Threads -> States]
  BY <1>1 DEF IInv, HoldInv, TypeOK
<1>5. \A u \in Threads : /\ held'[u] = IF u = t THEN s ELSE held[u]
                         /\ pc'[u] = IF u = t THEN "holding" ELSE pc[u]
  BY <1>1, <1>4
<1>6. TypeOK'
  BY <1>1, <1>2, <1>4 DEF IInv, TypeOK, States
<1>7. Exclusive'
  BY <1>2, <1>3, <1>5 DEF IInv, Exclusive, Distinct
<1>8. MutexInv' /\ HoldInv' /\ BuildInv'
  BY <1>1, <1>2, <1>4, <1>5 DEF IInv, MutexInv, HoldInv, BuildInv, MoreToBuild
<1>9. SessionBounds'
  <2> HIDE DEF s
  <2>1. Borrowers' = Borrowers \cup {t} /\ t \notin Borrowers
    BY <1>1, <1>2, <1>4, BorrowersFacts DEF IInv, Borrowers
  <2>2. Cardinality(Borrowers') = Cardinality(Borrowers) + 1
    BY <2>1, IInvFacts, FS_AddElement
  <2> QED
    BY <2>2, <1>1, <1>2, IInvFacts DEF IInv, SessionBounds, Limit, MoreToBuild
<1> QED
  BY <1>6, <1>7, <1>8, <1>9 DEF IInv

(* Finding the queue empty, a thread locks the pool.                       *)
LEMMA BeginGrowInv == ASSUME NEW t \in Threads PROVE IInv /\ BeginGrow(t) => IInv'
<1> SUFFICES ASSUME IInv, BeginGrow(t) PROVE IInv'
  OBVIOUS
<1>1. /\ UNCHANGED <<connections, built, held, rows, crashed, Borrowers, Idle>>
      /\ mutex = NoThread /\ mutex' = t /\ connections = <<>> /\ ~MoreToBuild /\ ~crashed
      /\ pc[t] = "outside" /\ pc' = [pc EXCEPT ![t] = "connecting"]
  BY DEF BeginGrow, Ready, Borrowers, Idle
<1>2. pc \in [Threads -> States]
  BY DEF IInv, TypeOK
<1>3. \A u \in Threads : pc'[u] = IF u = t THEN "connecting" ELSE pc[u]
  BY <1>1, <1>2
<1>4. TypeOK'
  BY <1>1, <1>2 DEF IInv, TypeOK, States
<1>5. MutexInv'
  <2>1. \A u \in Threads : pc[u] # "connecting"
    BY <1>1, PoolAssumption DEF IInv, MutexInv
  <2> QED
    BY <1>1, <1>3, <2>1 DEF MutexInv, MoreToBuild
<1>6. HoldInv' /\ BuildInv'
  BY <1>1, <1>3 DEF IInv, HoldInv, BuildInv, MoreToBuild
<1>7. Exclusive' /\ SessionBounds'
  BY <1>1 DEF IInv, Exclusive, SessionBounds, Limit, MoreToBuild
<1> QED
  BY <1>4, <1>5, <1>6, <1>7 DEF IInv

(* The queue is empty, so the thread gets the session it has just opened,  *)
(* and it held none, so at most every thread holds one.                    *)
LEMMA GrowOkInv == ASSUME NEW t \in Threads PROVE IInv /\ GrowOk(t) => IInv'
<1> SUFFICES ASSUME IInv, GrowOk(t) PROVE IInv'
  OBVIOUS
<1>1. /\ mutex' = NoThread /\ ~crashed /\ ~MoreToBuild
      /\ pc[t] = "connecting" /\ pc' = [pc EXCEPT ![t] = "holding"]
      /\ UNCHANGED <<built, rows, crashed>>
  BY DEF GrowOk, Ready
<1>2. mutex = t /\ connections = <<>>
  BY <1>1, PoolAssumption DEF IInv, MutexInv
<1>3. PICK s \in Unused : /\ held' = [held EXCEPT ![t] = Head(Append(connections, s))]
                          /\ connections' = Popped(Append(connections, s))
  BY DEF GrowOk
<1>4. Append(connections, s) = <<s>>
  BY <1>2
<1>5. held' = [held EXCEPT ![t] = s] /\ connections' = <<>>
  BY <1>3, <1>4 DEF Popped
<1>6. s \in Sessions /\ s \notin Held /\ s # NoSession
  BY PoolAssumption DEF Unused, Live
<1>7. held[t] = NoSession /\ held \in [Threads -> Sessions \cup {NoSession}]
      /\ pc \in [Threads -> States]
  BY <1>1 DEF IInv, HoldInv, TypeOK
<1>8. \A u \in Threads : /\ held'[u] = IF u = t THEN s ELSE held[u]
                         /\ pc'[u] = IF u = t THEN "holding" ELSE pc[u]
  BY <1>1, <1>5, <1>7
<1>9. TypeOK'
  BY <1>1, <1>5, <1>6, <1>7 DEF IInv, TypeOK, States
<1>10. Exclusive'
  <2>1. \A u \in Threads : held[u] # s
    BY <1>6 DEF Held
  <2>2. Idle' = {}
    BY <1>5 DEF Idle
  <2> QED
    BY <2>1, <2>2, <1>5, <1>8 DEF IInv, Exclusive
<1>11. MutexInv'
  <2>1. \A u \in Threads : u # t => pc[u] # "connecting"
    BY <1>1, <1>2 DEF IInv, MutexInv
  <2> QED
    BY <2>1, <1>1, <1>8 DEF MutexInv
<1>12. HoldInv' /\ BuildInv'
  BY <1>1, <1>6, <1>8 DEF IInv, HoldInv, BuildInv, MoreToBuild
<1>13. SessionBounds'
  <2>1. Borrowers' = Borrowers \cup {t} /\ t \notin Borrowers
    BY <1>5, <1>6, <1>7, BorrowersFacts DEF IInv, Borrowers
  <2>2. Cardinality(Borrowers') = Cardinality(Borrowers) + 1
    BY <2>1, IInvFacts, FS_AddElement
  <2>3. Cardinality(Borrowers') <= Cardinality(Threads)
    BY <2>1, IInvFacts, PoolAssumption, FS_Subset
  <2>4. Len(connections) = 0 /\ Len(connections') = 0
    BY <1>2, <1>5
  <2>5. PoolSize \in Nat
    BY PoolAssumption
  <2> QED
    BY <2>2, <2>3, <2>4, <2>5, <1>1, IInvFacts, LimitFacts
    DEF IInv, SessionBounds, Limit, MoreToBuild
<1> QED
  BY <1>9, <1>10, <1>11, <1>12, <1>13 DEF IInv

(* A failed growth ends the process and leaves the queue alone.            *)
LEMMA GrowFailsInv == ASSUME NEW t \in Threads PROVE IInv /\ GrowFails(t) => IInv'
BY DEF GrowFails, IInv, TypeOK, Exclusive, Idle, MutexInv, HoldInv, BuildInv,
       Borrowers, SessionBounds, Limit, MoreToBuild

(* A statement moves no session.                                           *)
LEMMA ExecuteInv == ASSUME NEW t \in Threads PROVE IInv /\ Execute(t) => IInv'
<1> SUFFICES ASSUME IInv, Execute(t) PROVE IInv'
  OBVIOUS
<1>1. /\ UNCHANGED <<connections, built, mutex, held, crashed, Borrowers, Idle>>
      /\ pc[t] = "holding" /\ pc' = [pc EXCEPT ![t] = "executed"]
      /\ rows' = [rows EXCEPT ![t] = held[t]] \/ rows' = rows
  BY DEF Execute, Borrowers, Idle
<1>2. pc \in [Threads -> States] /\ rows \in [Threads -> Sessions \cup {NoSession}]
      /\ held \in [Threads -> Sessions \cup {NoSession}]
  BY DEF IInv, TypeOK
<1>3. \A u \in Threads : pc'[u] = IF u = t THEN "executed" ELSE pc[u]
  BY <1>1, <1>2
<1>4. rows' \in [Threads -> Sessions \cup {NoSession}]
  BY <1>1, <1>2
<1>5. TypeOK'
  BY <1>1, <1>2, <1>4 DEF IInv, TypeOK, States
<1>6. MutexInv' /\ HoldInv' /\ BuildInv'
  <2>1. mutex # NoThread => mutex # t /\ mutex \in Threads
    BY <1>1 DEF IInv, MutexInv, TypeOK
  <2> QED
    BY <2>1, <1>1, <1>3 DEF IInv, MutexInv, HoldInv, BuildInv, MoreToBuild
<1>7. Exclusive' /\ SessionBounds'
  BY <1>1 DEF IInv, Exclusive, SessionBounds, Limit, MoreToBuild
<1> QED
  BY <1>5, <1>6, <1>7 DEF IInv

(* Giving back moves the session to the queue; a trimmed queue keeps       *)
(* PoolSize sessions.                                                      *)
LEMMA GiveBackInv == ASSUME NEW t \in Threads PROVE IInv /\ GiveBack(t) => IInv'
<1> SUFFICES ASSUME IInv, GiveBack(t) PROVE IInv'
  OBVIOUS
<1> DEFINE s == held[t]
           after == IF rows[t] = NoSession THEN "outside" ELSE "reading"
<1>1. /\ mutex = NoThread /\ ~crashed /\ ~MoreToBuild
      /\ pc[t] = "executed" /\ pc' = [pc EXCEPT ![t] = after]
      /\ connections' = Pushed(connections, s)
      /\ held' = [held EXCEPT ![t] = NoSession]
      /\ UNCHANGED <<built, mutex, rows, crashed>>
  BY DEF GiveBack, Ready
<1>2. /\ s # NoSession /\ held \in [Threads -> Sessions \cup {NoSession}]
      /\ pc \in [Threads -> States] /\ s \in Sessions /\ s \notin Idle
  BY <1>1 DEF IInv, HoldInv, TypeOK, Exclusive
<1>3. /\ connections' \in Seq(Sessions)
      /\ Len(connections') = IF Len(connections) + 1 > 2 * PoolSize
                             THEN PoolSize ELSE Len(connections) + 1
      /\ Elems(connections') \subseteq Elems(connections) \cup {s}
      /\ Distinct(connections')
  BY <1>1, <1>2, IInvFacts, PushedFacts
<1>4. Idle' \subseteq Idle \cup {s}
  BY <1>3, IInvFacts DEF Idle, Elems
<1>5. \A u \in Threads : /\ held'[u] = IF u = t THEN NoSession ELSE held[u]
                         /\ pc'[u] = IF u = t THEN after ELSE pc[u]
  BY <1>1, <1>2
<1>6. after \in {"outside", "reading"}
  OBVIOUS
<1> HIDE DEF after
<1>7. TypeOK'
  BY <1>1, <1>2, <1>3, <1>6 DEF IInv, TypeOK, States
<1>8. Exclusive'
  <2>1. NoSession \notin Idle'
    <3>1. Idle' \subseteq Sessions
      BY <1>3, ElementOfSeq, LenProperties DEF Idle
    <3> QED
      BY <3>1, PoolAssumption
  <2>2. \A u \in Threads : u # t => held[u] # s
    BY <1>2 DEF IInv, Exclusive
  <2> QED
    BY <2>1, <2>2, <1>3, <1>4, <1>5 DEF IInv, Exclusive, Distinct
<1>9. MutexInv' /\ HoldInv' /\ BuildInv'
  BY <1>1, <1>5, <1>6 DEF IInv, MutexInv, HoldInv, BuildInv, MoreToBuild
<1>10. SessionBounds'
  <2>1. Borrowers' = Borrowers \ {t} /\ t \in Borrowers
    BY <1>1, <1>2, BorrowersFacts DEF IInv, Borrowers
  <2>2. Cardinality(Borrowers') = Cardinality(Borrowers) - 1
    BY <2>1, IInvFacts, FS_RemoveElement
  <2>3. Borrowers # {}
    BY <2>1
  <2>4. Cardinality(Borrowers) >= 1
    BY <2>3, IInvFacts, FS_EmptySet
  <2>5. PoolSize \in Nat \ {0}
    BY PoolAssumption
  <2> QED
    BY <2>2, <2>4, <2>5, <1>1, <1>3, IInvFacts, LimitFacts
    DEF IInv, SessionBounds, Limit, MoreToBuild
<1> QED
  BY <1>7, <1>8, <1>9, <1>10 DEF IInv

(* Reading rows moves no session.                                          *)
LEMMA FinishRowsInv == ASSUME NEW t \in Threads PROVE IInv /\ FinishRows(t) => IInv'
<1> SUFFICES ASSUME IInv, FinishRows(t) PROVE IInv'
  OBVIOUS
<1>1. /\ UNCHANGED <<connections, built, mutex, held, crashed, Borrowers, Idle>>
      /\ pc[t] = "reading" /\ pc' = [pc EXCEPT ![t] = "outside"]
      /\ rows' = [rows EXCEPT ![t] = NoSession]
  BY DEF FinishRows, Borrowers, Idle
<1>2. pc \in [Threads -> States]
  BY DEF IInv, TypeOK
<1>3. \A u \in Threads : pc'[u] = IF u = t THEN "outside" ELSE pc[u]
  BY <1>1, <1>2
<1>4. TypeOK'
  BY <1>1, <1>2 DEF IInv, TypeOK, States
<1>5. MutexInv' /\ HoldInv' /\ BuildInv'
  <2>1. mutex # NoThread => mutex # t /\ mutex \in Threads
    BY <1>1 DEF IInv, MutexInv, TypeOK
  <2> QED
    BY <2>1, <1>1, <1>3 DEF IInv, MutexInv, HoldInv, BuildInv, MoreToBuild
<1>6. Exclusive' /\ SessionBounds'
  BY <1>1 DEF IInv, Exclusive, SessionBounds, Limit, MoreToBuild
<1> QED
  BY <1>4, <1>5, <1>6 DEF IInv

(* Nor does reading them before the session is returned.                   *)
LEMMA ReadAllInv == ASSUME NEW t \in Threads PROVE IInv /\ ReadAll(t) => IInv'
<1> SUFFICES ASSUME IInv, ReadAll(t) PROVE IInv'
  OBVIOUS
<1>1. /\ UNCHANGED <<connections, built, mutex, pc, held, crashed, Borrowers, Idle>>
      /\ rows' = [rows EXCEPT ![t] = NoSession]
  BY DEF ReadAll, Borrowers, Idle
<1> QED
  BY <1>1 DEF IInv, TypeOK, Exclusive, MutexInv, HoldInv, BuildInv, SessionBounds,
              Limit, MoreToBuild

(* Every step of the pool preserves the invariant.                         *)
LEMMA NextInv == IInv /\ [Next]_vars => IInv'
<1> SUFFICES ASSUME IInv, [Next]_vars PROVE IInv'
  OBVIOUS
<1>1. CASE Construct
  BY <1>1, ConstructInv
<1>2. CASE ConstructFails
  BY <1>2, ConstructFailsInv
<1>3. CASE \E t \in Threads : Enter(t) \/ Proceed(t)
  BY <1>3, TakeIdleInv, BeginGrowInv, GrowOkInv, GrowFailsInv, ExecuteInv,
     ReadAllInv, GiveBackInv, FinishRowsInv DEF Enter, Proceed
<1>4. CASE UNCHANGED vars
  BY <1>4 DEF vars, IInv, TypeOK, Exclusive, Idle, MutexInv, HoldInv, BuildInv,
              Borrowers, SessionBounds, Limit, MoreToBuild
<1> QED
  BY <1>1, <1>2, <1>3, <1>4 DEF Next, Build, Terminated

-------------------------------------------------------------------------------
(* Theorems.                                                               *)

(* IInv is an invariant of the pool (getConnection and its deleter).       *)
THEOREM Invariance == Spec => []IInv
BY InitInv, NextInv, PTL DEF Spec

(* Every variable of the pool keeps its type.                              *)
THEOREM TypeCorrect == Spec => []TypeOK
<1>1. IInv => TypeOK
  BY DEF IInv
<1> QED
  BY <1>1, Invariance, PTL

(* No MySQL connection is ever with two threads, or lent and idle at once. *)
THEOREM ExclusiveSafe == Spec => []Exclusive
<1>1. IInv => Exclusive
  BY DEF IInv
<1> QED
  BY <1>1, Invariance, PTL

(* Trimming stops at PoolSize and growth at max(PoolSize, threads).        *)
THEOREM SessionBoundsSafe == Spec => []SessionBounds
<1>1. IInv => SessionBounds
  BY DEF IInv
<1> QED
  BY <1>1, Invariance, PTL

-------------------------------------------------------------------------------
(* The two promises to callers that depend on how many threads there are.  *)

(* With no more threads than PoolSize the queue is never found empty.      *)
LEMMA EnoughSessions ==
  ASSUME IInv, Cardinality(Threads) <= PoolSize
  PROVE  mutex = NoThread
<1> SUFFICES ASSUME mutex # NoThread PROVE FALSE
  OBVIOUS
<1>1. mutex \in Threads /\ pc[mutex] = "connecting" /\ connections = <<>> /\ ~MoreToBuild
  BY DEF IInv, MutexInv, TypeOK
<1>2. held[mutex] = NoSession
  BY <1>1 DEF IInv, HoldInv
<1>3. Borrowers \subseteq Threads \ {mutex}
  BY <1>2 DEF Borrowers
<1>4. IsFiniteSet(Threads \ {mutex}) /\ Cardinality(Threads \ {mutex}) = Cardinality(Threads) - 1
  BY <1>1, PoolAssumption, FS_RemoveElement
<1>5. Cardinality(Borrowers) <= Cardinality(Threads) - 1
  BY <1>3, <1>4, FS_Subset
<1>6. Len(connections) = 0 /\ Len(connections) + Cardinality(Borrowers) >= PoolSize
  BY <1>1 DEF IInv, SessionBounds
<1> QED
  BY <1>5, <1>6, IInvFacts, LimitFacts, PoolAssumption

(* Only the constructor can then end the process.                          *)
CrashInv == Cardinality(Threads) <= PoolSize => (crashed => MoreToBuild)

LEMMA CrashStep == IInv /\ CrashInv /\ [Next]_vars => CrashInv'
<1> SUFFICES ASSUME IInv, CrashInv, [Next]_vars, Cardinality(Threads) <= PoolSize, crashed'
             PROVE  MoreToBuild'
  BY DEF CrashInv
<1>1. mutex = NoThread
  BY EnoughSessions
<1>2. crashed => MoreToBuild
  BY DEF CrashInv
<1>3. \A t \in Threads : pc[t] = "connecting" => crashed
  BY <1>1, PoolAssumption DEF IInv, MutexInv
<1>4. ~Construct
  BY DEF Construct
<1>5. CASE ConstructFails
  BY <1>5 DEF ConstructFails, MoreToBuild
<1>6. ~(\E t \in Threads : Enter(t) \/ Proceed(t))
  BY <1>3 DEF Enter, Proceed, TakeIdle, BeginGrow, GrowOk, GrowFails, Execute, ReadAll,
              GiveBack, FinishRows, Ready
<1>7. CASE UNCHANGED vars
  BY <1>7, <1>2 DEF vars, MoreToBuild
<1> QED
  BY <1>4, <1>5, <1>6, <1>7 DEF Next, Build, Terminated

(* No caller of getConnection meets a null pointer when there are at most  *)
(* PoolSize threads: the program's two threads and ten sessions.           *)
THEOREM NeverNullSafe == Spec => []NeverNull
<1>1. Init => CrashInv
  BY DEF Init, CrashInv
<1>2. IInv /\ CrashInv => NeverNull
  BY EnoughSessions DEF NeverNull, CrashInv, MoreToBuild
<1> QED
  BY <1>1, <1>2, CrashStep, Invariance, PTL DEF Spec

(* With no more than 2 * PoolSize threads nothing is ever trimmed.         *)
LEMMA NothingTrimmed ==
  ASSUME IInv, Cardinality(Threads) <= 2 * PoolSize,
         NEW t \in Threads, held[t] # NoSession
  PROVE  Len(connections) + 1 <= 2 * PoolSize
<1>1. Borrowers # {}
  BY DEF Borrowers
<1>2. Cardinality(Borrowers) >= 1
  BY <1>1, IInvFacts, FS_EmptySet
<1>3. Len(connections) + Cardinality(Borrowers) <= Limit
  BY DEF IInv, SessionBounds
<1>4. Limit <= 2 * PoolSize
  BY LimitFacts, PoolAssumption DEF Limit
<1> QED
  BY <1>2, <1>3, <1>4, IInvFacts, LimitFacts, PoolAssumption

(* So a session, once open, stays open.                                    *)
LEMMA LiveGrows ==
  ASSUME IInv, [Next]_vars, Cardinality(Threads) <= 2 * PoolSize
  PROVE  Live \subseteq Live'
<1>1. held \in [Threads -> Sessions \cup {NoSession}]
  BY DEF IInv, TypeOK
<1>2. CASE Construct
  <2>1. PICK s \in Unused : connections' = Append(connections, s)
    BY <1>2 DEF Construct
  <2>2. Elems(connections') = Elems(connections) \cup {s}
    BY <2>1, IInvFacts, AppendFacts DEF Unused
  <2>3. held' = held
    BY <1>2 DEF Construct
  <2> QED
    BY <2>2, <2>3 DEF Live, Idle, Held, Elems
<1>3. ASSUME NEW t \in Threads, TakeIdle(t) PROVE Live \subseteq Live'
  <2>1. held' = [held EXCEPT ![t] = Head(connections)] /\ connections # <<>>
        /\ connections' = Popped(connections) /\ held[t] = NoSession
    BY <1>3 DEF TakeIdle, IInv, HoldInv
  <2>2. Elems(connections') = Elems(connections) \ {Head(connections)}
        /\ Head(connections) # NoSession
    BY <2>1, IInvFacts, PoppedFacts, PoolAssumption
  <2>3. Held' = Held \cup {Head(connections)}
    BY <2>1, <2>2, <1>1 DEF Held
  <2> QED
    BY <2>2, <2>3 DEF Live, Idle, Elems
<1>4. ASSUME NEW t \in Threads, GrowOk(t) PROVE Live \subseteq Live'
  <2>1. connections = <<>> /\ held[t] = NoSession
    BY <1>4, PoolAssumption DEF GrowOk, Ready, IInv, MutexInv, HoldInv
  <2>2. \E s : held' = [held EXCEPT ![t] = s]
    BY <1>4 DEF GrowOk
  <2>3. Held \subseteq Held'
    BY <2>1, <2>2, <1>1 DEF Held
  <2>4. Idle = {}
    BY <2>1 DEF Idle
  <2> QED
    BY <2>3, <2>4 DEF Live
<1>5. ASSUME NEW t \in Threads, GiveBack(t) PROVE Live \subseteq Live'
  <2>1. held[t] # NoSession /\ held[t] \in Sessions /\ held[t] \notin Idle
        /\ held' = [held EXCEPT ![t] = NoSession]
        /\ connections' = Pushed(connections, held[t])
    BY <1>5, <1>1 DEF GiveBack, IInv, HoldInv, Exclusive
  <2>2. Len(connections) + 1 <= 2 * PoolSize
    BY <2>1, NothingTrimmed
  <2>3. Elems(connections') = Elems(connections) \cup {held[t]}
    BY <2>1, <2>2, IInvFacts, PushedFacts
  <2>4. Held \subseteq Held' \cup {held[t]}
    BY <2>1, <1>1 DEF Held
  <2> QED
    BY <2>3, <2>4 DEF Live, Idle, Elems
<1>6. CASE connections' = connections /\ held' = held
  BY <1>6 DEF Live, Idle, Held
<1> QED
  BY <1>2, <1>3, <1>4, <1>5, <1>6
  DEF Next, Build, Enter, Proceed, ConstructFails, BeginGrow, GrowFails, Execute, ReadAll,
      FinishRows, Terminated, vars

(* A result set keeps its session.                                         *)
LEMMA RowsStep == IInv /\ RowsHaveSession /\ [Next]_vars => RowsHaveSession'
<1> SUFFICES ASSUME IInv, RowsHaveSession, [Next]_vars,
                    Cardinality(Threads) <= 2 * PoolSize,
                    NEW t \in Threads, rows'[t] # NoSession
             PROVE  rows'[t] \in Live'
  BY DEF RowsHaveSession
<1>1. Live \subseteq Live'
  BY LiveGrows
<1>2. rows[t] # NoSession => rows[t] \in Live
  BY DEF RowsHaveSession
<1>3. rows \in [Threads -> Sessions \cup {NoSession}]
  BY DEF IInv, TypeOK
<1>4. ASSUME NEW u \in Threads, Execute(u) PROVE rows'[t] \in Live'
  <2>1. rows'[t] = rows[t] \/ rows'[t] = held[t]
    BY <1>3, <1>4 DEF Execute
  <2>2. held[t] # NoSession => held[t] \in Live
    BY DEF Live, Held
  <2> QED
    BY <2>1, <2>2, <1>1, <1>2
<1>5. ASSUME NEW u \in Threads, FinishRows(u) \/ ReadAll(u) PROVE rows'[t] \in Live'
  <2>1. rows'[t] = rows[t]
    BY <1>3, <1>5 DEF FinishRows, ReadAll
  <2> QED
    BY <2>1, <1>1, <1>2
<1>6. CASE rows' = rows
  BY <1>6, <1>1, <1>2
<1> QED
  BY <1>4, <1>5, <1>6
  DEF Next, Build, Enter, Proceed, Construct, ConstructFails, TakeIdle, BeginGrow, GrowOk, GrowFails,
      GiveBack, Terminated, vars

(* queryDuration's rows are read under a session that still exists, when   *)
(* there are at most 2 * PoolSize threads.                                 *)
THEOREM RowsSafe == Spec => []RowsHaveSession
<1>1. Init => RowsHaveSession
  BY DEF Init, RowsHaveSession
<1> QED
  BY <1>1, RowsStep, Invariance, PTL DEF Spec

-------------------------------------------------------------------------------
(* The refinement.                                                         *)

(* The abstract loans are the concrete ones.                               *)
LEMMA SameBorrowers == Lending!Borrowers = Borrowers /\ Lending!Lent = Held
BY DEF Lending!Borrowers, Borrowers, Lending!Lent, Held

(* The abstract bound follows from the concrete one: the queue has no more *)
(* sessions than places.                                                   *)
LEMMA MapBound == IInv => Lending!WithinLimit
<1> SUFFICES ASSUME IInv PROVE Lending!WithinLimit
  OBVIOUS
<1>1. IsFiniteSet(Idle) /\ Cardinality(Idle) <= Len(connections)
  BY IInvFacts, ElemsCardinality
<1>2. Cardinality(Idle) \in Nat
  BY <1>1, FS_CardinalityType
<1>3. Len(connections) + Cardinality(Borrowers) <= Limit
  BY DEF IInv, SessionBounds
<1>4. Cardinality(Idle) + Cardinality(Borrowers) <= Limit
  BY <1>1, <1>2, <1>3, IInvFacts, LimitFacts
<1>5. \A S : Lending!Cardinality(S) = Cardinality(S)
  BY DEF Lending!Cardinality, Cardinality
<1> QED
  BY <1>4, <1>5, SameBorrowers DEF Lending!WithinLimit

(* An empty pool is an empty lender.                                       *)
LEMMA MapInit == Init => Lending!Init
BY DEF Init, Lending!Init, Idle

(* Every step of the pool opens, lends or takes back a session, or is      *)
(* nothing to the lender.                                                  *)
LEMMA MapStep ==
  IInv /\ [Next]_vars /\ Lending!WithinLimit' => [Lending!Next]_(Lending!vars)
<1> SUFFICES ASSUME IInv, [Next]_vars, Lending!WithinLimit'
             PROVE  [Lending!Next]_(Lending!vars)
  OBVIOUS
<1>1. held \in [Threads -> Sessions \cup {NoSession}]
  BY DEF IInv, TypeOK
<1>2. CASE Construct
  <2>1. PICK s \in Unused : connections' = Append(connections, s)
    BY <1>2 DEF Construct
  <2>2. Elems(connections') = Elems(connections) \cup {s}
    BY <2>1, IInvFacts, AppendFacts DEF Unused
  <2>3. Idle' = Idle \cup {s} /\ held' = held
    BY <2>2, <1>2 DEF Idle, Elems, Construct
  <2>4. s \in Sessions /\ s \notin Idle \cup Held
    BY <2>1 DEF Unused, Live
  <2>5. Lending!Open(s)
    BY <2>3, <2>4, SameBorrowers DEF Lending!Open
  <2> QED
    BY <2>4, <2>5 DEF Lending!Next
<1>3. ASSUME NEW t \in Threads, TakeIdle(t) PROVE Lending!Next
  <2> DEFINE s == Head(connections)
  <2>1. held' = [held EXCEPT ![t] = s] /\ connections # <<>>
        /\ connections' = Popped(connections) /\ held[t] = NoSession
    BY <1>3 DEF TakeIdle, IInv, HoldInv
  <2>2. Elems(connections') = Elems(connections) \ {s} /\ s \in Sessions /\ s \in Idle
    BY <2>1, IInvFacts, PoppedFacts
  <2>3. Idle' = Idle \ {s}
    BY <2>2 DEF Idle, Elems
  <2>4. s \notin Held
    BY <2>2 DEF IInv, Exclusive, Held
  <2>5. Lending!Borrow(t, s)
    BY <2>1, <2>3, <2>4, SameBorrowers DEF Lending!Borrow
  <2> QED
    BY <2>2, <2>5 DEF Lending!Next
<1>4. ASSUME NEW t \in Threads, GrowOk(t) PROVE Lending!Next
  <2>1. connections = <<>> /\ held[t] = NoSession
    BY <1>4, PoolAssumption DEF GrowOk, Ready, IInv, MutexInv, HoldInv
  <2>2. PICK s \in Unused : /\ held' = [held EXCEPT ![t] = Head(Append(connections, s))]
                            /\ connections' = Popped(Append(connections, s))
    BY <1>4 DEF GrowOk
  <2>3. held' = [held EXCEPT ![t] = s] /\ connections' = <<>>
    BY <2>1, <2>2 DEF Popped
  <2>4. Idle = {} /\ Idle' = {}
    BY <2>1, <2>3 DEF Idle
  <2>5. s \in Sessions /\ s \notin Held
    BY DEF Unused, Live
  <2>6. Lending!Borrow(t, s)
    BY <2>1, <2>3, <2>4, <2>5, SameBorrowers DEF Lending!Borrow
  <2> QED
    BY <2>5, <2>6 DEF Lending!Next
<1>5. ASSUME NEW t \in Threads, GiveBack(t) PROVE Lending!Next
  <2> DEFINE closed == (Idle \cup {held[t]}) \ Idle'
  <2>1. held[t] # NoSession /\ held[t] \in Sessions /\ held[t] \notin Idle
        /\ held' = [held EXCEPT ![t] = NoSession]
        /\ connections' = Pushed(connections, held[t])
    BY <1>5, <1>1 DEF GiveBack, IInv, HoldInv, Exclusive
  <2>2. Elems(connections') \subseteq Elems(connections) \cup {held[t]}
    BY <2>1, IInvFacts, PushedFacts
  <2>3. Idle' \subseteq Idle \cup {held[t]}
    BY <2>2 DEF Idle, Elems
  <2>4. Idle \subseteq Sessions
    BY IInvFacts, ElementOfSeq, LenProperties DEF Idle
  <2>5. Idle' = (Idle \cup {held[t]}) \ closed /\ closed \in SUBSET Sessions
    BY <2>1, <2>3, <2>4
  <2>6. Lending!GiveBack(t, closed)
    BY <2>1, <2>5 DEF Lending!GiveBack
  <2> QED
    BY <2>5, <2>6 DEF Lending!Next
<1>6. CASE connections' = connections /\ held' = held
  BY <1>6 DEF Idle, Lending!vars
<1> QED
  BY <1>2, <1>3, <1>4, <1>5, <1>6
  DEF Next, Build, Enter, Proceed, ConstructFails, BeginGrow, GrowFails, Execute, ReadAll,
      FinishRows, Terminated, vars

(* The pool (getConnection and its deleter) implements exclusive lending   *)
(* within max(PoolSize, threads).                                          *)
THEOREM Refinement == Spec => LendsExclusively
BY MapInit, MapBound, MapStep, Invariance, PTL DEF Spec, LendsExclusively, Lending!Spec
===============================================================================
