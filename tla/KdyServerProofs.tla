--------------------------- MODULE KdyServerProofs ---------------------------
(***************************************************************************)
(* Proofs about KdyServer: what is proved of the pool and of the MQTT      *)
(* client holds in the process that uses both, and nothing but a request   *)
(* (its body, or the path of a directory) ends that process once it serves.*)
(***************************************************************************)
EXTENDS KdyServer, FiniteSetTheorems, TLAPS

(* The pool with its theorems, as this process uses it.                    *)
PoolProofs == INSTANCE DBConnectionPoolProofs WITH crashed <- ended = "pool"
ClientProofs == INSTANCE MQTTClientProofs

-------------------------------------------------------------------------------
(* The theorems of the components may be used.                             *)

(* What DBConnectionPool assumes of its constants holds here.              *)
LEMMA PoolConstants ==
  /\ PoolSize \in Nat \ {0}
  /\ PoolProofs!IsFiniteSet(Threads)
  /\ NoSession \notin Sessions
  /\ NoThread \notin Threads
<1>1. IsFiniteSet({main}) /\ Threads = {main} \cup {paho}
  BY FS_Singleton DEF Threads
<1>2. IsFiniteSet(Threads)
  BY <1>1, FS_AddElement
<1>3. PoolProofs!IsFiniteSet(Threads)
  BY <1>2 DEF IsFiniteSet, PoolProofs!IsFiniteSet
<1> QED
  BY <1>3, ServerAssumption

(* The event loop and Paho's callbacks: no third thread.                   *)
LEMMA TwoThreads == Cardinality(Threads) = 2
<1>1. Cardinality({main}) = 1 /\ IsFiniteSet({main}) /\ paho \notin {main}
      /\ Threads = {main} \cup {paho}
  BY FS_Singleton DEF Threads, main, paho
<1> QED
  BY <1>1, FS_AddElement

(* Both names of the pool's specification mean the same.                   *)
LEMMA SamePool ==
  /\ Pool!Init <=> PoolProofs!Init
  /\ [Pool!Next]_(Pool!vars) <=> [PoolProofs!Next]_(PoolProofs!vars)
<1>1. Pool!Init <=> PoolProofs!Init
  BY DEF Pool!Init, PoolProofs!Init
<1>2. Pool!Build <=> PoolProofs!Build
  BY DEF Pool!Build, PoolProofs!Build, Pool!Construct, PoolProofs!Construct,
    Pool!ConstructFails, PoolProofs!ConstructFails, Pool!MoreToBuild, PoolProofs!MoreToBuild,
    Pool!Unused, PoolProofs!Unused, Pool!Live, PoolProofs!Live, Pool!Idle, PoolProofs!Idle,
    Pool!Held, PoolProofs!Held
<1>3. \A t \in Threads : Pool!Enter(t) <=> PoolProofs!Enter(t)
  BY DEF Pool!Enter, PoolProofs!Enter, Pool!TakeIdle, PoolProofs!TakeIdle,
    Pool!BeginGrow, PoolProofs!BeginGrow, Pool!Ready, PoolProofs!Ready,
    Pool!MoreToBuild, PoolProofs!MoreToBuild, Pool!Popped, PoolProofs!Popped
<1>4. \A t \in Threads : Pool!Proceed(t) <=> PoolProofs!Proceed(t)
  BY DEF Pool!Proceed, PoolProofs!Proceed, Pool!GrowOk, PoolProofs!GrowOk,
    Pool!GrowFails, PoolProofs!GrowFails, Pool!Execute, PoolProofs!Execute,
    Pool!ReadAll, PoolProofs!ReadAll, Pool!GiveBack, PoolProofs!GiveBack,
    Pool!FinishRows, PoolProofs!FinishRows, Pool!Ready, PoolProofs!Ready,
    Pool!MoreToBuild, PoolProofs!MoreToBuild, Pool!Popped, PoolProofs!Popped,
    Pool!Pushed, PoolProofs!Pushed,
    Pool!Unused, PoolProofs!Unused, Pool!Live, PoolProofs!Live, Pool!Idle, PoolProofs!Idle,
    Pool!Held, PoolProofs!Held
<1>5. Pool!vars = PoolProofs!vars
  BY DEF Pool!vars, PoolProofs!vars
<1>5a. Pool!vars' = PoolProofs!vars'
  BY DEF Pool!vars, PoolProofs!vars
<1>6. Pool!Terminated <=> PoolProofs!Terminated
  BY DEF Pool!Terminated, PoolProofs!Terminated, Pool!vars, PoolProofs!vars
<1> QED
  BY <1>1, <1>2, <1>3, <1>4, <1>5, <1>5a, <1>6 DEF Pool!Next, PoolProofs!Next

(* And both names of the client's specification.                           *)
LEMMA SameClient ==
  /\ Client!Init <=> ClientProofs!Init
  /\ [Client!Next]_(Client!vars) <=> [ClientProofs!Next]_(ClientProofs!vars)
<1>1. Client!Init <=> ClientProofs!Init
  BY DEF Client!Init, ClientProofs!Init
<1>2. Client!vars = ClientProofs!vars /\ Client!vars' = ClientProofs!vars'
  BY DEF Client!vars, ClientProofs!vars
<1>3. Client!EventLoop \/ Client!Publish \/ Client!GetConfig
        <=> ClientProofs!EventLoop \/ ClientProofs!Publish \/ ClientProofs!GetConfig
  BY DEF Client!EventLoop, ClientProofs!EventLoop, Client!StartConnect,
    ClientProofs!StartConnect, Client!ConnectReturns, ClientProofs!ConnectReturns,
    Client!WaitOver, ClientProofs!WaitOver, Client!PublishReturns, ClientProofs!PublishReturns,
    Client!TokenOver, ClientProofs!TokenOver, Client!Publish, ClientProofs!Publish,
    Client!GetConfig, ClientProofs!GetConfig
<1>4. Client!MessageArrived <=> ClientProofs!MessageArrived
  BY DEF Client!MessageArrived, ClientProofs!MessageArrived, Client!AfterMalformed,
    ClientProofs!AfterMalformed, Client!Malformed, ClientProofs!Malformed,
    Client!Displacement, ClientProofs!Displacement
<1>5. Client!Subscribe \/ Client!InsertReturns \/ Client!SetConfig
        <=> ClientProofs!Subscribe \/ ClientProofs!InsertReturns \/ ClientProofs!SetConfig
  BY DEF Client!Subscribe, ClientProofs!Subscribe, Client!CameraTopic,
    ClientProofs!CameraTopic, Client!CameraMessage, ClientProofs!CameraMessage,
    Client!Distance, ClientProofs!Distance, Client!InsertReturns, ClientProofs!InsertReturns,
    Client!SetConfig, ClientProofs!SetConfig, Client!MaySet, ClientProofs!MaySet
<1>6. Client!ConnAck \/ Client!Granted \/ Client!LinkDown \/ Client!Written
        <=> ClientProofs!ConnAck \/ ClientProofs!Granted \/ ClientProofs!LinkDown
              \/ ClientProofs!Written
  BY DEF Client!ConnAck, ClientProofs!ConnAck, Client!OnConnected, ClientProofs!OnConnected,
    Client!Granted, ClientProofs!Granted, Client!LinkDown, ClientProofs!LinkDown,
    Client!Written, ClientProofs!Written
<1>7. Client!Report <=> ClientProofs!Report
  BY DEF Client!Report, ClientProofs!Report, Client!CameraMessage, ClientProofs!CameraMessage
<1>8. (\E m \in {Client!Displacement, Client!Malformed} : Client!OtherMessage(m))
        <=> (\E m \in {ClientProofs!Displacement, ClientProofs!Malformed} :
                 ClientProofs!OtherMessage(m))
  BY DEF Client!OtherMessage, ClientProofs!OtherMessage, Client!Displacement,
    ClientProofs!Displacement, Client!Malformed, ClientProofs!Malformed, Client!Distance,
    ClientProofs!Distance
<1> QED
  BY <1>1, <1>2, <1>3, <1>4, <1>5, <1>6, <1>7, <1>8
  DEF Client!Next, ClientProofs!Next, Client!CallbackThread, ClientProofs!CallbackThread

-------------------------------------------------------------------------------
(* The process uses the pool and the client as they are specified.         *)

(* Every step is one of the pool, or leaves it alone.                      *)
LEMMA PoolStep == [Next]_vars => [Pool!Next]_(Pool!vars)
<1> SUFFICES ASSUME [Next]_vars PROVE [Pool!Next]_(Pool!vars)
  OBVIOUS
<1>1. CASE UNCHANGED poolVars /\ (ended' = "pool" <=> ended = "pool")
  <2>1. (ended' = "pool") = (ended = "pool")
    BY <1>1
  <2>2. UNCHANGED <<connections, built, mutex, pc, held, rows>>
    BY <1>1 DEF poolVars
  <2>3. UNCHANGED connections /\ UNCHANGED built /\ UNCHANGED mutex
        /\ UNCHANGED pc /\ UNCHANGED held /\ UNCHANGED rows
    BY <2>2
  <2>4. UNCHANGED Pool!vars
    BY <2>1, <2>3, Zenon DEF Pool!vars
  <2> QED
    BY <2>4
<1>2. CASE BuildPool
  BY <1>2 DEF BuildPool, Pool!Next
<1>3. CASE \E t \in Threads : EnterPool(t) \/ UsePool(t)
  BY <1>3 DEF EnterPool, UsePool, Pool!Next
<1>4. CASE ReadPage \/ Constructed \/ ConnectClient \/ CurveAnswered \/ LensParamsAnswered
  BY <1>1, <1>4 DEF ReadPage, Constructed, ConnectClient, CurveAnswered, LensParamsAnswered
<1>5. CASE MessageArrived \/ InsertReturns \/ Callback \/ Written \/ Environment
  BY <1>1, <1>5 DEF MessageArrived, InsertReturns, Callback, Written, Environment
<1>6. CASE Request \/ UNCHANGED vars
  BY <1>1, <1>6 DEF Request, GetCurve, LensParams, BadBody, GetDirectory, Free, vars
<1> QED
  BY <1>2, <1>3, <1>4, <1>5, <1>6 DEF Next, Main, Paho, Terminated, Threads

(* The same for the client.                                                *)
LEMMA ClientStep == [Next]_vars => [Client!Next]_(Client!vars)
<1> SUFFICES ASSUME [Next]_vars PROVE [Client!Next]_(Client!vars)
  OBVIOUS
<1>1. CASE UNCHANGED clientVars
  BY <1>1 DEF clientVars, Client!vars
<1>2. CASE ConnectClient \/ LensParamsAnswered
  BY <1>2 DEF ConnectClient, LensParamsAnswered, Client!Next, Client!EventLoop
<1>3. CASE LensParams \/ Written \/ Environment
  BY <1>3 DEF LensParams, Written, Environment, Client!Next
<1>4. CASE MessageArrived \/ InsertReturns \/ Callback
  BY <1>4 DEF MessageArrived, InsertReturns, Callback, Client!Next, Client!CallbackThread
<1> QED
  BY <1>1, <1>2, <1>3, <1>4
  DEF Next, Main, Paho, Request, vars, ReadPage, Constructed, BuildPool, EnterPool, UsePool,
      CurveAnswered, GetCurve, BadBody, GetDirectory, Terminated

(* The two threads use the pool as DBConnectionPool says threads do, with  *)
(* the end of the process by a failed connect as its crash.                *)
THEOREM PoolImplemented == Spec => ImplementsPool
<1>1. Init => Pool!Init
  BY DEF Init
<1> QED
  BY <1>1, PoolStep, PTL DEF Spec, ImplementsPool, Pool!Spec

(* Event loop and callbacks use the client as MQTTClient says.             *)
THEOREM ClientImplemented == Spec => ImplementsClient
<1>1. Init => Client!Init
  BY DEF Init
<1> QED
  BY <1>1, ClientStep, PTL DEF Spec, ImplementsClient, Client!Spec

(* In this process getConnection() never returns a null pointer: what was  *)
(* proved of DBConnectionPool carries over.                                *)
THEOREM NeverNullSafe == Spec => []NeverNull
<1>1. PoolProofs!Spec => []PoolProofs!NeverNull
  BY PoolProofs!NeverNullSafe, PoolConstants
<1>2. Pool!Spec => PoolProofs!Spec
  BY SamePool, PTL DEF Pool!Spec, PoolProofs!Spec
<1>3. PoolProofs!NeverNull <=> NeverNull
  BY DEF PoolProofs!NeverNull, NeverNull, Pool!NeverNull, Cardinality, PoolProofs!Cardinality,
         Pool!Cardinality
<1> QED
  BY <1>1, <1>2, <1>3, PoolImplemented, PTL DEF ImplementsPool

-------------------------------------------------------------------------------
(* Startup and the two threads.                                            *)

(* Where main() stands, and what that says of the pool.                    *)
StartInv ==
  /\ ~Serving /\ use[main] # "none" => constructed = 1 /\ page
  /\ ended \in {"page", "login"} => ~Serving
  /\ built \in 0..PoolSize
  /\ constructed >= 2 \/ (\E t \in Threads : use[t] = "begun") => built = PoolSize

(* A thread wants a statement only where its code has one.                 *)
UseInv ==
  /\ pc \in [Threads -> PoolProofs!States]
  /\ use[paho] # "none" => cb = "insert"

IInv == TypeOK /\ StartInv /\ UseInv

(* What a step of the pool does to the threads and to its constructor.     *)
LEMMA EnterEffect ==
  ASSUME pc \in [Threads -> PoolProofs!States], NEW t \in Threads, Pool!Enter(t)
  PROVE  /\ pc[t] = "outside" /\ ~(built < PoolSize) /\ built' = built
         /\ pc' \in [Threads -> PoolProofs!States]
         /\ \A u \in Threads : u # t => pc'[u] = pc[u]
BY DEF Pool!Enter, Pool!TakeIdle, Pool!BeginGrow, Pool!Ready, Pool!MoreToBuild,
       PoolProofs!States

(* The thread was inside, and the others stay where they are.              *)
LEMMA ProceedEffect ==
  ASSUME pc \in [Threads -> PoolProofs!States], NEW t \in Threads, Pool!Proceed(t)
  PROVE  /\ pc[t] # "outside" /\ built' = built
         /\ pc' \in [Threads -> PoolProofs!States]
         /\ \A u \in Threads : u # t => pc'[u] = pc[u]
BY DEF Pool!Proceed, Pool!GrowOk, Pool!GrowFails, Pool!Execute, Pool!ReadAll,
       Pool!GiveBack, Pool!FinishRows, Pool!Ready, PoolProofs!States

(* A round of the constructor moves no thread.                             *)
LEMMA BuildEffect ==
  ASSUME built \in 0..PoolSize, Pool!Build
  PROVE  built < PoolSize /\ built' \in 0..PoolSize /\ pc' = pc
BY ServerAssumption DEF Pool!Build, Pool!Construct, Pool!ConstructFails, Pool!MoreToBuild

(* Before the first step.                                                  *)
LEMMA InitInv == Init => IInv
<1> SUFFICES ASSUME Init PROVE IInv
  OBVIOUS
<1>1. /\ constructed = 0 /\ page = FALSE /\ ended = "no" /\ built = 0
      /\ use = [t \in Threads |-> "none"] /\ pc = [t \in Threads |-> "outside"]
  BY DEF Init, Pool!Init
<1>2. \A t \in Threads : use[t] = "none" /\ pc[t] = "outside"
  BY <1>1
<1>3. ~Serving /\ constructed \in 0..Len(Handlers)
  BY <1>1 DEF Serving, Handlers
<1>4. TypeOK
  BY <1>1, <1>2, <1>3 DEF TypeOK
<1>5. StartInv
  BY <1>1, <1>2, ServerAssumption DEF StartInv, Threads
<1>6. UseInv
  BY <1>1, <1>2 DEF UseInv, Threads, PoolProofs!States
<1> QED
  BY <1>4, <1>5, <1>6 DEF IInv

(* The constructors.                                                       *)
LEMMA ReadPageInv == IInv /\ ReadPage => IInv'
<1> SUFFICES ASSUME IInv, ReadPage PROVE IInv'
  OBVIOUS
<1>1. /\ UNCHANGED <<pc, built, cb, constructed>> /\ ended = "no" /\ ~Serving
      /\ page' \in BOOLEAN /\ ended' \in {"no", "page"}
      /\ \/ use' = use
         \/ Handlers[constructed + 1] = "login" /\ use' = [use EXCEPT ![main] = "wanted"]
  BY DEF ReadPage, poolVars, clientVars, IInv, TypeOK
<1>2. constructed \in 0..8
  BY <1>1 DEF IInv, TypeOK, Serving, Handlers
<1>3. Handlers[constructed + 1] = "login" => constructed = 1
  BY <1>2 DEF Handlers
<1>4. /\ use' \in [Threads -> {"none", "wanted", "begun"}]
      /\ \A t \in Threads : use'[t] = use[t] \/ (t = main /\ use'[t] = "wanted")
  BY <1>1 DEF IInv, TypeOK, Threads
<1>5. pc[main] = "outside" /\ use[main] = "none" /\ (use' # use => page')
  BY <1>1 DEF ReadPage, IInv, TypeOK, StartInv, Threads
<1>6. TypeOK'
  BY <1>1, <1>4, <1>5 DEF IInv, TypeOK
<1>7. StartInv'
  <2>1. Serving' = Serving /\ (use'[main] # "none" => constructed = 1 /\ page')
    BY <1>1, <1>3, <1>5 DEF Serving
  <2>2. (\E t \in Threads : use'[t] = "begun") => \E t \in Threads : use[t] = "begun"
    BY <1>4
  <2> QED
    BY <1>1, <2>1, <2>2 DEF IInv, StartInv
<1>8. UseInv'
  BY <1>1, <1>4 DEF IInv, UseInv, Threads, main, paho
<1> QED
  BY <1>6, <1>7, <1>8 DEF IInv

(* The next handler is constructed only outside the pool.                  *)
LEMMA ConstructedInv == IInv /\ Constructed => IInv'
<1> SUFFICES ASSUME IInv, Constructed PROVE IInv'
  OBVIOUS
<1>1. /\ constructed' = constructed + 1 /\ page' = FALSE /\ ~Serving
      /\ use' = [use EXCEPT ![main] = "none"]
      /\ UNCHANGED <<pc, built, cb, ended>> /\ ended = "no"
  BY DEF Constructed, poolVars, clientVars
<1>2. constructed = 1 => use[main] = "begun" /\ pc[main] = "outside"
  BY DEF Constructed, OwnPartDone, Handlers
<1>3. pc[main] = "outside"
  BY <1>1, <1>2 DEF IInv, TypeOK, StartInv, Threads
<1>4. constructed \in 0..8
  BY <1>1 DEF IInv, TypeOK, Serving, Handlers
<1>5. constructed' >= 2 => built = PoolSize
  BY <1>1, <1>2, <1>4 DEF IInv, StartInv, Threads
<1>6. \A t \in Threads : use'[t] = IF t = main THEN "none" ELSE use[t]
  BY <1>1 DEF IInv, TypeOK
<1>7. TypeOK'
  <2>1. constructed' \in 0..Len(Handlers)
    BY <1>1, <1>4 DEF Handlers
  <2>2. use' \in [Threads -> {"none", "wanted", "begun"}]
    BY <1>1 DEF IInv, TypeOK
  <2> QED
    BY <1>1, <1>3, <1>6, <2>1, <2>2 DEF IInv, TypeOK
<1>8. StartInv'
  BY <1>1, <1>5, <1>6 DEF IInv, StartInv, Threads
<1>9. UseInv'
  BY <1>1, <1>6 DEF IInv, UseInv, Threads, main, paho
<1> QED
  BY <1>7, <1>8, <1>9 DEF IInv

(* The pool is built before any thread is inside it.                       *)
LEMMA BuildPoolInv == IInv /\ BuildPool => IInv'
<1> SUFFICES ASSUME IInv, BuildPool PROVE IInv'
  OBVIOUS
<1>1. Pool!Build /\ ended' \in {"no", "pool"} /\ UNCHANGED <<cb, constructed, page, use>>
  BY DEF BuildPool, clientVars, startVars
<1>2. built < PoolSize /\ built' \in 0..PoolSize /\ pc' = pc
  BY <1>1, BuildEffect DEF IInv, StartInv
<1>3. ~(constructed >= 2) /\ \A t \in Threads : use[t] # "begun"
  BY <1>2, ServerAssumption DEF IInv, StartInv
<1> QED
  BY <1>1, <1>2, <1>3 DEF IInv, TypeOK, StartInv, UseInv, Serving

(* A statement on either thread.                                           *)
LEMMA EnterPoolInv == ASSUME NEW t \in Threads PROVE IInv /\ EnterPool(t) => IInv'
<1> SUFFICES ASSUME IInv, EnterPool(t) PROVE IInv'
  OBVIOUS
<1>1. /\ Pool!Enter(t) /\ use[t] = "wanted" /\ use' = [use EXCEPT ![t] = "begun"]
      /\ UNCHANGED <<cb, constructed, page, ended>>
  BY DEF EnterPool, clientVars, startVars
<1>2. /\ ~(built < PoolSize) /\ built' = built
      /\ pc' \in [Threads -> PoolProofs!States]
      /\ \A u \in Threads : u # t => pc'[u] = pc[u]
  BY <1>1, EnterEffect DEF IInv, UseInv
<1>3. \A u \in Threads : use'[u] = IF u = t THEN "begun" ELSE use[u]
  BY <1>1 DEF IInv, TypeOK
<1>4. built = PoolSize
  BY <1>2, ServerAssumption DEF IInv, StartInv
<1>5. TypeOK'
  BY <1>1, <1>2, <1>3 DEF IInv, TypeOK
<1>6. StartInv'
  BY <1>1, <1>2, <1>3, <1>4 DEF IInv, StartInv, Threads, Serving
<1>7. UseInv'
  BY <1>1, <1>2, <1>3 DEF IInv, UseInv, Threads
<1> QED
  BY <1>5, <1>6, <1>7 DEF IInv

(* A statement that fails ends the process only in a constructor.          *)
LEMMA UsePoolInv == ASSUME NEW t \in Threads PROVE IInv /\ UsePool(t) => IInv'
<1> SUFFICES ASSUME IInv, UsePool(t) PROVE IInv'
  OBVIOUS
<1>1. /\ Pool!Proceed(t) /\ UNCHANGED <<cb, constructed, page, use>>
      /\ ended' \in {"no", "pool", "login"} /\ (ended' = "login" => ~Serving)
  BY DEF UsePool, clientVars, startVars, ThrowsWithoutRows
<1>2. /\ pc[t] # "outside" /\ built' = built
      /\ pc' \in [Threads -> PoolProofs!States]
      /\ \A u \in Threads : u # t => pc'[u] = pc[u]
  BY <1>1, ProceedEffect DEF IInv, UseInv
<1>3. \A u \in Threads : pc'[u] # "outside" => use'[u] = "begun"
  BY <1>1, <1>2 DEF IInv, TypeOK
<1>4. Serving' = Serving
  BY <1>1 DEF Serving
<1> QED
  BY <1>1, <1>2, <1>3, <1>4 DEF IInv, TypeOK, StartInv, UseInv

(* The event loop's steps, and those that concern the client alone.        *)
LEMMA LoopInv ==
  IInv /\ (ConnectClient \/ GetCurve \/ CurveAnswered \/ LensParams \/ LensParamsAnswered
             \/ BadBody \/ GetDirectory \/ Written) => IInv'
<1> SUFFICES ASSUME IInv PROVE
      ConnectClient \/ GetCurve \/ CurveAnswered \/ LensParams \/ LensParamsAnswered
        \/ BadBody \/ GetDirectory \/ Written => IInv'
  OBVIOUS
<1>1. CASE ConnectClient \/ LensParams \/ LensParamsAnswered \/ Written
  <2>1. UNCHANGED <<pc, built, constructed, page, use, ended>>
    BY <1>1 DEF ConnectClient, LensParams, LensParamsAnswered, Written, poolVars, startVars
  <2>2. cb' = cb
    BY <1>1 DEF ConnectClient, LensParams, LensParamsAnswered, Written, Client!StartConnect,
      Client!ConnectReturns, Client!GetConfig, Client!Publish, Client!PublishReturns,
      Client!Written
  <2> QED
    BY <2>1, <2>2 DEF IInv, TypeOK, StartInv, UseInv, Serving
<1>2. CASE GetCurve \/ CurveAnswered
  <2>1. /\ UNCHANGED <<pc, built, cb, constructed, page, ended>>
        /\ Serving /\ pc[main] = "outside"
        /\ \/ use' = [use EXCEPT ![main] = "wanted"]
           \/ use' = [use EXCEPT ![main] = "none"]
    BY <1>2 DEF GetCurve, CurveAnswered, Free, poolVars, clientVars, startVars, IInv, TypeOK,
      Threads
  <2>2. \A t \in Threads : t # main => use'[t] = use[t]
    BY <2>1 DEF IInv, TypeOK
  <2>3. use'[main] \in {"none", "wanted"} /\ use' \in [Threads -> {"none", "wanted", "begun"}]
    BY <2>1 DEF IInv, TypeOK, Threads
  <2>4. TypeOK'
    BY <2>1, <2>2, <2>3 DEF IInv, TypeOK
  <2>5. StartInv'
    BY <2>1, <2>2, <2>3 DEF IInv, StartInv, Threads, Serving
  <2>6. UseInv'
    BY <2>1, <2>2 DEF IInv, UseInv, Threads, main, paho
  <2> QED
    BY <2>4, <2>5, <2>6 DEF IInv
<1>3. CASE BadBody \/ GetDirectory
  BY <1>3 DEF BadBody, GetDirectory, poolVars, clientVars, startVars, IInv, TypeOK, StartInv,
    UseInv, Serving
<1> QED
  BY <1>1, <1>2, <1>3

(* Paho's thread and the environment.                                      *)
LEMMA PahoInv ==
  IInv /\ (MessageArrived \/ InsertReturns \/ Callback \/ Environment) => IInv'
<1> SUFFICES ASSUME IInv PROVE
      MessageArrived \/ InsertReturns \/ Callback \/ Environment => IInv'
  OBVIOUS
<1> USE DEF poolVars, startVars
<1>1. CASE MessageArrived
  <2>1. UNCHANGED <<pc, built, constructed, page, ended>> /\ cb = "idle"
        /\ (use' = use \/ (cb' = "insert" /\ use' = [use EXCEPT ![paho] = "wanted"]))
    <3>1. Client!MessageArrived => cb = "idle"
      BY DEF Client!MessageArrived
    <3> QED
      BY <1>1, <3>1 DEF MessageArrived
  <2>2. use[paho] = "none" /\ pc[paho] = "outside"
    BY <2>1 DEF IInv, UseInv, TypeOK, Threads
  <2>3. \A t \in Threads : use'[t] = use[t] \/ (t = paho /\ use'[t] = "wanted" /\ cb' = "insert")
    BY <2>1 DEF IInv, TypeOK
  <2>4. use' \in [Threads -> {"none", "wanted", "begun"}]
    BY <2>1 DEF IInv, TypeOK, Threads
  <2>5. TypeOK'
    BY <2>1, <2>2, <2>3, <2>4 DEF IInv, TypeOK
  <2>6. StartInv'
    BY <2>1, <2>2, <2>3 DEF IInv, StartInv, Threads, Serving, main, paho
  <2>7. UseInv'
    BY <2>1, <2>2, <2>3 DEF IInv, UseInv, Threads
  <2> QED
    BY <2>5, <2>6, <2>7 DEF IInv
<1>2. CASE InsertReturns
  <2>1. UNCHANGED <<pc, built, constructed, page, ended>> /\ pc[paho] = "outside"
        /\ use' = [use EXCEPT ![paho] = "none"]
    BY <1>2 DEF InsertReturns
  <2>2. \A t \in Threads : use'[t] = IF t = paho THEN "none" ELSE use[t]
    BY <2>1 DEF IInv, TypeOK
  <2>3. TypeOK'
    BY <2>1, <2>2 DEF IInv, TypeOK
  <2>4. StartInv'
    BY <2>1, <2>2 DEF IInv, StartInv, Threads, Serving, main, paho
  <2>5. UseInv'
    BY <2>1, <2>2 DEF IInv, UseInv, Threads
  <2> QED
    BY <2>3, <2>4, <2>5 DEF IInv
<1>3. CASE Callback \/ Environment
  <2>1. UNCHANGED <<pc, built, constructed, page, use, ended>>
    BY <1>3 DEF Callback, Environment
  <2>2. cb' = cb \/ cb # "insert"
    BY <1>3 DEF Callback, Environment, Client!Subscribe, Client!SetConfig, Client!ConnAck,
      Client!Granted, Client!LinkDown, Client!Report, Client!OtherMessage
  <2> QED
    BY <2>1, <2>2 DEF IInv, TypeOK, StartInv, UseInv, Serving
<1> QED
  BY <1>1, <1>2, <1>3

(* Every step preserves the invariant.                                     *)
LEMMA NextInv == IInv /\ [Next]_vars => IInv'
<1> SUFFICES ASSUME IInv, [Next]_vars PROVE IInv'
  OBVIOUS
<1>1. CASE UNCHANGED vars
  BY <1>1 DEF vars, poolVars, clientVars, startVars, IInv, TypeOK, StartInv, UseInv, Serving
<1>2. CASE Main
  BY <1>2, ReadPageInv, ConstructedInv, BuildPoolInv, EnterPoolInv, UsePoolInv, LoopInv
  DEF Main, Threads
<1>3. CASE Paho \/ Environment
  BY <1>3, EnterPoolInv, UsePoolInv, PahoInv DEF Paho, Threads
<1>4. CASE Request \/ Written
  BY <1>4, LoopInv DEF Request
<1> QED
  BY <1>1, <1>2, <1>3, <1>4 DEF Next, Terminated

(* IInv is an invariant of the process (main.cpp and both threads).        *)
THEOREM Invariance == Spec => []IInv
BY InitInv, NextInv, PTL DEF Spec

(* Every variable of the composition keeps its type.                       *)
THEOREM TypeCorrect == Spec => []TypeOK
<1>1. IInv => TypeOK
  BY DEF IInv
<1> QED
  BY <1>1, Invariance, PTL

(* Once it serves, the process ends only by a request, of a body it cannot *)
(* parse or a path that is a directory: for every pool of at least two     *)
(* sessions, whatever MySQL, the broker and Paho's thread do.              *)
THEOREM ProcessSurvivesSafe == Spec => []ProcessSurvives
<1>1. Pool!Cardinality(Threads) = 2
  BY TwoThreads DEF Cardinality, Pool!Cardinality
<1>2. IInv /\ NeverNull => ProcessSurvives
  BY <1>1, ServerAssumption
  DEF IInv, TypeOK, StartInv, NeverNull, Pool!NeverNull, ProcessSurvives, Serving, Handlers
<1> QED
  BY <1>2, Invariance, NeverNullSafe, PTL

-------------------------------------------------------------------------------
(* Startup beside the callback thread.                                     *)

(* What is proved of the client before its connect holds in the process.   *)
LEMMA QuietBeforeConnect == Spec => [](loop = "getInstance" => cb = "idle")
<1>1. ClientProofs!Spec => []ClientProofs!NothingYet
  BY ClientProofs!QuietBeforeConnect, ServerAssumption
<1>2. Client!Spec => ClientProofs!Spec
  BY SameClient, PTL DEF Client!Spec, ClientProofs!Spec
<1>3. ClientProofs!NothingYet => (loop = "getInstance" => cb = "idle")
  BY DEF ClientProofs!NothingYet
<1> QED
  BY <1>1, <1>2, <1>3, ClientImplemented, PTL DEF ImplementsClient

(* Only the fifth handler connects.                                        *)
ConnectInv == loop # "getInstance" => constructed >= 4

(* No step but that handler's takes the client out of getInstance(), and   *)
(* main() destroys no handler it has constructed.                          *)
LEMMA ConnectStep == TypeOK /\ ConnectInv /\ [Next]_vars => ConnectInv'
<1> SUFFICES ASSUME TypeOK, ConnectInv, [Next]_vars PROVE ConnectInv'
  OBVIOUS
<1>1. constructed \in 0..9
  BY DEF TypeOK, Handlers
<1>2. CASE Constructed
  <2>1. constructed' = constructed + 1 /\ loop' = loop
    BY <1>2 DEF Constructed, clientVars
  <2> QED
    BY <1>1, <2>1 DEF ConnectInv
<1>3. CASE ConnectClient
  <2>1. constructed' = constructed /\ ~Serving /\ Handlers[constructed + 1] = "mqtt"
    BY <1>3 DEF ConnectClient, startVars
  <2>2. constructed = 4
    BY <1>1, <2>1 DEF Serving, Handlers
  <2> QED
    BY <2>1, <2>2 DEF ConnectInv
<1>4. CASE LensParams \/ LensParamsAnswered
  <2>1. constructed' = constructed /\ loop # "getInstance"
    BY <1>4 DEF LensParams, LensParamsAnswered, Free, startVars, Client!PublishReturns
  <2> QED
    BY <2>1 DEF ConnectInv
<1>5. CASE UNCHANGED <<constructed, loop>>
  BY <1>5 DEF ConnectInv
<1>6. CASE ReadPage \/ BuildPool \/ CurveAnswered \/ GetCurve \/ BadBody \/ GetDirectory
             \/ \E t \in Threads : EnterPool(t) \/ UsePool(t)
  BY <1>5, <1>6 DEF ReadPage, BuildPool, CurveAnswered, GetCurve, BadBody, GetDirectory,
    EnterPool, UsePool, clientVars, startVars
<1>7. CASE MessageArrived \/ InsertReturns \/ Callback \/ Environment \/ Written
  BY <1>5, <1>7 DEF MessageArrived, InsertReturns, Callback, Environment, Written, startVars,
    Client!MessageArrived, Client!InsertReturns, Client!Subscribe, Client!SetConfig,
    Client!ConnAck, Client!Granted, Client!LinkDown, Client!Report, Client!OtherMessage, Client!Written
<1> QED
  BY <1>2, <1>3, <1>4, <1>5, <1>6, <1>7
  DEF Next, Main, Paho, Request, Terminated, Threads, vars, clientVars, startVars

(* The connect comes after LoginHandler's constructor, and so the callback *)
(* thread finds every session made when it stores its first displacement   *)
(* (main.cpp:25, :28).                                                     *)
THEOREM PoolBuiltFirstSafe == Spec => []PoolBuiltFirst
<1>1. Init => ConnectInv
  BY DEF Init, Client!Init, ConnectInv
<1>2. IInv /\ ConnectInv /\ (loop = "getInstance" => cb = "idle") => PoolBuiltFirst
  <2> SUFFICES ASSUME IInv, ConnectInv, loop = "getInstance" => cb = "idle", use[paho] # "none"
               PROVE  built = PoolSize
    BY DEF PoolBuiltFirst
  <2>1. loop # "getInstance"
    BY DEF IInv, UseInv
  <2>2. constructed >= 2
    BY <2>1 DEF IInv, TypeOK, ConnectInv, Handlers
  <2> QED
    BY <2>2 DEF IInv, StartInv
<1> QED
  BY <1>1, <1>2, ConnectStep, TypeCorrect, Invariance, QuietBeforeConnect, PTL DEF Spec

-------------------------------------------------------------------------------
(* What is proved of the pool, in the process.                             *)

(* The process behaves as the pool's proofs suppose.                       *)
LEMMA PoolBehaves == Spec => PoolProofs!Spec
<1>1. Pool!Spec => PoolProofs!Spec
  BY SamePool, PTL DEF Pool!Spec, PoolProofs!Spec
<1> QED
  BY <1>1, PoolImplemented, PTL DEF ImplementsPool

(* No session is on loan to both threads of the process, or to one of them *)
(* and in the queue.                                                       *)
THEOREM SessionsExclusive == Spec => []Pool!Exclusive
<1>1. PoolProofs!Spec => []PoolProofs!Exclusive
  BY PoolProofs!ExclusiveSafe, PoolConstants
<1>2. PoolProofs!Exclusive <=> Pool!Exclusive
  BY DEF PoolProofs!Exclusive, Pool!Exclusive, PoolProofs!Idle, Pool!Idle
<1> QED
  BY <1>1, <1>2, PoolBehaves, PTL

(* A result set that the curve handler still has to read belongs to a      *)
(* session that lives (kdy_db_api.h:53): what Paho's thread stores         *)
(* meanwhile destroys none.                                                *)
THEOREM RowsLive ==
  Spec => [](\A t \in Threads : rows[t] # NoSession => rows[t] \in Pool!Live)
<1>1. PoolProofs!Spec => []PoolProofs!RowsHaveSession
  BY PoolProofs!RowsSafe, PoolConstants
<1>2. PoolProofs!Cardinality(Threads) = 2
  BY TwoThreads DEF Cardinality, PoolProofs!Cardinality
<1>3. 2 <= 2 * PoolSize
  BY ServerAssumption
<1>4. PoolProofs!RowsHaveSession
        => \A t \in Threads : rows[t] # NoSession => rows[t] \in PoolProofs!Live
  BY <1>2, <1>3 DEF PoolProofs!RowsHaveSession
<1>5. PoolProofs!Live = Pool!Live
  BY DEF PoolProofs!Live, Pool!Live, PoolProofs!Idle, Pool!Idle, PoolProofs!Held, Pool!Held
<1>6. PoolProofs!RowsHaveSession
        => \A t \in Threads : rows[t] # NoSession => rows[t] \in Pool!Live
  BY <1>4, <1>5
<1> QED
  BY <1>1, <1>6, PoolBehaves, PTL

(* The process lends its sessions the way SessionLending says a pool does. *)
THEOREM ProcessLendsExclusively == Spec => PoolProofs!LendsExclusively
<1>1. PoolProofs!Spec => PoolProofs!LendsExclusively
  BY PoolProofs!Refinement, PoolConstants
<1> QED
  BY <1>1, PoolBehaves, PTL

-------------------------------------------------------------------------------
(* What is proved of the client, in the process.                           *)

(* The process behaves as the client's proofs suppose.                     *)
LEMMA ClientBehaves == Spec => ClientProofs!Spec
<1>1. Client!Spec => ClientProofs!Spec
  BY SameClient, PTL DEF Client!Spec, ClientProofs!Spec
<1> QED
  BY <1>1, ClientImplemented, PTL DEF ImplementsClient

(* Startup, requests and the pool never leave the server connected without *)
(* a subscribe() for the displacements and for the camera's reports.       *)
THEOREM ServerAsks == Spec => []Client!AskedInService
<1>1. ClientProofs!Spec => []ClientProofs!AskedInService
  BY ClientProofs!AskedInServiceSafe, ServerAssumption
<1>2. ClientProofs!AskedInService <=> Client!AskedInService
  BY DEF ClientProofs!AskedInService, Client!AskedInService,
         ClientProofs!Topics, Client!Topics, ClientProofs!Distance, Client!Distance,
         ClientProofs!CameraMessage, Client!CameraMessage
<1> QED
  BY <1>1, <1>2, ClientBehaves, PTL

(* Nor do they make it drop a camera report that has arrived.              *)
THEOREM ServerKeepsReports == Spec => Client!NoReportDropped
<1>1. ClientProofs!Spec => ClientProofs!NoReportDropped
  BY ClientProofs!NoReportDroppedSafe, ServerAssumption
<1>2. \A n : /\ ClientProofs!InHand(n) <=> Client!InHand(n)
             /\ ClientProofs!InHand(n)' <=> Client!InHand(n)'
  BY DEF ClientProofs!InHand, Client!InHand
<1>3. [\A n \in 1..MaxReports :
         ClientProofs!InHand(n) /\ losses' = losses
           => ClientProofs!InHand(n)' \/ config' >= n]_(ClientProofs!vars)
      <=> [\A n \in 1..MaxReports :
         Client!InHand(n) /\ losses' = losses
           => Client!InHand(n)' \/ config' >= n]_(Client!vars)
  BY <1>2 DEF ClientProofs!vars, Client!vars
<1> QED
  BY <1>1, <1>3, ClientBehaves, PTL DEF Client!NoReportDropped, ClientProofs!NoReportDropped
===============================================================================
