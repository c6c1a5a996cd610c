--------------------------- MODULE MQTTClientProofs ---------------------------
(***************************************************************************)
(* What MQTTClient does with the camera's reports and its subscriptions,   *)
(* proved for any number of reports, of losses and of waiting messages.    *)
(***************************************************************************)
EXTENDS MQTTClient, SequenceTheorems, TLAPS

(* Taking out the first message leaves the others as they were.            *)
LEMMA TailFirst ==
  ASSUME NEW S, NEW q \in Seq(S), q # <<>>
  PROVE  /\ Head(q) = q[1] /\ Head(q) \in S
         /\ Tail(q) \in Seq(S)
         /\ Len(Tail(q)) = Len(q) - 1
         /\ \A i \in 1..Len(q) - 1 : Tail(q)[i] = q[i + 1]
  BY HeadTailProperties

(* Appending keeps what waits, with the new message last.                  *)
LEMMA AppendLast ==
  ASSUME NEW S, NEW q \in Seq(S), NEW e \in S
  PROVE  /\ Append(q, e) \in Seq(S)
         /\ Len(Append(q, e)) = Len(q) + 1
         /\ \A i \in 1..Len(q) : Append(q, e)[i] = q[i]
         /\ Append(q, e)[Len(q) + 1] = e
  BY AppendProperties, LenProperties

(* The messages that wait, and the numbers of the present state.           *)
LEMMA Facts ==
  ASSUME TypeOK
  PROVE  /\ MaxReports \in Nat /\ MaxQueue \in Nat /\ MaxLosses \in Nat
         /\ reported \in 0..MaxReports /\ msg \in 0..MaxReports
         /\ queue \in Seq(-1..MaxReports) /\ Len(queue) \in Nat /\ Len(queue) <= MaxQueue
         /\ DOMAIN queue = 1..Len(queue)
<1>1. /\ reported \in 0..MaxReports /\ msg \in 0..MaxReports
      /\ queue \in Seq(-1..MaxReports) /\ Len(queue) <= MaxQueue
  BY DEF TypeOK
<1> QED
  BY <1>1, LenProperties, MQTTAssumption

-------------------------------------------------------------------------------
(* Types.                                                                  *)

(* The client starts with an empty queue and nothing applied.             *)
LEMMA InitType == Init => TypeOK
<1> SUFFICES ASSUME Init PROVE TypeOK
  OBVIOUS
<1>1. queue = <<>> /\ queue \in Seq(-1..MaxReports) /\ Len(queue) = 0
  BY DEF Init
<1> QED
  BY <1>1, MQTTAssumption DEF Init, TypeOK, Topics

(* Taking a message out of the queue: its report, if it is one, goes to    *)
(* the callback.                                                           *)
LEMMA MessageArrivedType == TypeOK /\ MessageArrived => TypeOK'
<1> SUFFICES ASSUME TypeOK, MessageArrived PROVE TypeOK'
  OBVIOUS
<1> DEFINE m == Head(queue)
<1>1. queue # <<>> /\ queue' = Tail(queue)
      /\ UNCHANGED <<loop, link, asked, subs, token, config, shown, reported, losses>>
  BY DEF MessageArrived
<1>2. /\ m \in -1..MaxReports
      /\ queue' \in Seq(-1..MaxReports) /\ Len(queue') = Len(queue) - 1
  BY <1>1, Facts, TailFirst
<1>3. /\ msg' = IF m > 0 THEN m ELSE 0
      /\ cb' \in {"idle", "insert", "setCameraConfig"}
  BY DEF MessageArrived, AfterMalformed
<1>4. msg' \in 0..MaxReports
  <2>1. MaxReports \in Nat
    BY Facts
  <2> HIDE DEF m
  <2> QED
    BY <1>2, <1>3, <2>1
<1>5. Len(queue') <= MaxQueue
  BY <1>2, Facts
<1> QED
  BY <1>1, <1>2, <1>3, <1>4, <1>5 DEF TypeOK

(* A message joins the queue where there is room for it.                   *)
LEMMA QueuedType ==
  ASSUME TypeOK, NEW m \in -1..MaxReports, Len(queue) < MaxQueue,
         queue' \in {queue, Append(queue, m)}, reported' \in 0..MaxReports,
         UNCHANGED <<loop, cb, msg, link, asked, subs, token, config, shown, losses>>
  PROVE  TypeOK'
<1>1. queue' \in Seq(-1..MaxReports) /\ Len(queue') <= MaxQueue
  <2>1. CASE queue' = queue
    BY <2>1, Facts
  <2>2. CASE queue' = Append(queue, m)
    BY <2>2, Facts, AppendLast
  <2> QED
    BY <2>1, <2>2
<1> QED
  BY <1>1 DEF TypeOK

(* A report of the camera joins the queue, or is lost.                     *)
LEMMA ReportType == TypeOK /\ Report => TypeOK'
<1> SUFFICES ASSUME TypeOK, Report PROVE TypeOK'
  OBVIOUS
<1>1. /\ reported < MaxReports /\ reported' = reported + 1 /\ Len(queue) < MaxQueue
      /\ queue' \in {queue, Append(queue, reported + 1)}
      /\ UNCHANGED <<loop, cb, msg, link, asked, subs, token, config, shown, losses>>
  BY DEF Report
<1>2. reported + 1 \in -1..MaxReports /\ reported' \in 0..MaxReports
  BY <1>1, Facts
<1> QED
  BY <1>1, <1>2, QueuedType

(* So does a displacement or a malformed message.                          *)
LEMMA OtherMessageType ==
  ASSUME NEW m \in {Displacement, Malformed} PROVE TypeOK /\ OtherMessage(m) => TypeOK'
<1> SUFFICES ASSUME TypeOK, OtherMessage(m) PROVE TypeOK'
  OBVIOUS
<1>1. /\ reported' = reported /\ Len(queue) < MaxQueue /\ queue' = Append(queue, m)
      /\ UNCHANGED <<loop, cb, msg, link, asked, subs, token, config, shown, losses>>
  BY DEF OtherMessage
<1>2. m \in -1..MaxReports /\ reported' \in 0..MaxReports
  BY <1>1, Facts DEF Displacement, Malformed
<1> QED
  BY <1>1, <1>2, QueuedType

(* The loss of the link may drop what waits.                               *)
LEMMA LinkDownType == TypeOK /\ LinkDown => TypeOK'
<1> SUFFICES ASSUME TypeOK, LinkDown PROVE TypeOK'
  OBVIOUS
<1>1. /\ UNCHANGED <<loop, cb, msg, config, shown, reported>>
      /\ asked' = {} /\ subs' = {} /\ link' = "down"
      /\ losses < MaxLosses /\ losses' = losses + 1
      /\ token' \in {token, "failed"}
      /\ queue' \in {queue, <<>>}
  BY DEF LinkDown
<1>2. losses' \in 0..MaxLosses
  BY <1>1, MQTTAssumption DEF TypeOK
<1>3. queue' \in Seq(-1..MaxReports) /\ Len(queue') <= MaxQueue
  <2>1. CASE queue' = queue
    BY <2>1, Facts
  <2>2. CASE queue' = <<>>
    BY <2>2, MQTTAssumption
  <2> QED
    BY <1>1, <2>1, <2>2
<1> QED
  BY <1>1, <1>2, <1>3 DEF TypeOK

(* The other steps leave the queue alone.                                  *)
LEMMA NextType == TypeOK /\ [Next]_vars => TypeOK'
<1> SUFFICES ASSUME TypeOK, [Next]_vars PROVE TypeOK'
  OBVIOUS
<1>1. CASE StartConnect \/ ConnectReturns
  BY <1>1 DEF StartConnect, ConnectReturns, TypeOK
<1>2. CASE Publish \/ PublishReturns
  BY <1>2 DEF Publish, PublishReturns, TypeOK
<1>3. CASE GetConfig
  BY <1>3 DEF GetConfig, TypeOK
<1>4. CASE Subscribe
  BY <1>4 DEF Subscribe, CameraTopic, TypeOK, Topics
<1>5. CASE MessageArrived
  BY <1>5, MessageArrivedType
<1>6. CASE InsertReturns
  BY <1>6 DEF InsertReturns, TypeOK
<1>7. CASE SetConfig
  BY <1>7, MQTTAssumption DEF SetConfig, TypeOK
<1>8. CASE ConnAck
  BY <1>8 DEF ConnAck, OnConnected, TypeOK
<1>9. CASE Granted
  BY <1>9 DEF Granted, TypeOK
<1>10. CASE LinkDown
  BY <1>10, LinkDownType
<1>11. CASE Written
  BY <1>11 DEF Written, TypeOK
<1>12. CASE Report
  BY <1>12, ReportType
<1>13. CASE \E m \in {Displacement, Malformed} : OtherMessage(m)
  BY <1>13, OtherMessageType
<1>14. CASE UNCHANGED vars
  BY <1>14 DEF vars, TypeOK
<1> QED
  BY <1>1, <1>2, <1>3, <1>4, <1>5, <1>6, <1>7, <1>8, <1>9, <1>10, <1>11, <1>12,
     <1>13, <1>14 DEF Next, EventLoop, CallbackThread

(* Every variable keeps its type: no callback can leave the thread in a    *)
(* state it has no code for, and no subscription goes to a wrong topic or  *)
(* outlives its connection.                                                *)
THEOREM TypeCorrect == Spec => []TypeOK
  BY InitType, NextType, PTL DEF Spec

-------------------------------------------------------------------------------
(* Subscriptions.  connected() is between its two calls only with the      *)
(* first topic asked for, and no connection is made while it runs.         *)
AskedInv ==
  /\ AskedInService
  /\ link = "up" /\ cb = "subscribeCamera" => Distance \in asked

(* Every step of connected(), of the link and of the other callbacks.      *)
LEMMA AskedStep == TypeOK /\ AskedInv /\ [Next]_vars => AskedInv'
<1> SUFFICES ASSUME TypeOK, AskedInv, [Next]_vars PROVE AskedInv'
  OBVIOUS
<1> USE DEF AskedInv, AskedInService
<1>1. CASE Subscribe
  <2>1. link' = link /\ asked \subseteq Topics
    BY <1>1 DEF Subscribe, TypeOK
  <2>2. CASE link # "up"
    BY <2>1, <2>2
  <2>3. CASE link = "up" /\ cb = "subscribeDistance"
    BY <1>1, <2>1, <2>3 DEF Subscribe
  <2>4. CASE link = "up" /\ cb = "subscribeCamera"
    <3>1. asked' = asked \cup {CameraMessage} /\ cb' = "idle"
      BY <1>1, <2>4 DEF Subscribe, CameraTopic
    <3> QED
      BY <2>1, <2>4, <3>1 DEF Topics
  <2> QED
    BY <1>1, <2>2, <2>3, <2>4 DEF Subscribe
<1>2. CASE ConnAck
  BY <1>2 DEF ConnAck, OnConnected
<1>3. CASE LinkDown \/ StartConnect
  BY <1>3 DEF LinkDown, StartConnect
<1>4. CASE MessageArrived \/ InsertReturns \/ SetConfig
  <2>1. UNCHANGED <<link, asked>> /\ cb \notin {"subscribeDistance", "subscribeCamera"}
    BY <1>4 DEF MessageArrived, InsertReturns, SetConfig
  <2>2. cb' \notin {"subscribeDistance", "subscribeCamera"}
    BY <1>4 DEF MessageArrived, InsertReturns, SetConfig, AfterMalformed
  <2> QED
    BY <2>1, <2>2
<1>5. CASE UNCHANGED <<link, asked, cb>>
  BY <1>5
<1> QED
  BY <1>1, <1>2, <1>3, <1>4, <1>5
  DEF Next, EventLoop, CallbackThread, ConnectReturns, PublishReturns, Publish, GetConfig,
      Granted, Written, Report, OtherMessage, vars

(* Whenever connected() is not running, both topics have been asked for on *)
(* an open connection (mqtt.cpp:11), after any number of losses.           *)
THEOREM AskedInServiceSafe == Spec => []AskedInService
<1>1. Init => AskedInv
  BY DEF Init, AskedInv, AskedInService
<1>2. AskedInv => AskedInService
  BY DEF AskedInv
<1> QED
  BY <1>1, <1>2, AskedStep, TypeCorrect, PTL DEF Spec

-------------------------------------------------------------------------------
(* Reports under way.                                                      *)

(* A callback takes the first message out of the queue: a report that was  *)
(* waiting is at work now, or waits one place further to the front.        *)
LEMMA TakenReport ==
  ASSUME TypeOK, MessageArrived, NEW n \in 1..MaxReports, InHand(n)
  PROVE  InHand(n)'
<1>1. /\ queue \in Seq(-1..MaxReports) /\ Len(queue) \in Nat /\ queue # <<>> /\ cb = "idle"
      /\ DOMAIN queue = 1..Len(queue)
  BY Facts DEF MessageArrived
<1>2. PICK i \in 1..Len(queue) : queue[i] = n
  BY <1>1 DEF InHand
<1>3. CASE i = 1
  <2>1. Head(queue) = n /\ n > 0 /\ n # Malformed /\ n # Displacement
    BY <1>1, <1>2, <1>3, TailFirst DEF Malformed, Displacement
  <2>2. cb' = "setCameraConfig" /\ msg' = n
    BY <2>1 DEF MessageArrived
  <2> QED
    BY <2>2 DEF InHand
<1>4. CASE i # 1
  <2>1. /\ queue' \in Seq(-1..MaxReports) /\ Len(queue') = Len(queue) - 1
        /\ \A j \in 1..Len(queue) - 1 : queue'[j] = queue[j + 1]
    <3>1. queue' = Tail(queue)
      BY DEF MessageArrived
    <3> QED
      BY <1>1, <3>1, TailFirst
  <2>2. i - 1 \in 1..Len(queue) - 1 /\ i - 1 + 1 = i
    BY <1>1, <1>4
  <2>3. queue'[i - 1] = n
    BY <1>2, <2>1, <2>2
  <2>4. i - 1 \in DOMAIN queue'
    BY <2>1, <2>2, LenProperties
  <2> QED
    BY <2>3, <2>4 DEF InHand
<1> QED
  BY <1>3, <1>4

(* A message more at the end leaves those that wait where they are.        *)
LEMMA WaitingReport ==
  ASSUME TypeOK, NEW m \in -1..MaxReports, queue' \in {queue, Append(queue, m)},
         UNCHANGED <<cb, msg>>, NEW n \in 1..MaxReports, InHand(n)
  PROVE  InHand(n)'
<1>1. queue \in Seq(-1..MaxReports) /\ DOMAIN queue = 1..Len(queue) /\ Len(queue) \in Nat
  BY Facts
<1>2. CASE queue' = queue
  BY <1>2 DEF InHand
<1>3. CASE queue' = Append(queue, m)
  <2>1. queue' \in Seq(-1..MaxReports) /\ Len(queue') = Len(queue) + 1
        /\ \A i \in 1..Len(queue) : queue'[i] = queue[i]
    BY <1>1, <1>3, AppendLast
  <2>2. DOMAIN queue' = 1..Len(queue) + 1
    BY <2>1, LenProperties
  <2>3. \A i \in DOMAIN queue : i \in DOMAIN queue' /\ queue'[i] = queue[i]
    BY <1>1, <2>1, <2>2
  <2> QED
    BY <2>3 DEF InHand
<1> QED
  BY <1>2, <1>3

(* No step but a loss of the link drops a report.                          *)
LEMMA KeptStep ==
  ASSUME TypeOK, [Next]_vars, NEW n \in 1..MaxReports, InHand(n), losses' = losses
  PROVE  InHand(n)' \/ config' >= n
<1>1. CASE MessageArrived
  BY <1>1, TakenReport
<1>2. CASE SetConfig
  <2>1. config' = msg /\ UNCHANGED queue
    BY <1>2 DEF SetConfig
  <2>2. CASE \E i \in DOMAIN queue : queue[i] = n
    BY <2>1, <2>2 DEF InHand
  <2>3. CASE msg = n
    BY <2>1, <2>3
  <2> QED
    BY <2>2, <2>3 DEF InHand
<1>3. CASE Report
  <2>1. reported + 1 \in -1..MaxReports
    BY <1>3, Facts DEF Report
  <2>2. queue' \in {queue, Append(queue, reported + 1)} /\ UNCHANGED <<cb, msg>>
    BY <1>3 DEF Report
  <2> QED
    BY <2>1, <2>2, WaitingReport
<1>4. CASE \E m \in {Displacement, Malformed} : OtherMessage(m)
  <2>1. PICK m \in {Displacement, Malformed} : OtherMessage(m)
    BY <1>4
  <2>2. m \in -1..MaxReports
    BY Facts DEF Displacement, Malformed
  <2>3. queue' \in {queue, Append(queue, m)} /\ UNCHANGED <<cb, msg>>
    BY <2>1 DEF OtherMessage
  <2> QED
    BY <2>2, <2>3, WaitingReport
<1>5. CASE LinkDown
  <2>1. losses' = losses + 1 /\ losses \in Nat
    BY <1>5, MQTTAssumption DEF LinkDown, TypeOK
  <2> QED
    BY <2>1
<1>6. CASE UNCHANGED queue /\ UNCHANGED msg /\ (cb = "setCameraConfig" => cb' = cb)
  BY <1>6 DEF InHand
<1>7. CASE Subscribe \/ InsertReturns \/ ConnAck \/ Granted
  <2>1. UNCHANGED queue /\ UNCHANGED msg /\ (cb # "setCameraConfig" \/ cb' = cb)
    BY <1>7 DEF Subscribe, InsertReturns, ConnAck, Granted, TypeOK
  <2> QED
    BY <1>6, <2>1
<1> QED
  BY <1>1, <1>2, <1>3, <1>4, <1>5, <1>6, <1>7
  DEF Next, EventLoop, CallbackThread, StartConnect, ConnectReturns, PublishReturns, Publish,
      GetConfig, Written, vars

(* Only a loss of the link makes the client drop a report it has received: *)
(* neither messages that cannot be parsed nor call_once do.                *)
THEOREM NoReportDroppedSafe == Spec => NoReportDropped
<1>1. TypeOK /\ [Next]_vars =>
        [\A n \in 1..MaxReports :
           InHand(n) /\ losses' = losses => InHand(n)' \/ config' >= n]_vars
  BY KeptStep
<1> QED
  BY <1>1, TypeCorrect, PTL DEF Spec, NoReportDropped

-------------------------------------------------------------------------------
(* Before the connect.                                                     *)

(* Until getInstance() connects, nothing can call back.                    *)
NothingYet ==
  loop = "getInstance" => link = "none" /\ cb = "idle" /\ subs = {} /\ queue = <<>>

(* Paho's thread has nothing to do until the event-loop thread is in       *)
(* connect(): no callback runs, and no message waits for one.              *)
THEOREM QuietBeforeConnect == Spec => []NothingYet
<1>1. Init => NothingYet
  BY DEF Init, NothingYet
<1>2. ASSUME NothingYet, [Next]_vars PROVE NothingYet'
  <2>1. CASE loop' # "getInstance"
    BY <2>1 DEF NothingYet
  <2>2. CASE loop' = "getInstance"
    <3>1. loop = "getInstance" /\ link = "none" /\ cb = "idle" /\ subs = {} /\ queue = <<>>
      BY <1>2, <2>2 DEF NothingYet, Next, EventLoop, StartConnect, ConnectReturns,
        PublishReturns, Publish, GetConfig, CallbackThread, Subscribe, MessageArrived,
        InsertReturns, SetConfig, ConnAck, Granted, LinkDown, Written, Report, OtherMessage, vars
    <3>2. link' = "none" /\ cb' = "idle" /\ subs' = {} /\ queue' = <<>>
      BY <1>2, <2>2, <3>1 DEF Next, EventLoop, StartConnect, ConnectReturns,
        PublishReturns, Publish, GetConfig, CallbackThread, Subscribe, MessageArrived,
        InsertReturns, SetConfig, ConnAck, Granted, LinkDown, Written, Report, OtherMessage, vars
    <3> QED
      BY <3>2 DEF NothingYet
  <2> QED
    BY <2>1, <2>2
<1> QED
  BY <1>1, <1>2, PTL DEF Spec
===============================================================================
