------------------------------ MODULE MQTTClient ------------------------------
(***************************************************************************)
(* rtp::MQTTClient and rtp::MQTTClientCallback (src/rtp/mqtt.cpp): one     *)
(* connection to the broker, shared by the event-loop thread, which makes  *)
(* it, publishes commands to the camera and reads the last configuration   *)
(* the camera reported, and by Paho's callback thread, which subscribes    *)
(* and receives.                                                           *)
(*                                                                         *)
(* Paho's callback thread reads the socket: while a callback runs it sees  *)
(* neither a message nor the broker's answer to a connect.  Everything is  *)
(* QoS 0 on a clean session: what is published while the link is down, or  *)
(* is queued when it goes down, may be lost.  That messages are handed     *)
(* over in the order in which they came, and that a SUBSCRIBE does not     *)
(* outlive its connection, is Paho's part.                                 *)
(*                                                                         *)
(* The camera numbers its reports 1, 2, ...; the number stands for the     *)
(* CameraConfig in it.  Two numbers below 1 stand for the other messages:  *)
(* a Displacement to store, and one whose payload cannot be parsed.        *)
(***************************************************************************)
EXTENDS Integers, Sequences

CONSTANTS
  MaxReports,  (* bound: reports the camera makes                           *)
  MaxLosses,   (* bound: how often the link goes down                       *)
  MaxQueue     (* bound: messages waiting in the client                     *)

ASSUME MQTTAssumption == MaxReports \in Nat /\ MaxLosses \in Nat /\ MaxQueue \in Nat

VARIABLES
  loop,      (* where the event-loop thread is                              *)
  cb,        (* what the callback thread is doing                           *)
  msg,       (* the report process_camera_data works on                     *)
  link,      (* the connection to the broker                                *)
  asked,     (* the topics subscribe() was called for in this session       *)
  subs,      (* those the broker has granted, and sends us                  *)
  queue,     (* messages received and not yet passed to message_arrived     *)
  token,     (* the delivery token of the last publish                      *)
  config,    (* current_camera_config; 0 is the default one                 *)
  shown,     (* the configuration the last GET answered with                *)
  reported,  (* the last report the camera made                             *)
  losses     (* how often the link has gone down                            *)

vars == <<loop, cb, msg, link, asked, subs, queue, token, config, shown, reported, losses>>

Distance == "/distance"       (* DISTANCE_TOPIC       *)
CameraMessage == "/CCC"       (* CAMERA_MESSAGE_TOPIC *)
Control == "/camera_params"   (* CAMERA_CONTROL_TOPIC *)

Displacement == 0
Malformed == -1

Init ==
  /\ loop = "getInstance" /\ cb = "idle" /\ msg = 0
  /\ link = "none" /\ asked = {} /\ subs = {} /\ queue = <<>> /\ token = "none"
  /\ config = 0 /\ shown = 0 /\ reported = 0 /\ losses = 0

-------------------------------------------------------------------------------
(* The event-loop thread: getInstance() and connect(), inside call_once.   *)

StartConnect ==
  /\ loop = "getInstance"
  /\ loop' = "connect"
  /\ link' = "attempt"
  /\ UNCHANGED <<cb, msg, asked, subs, queue, token, config, shown, reported, losses>>

(* conntok->wait_for(10 s) comes back with an answer or without one.       *)
WaitOver_Untimed == link # "attempt"
WaitOver == TRUE

(* The result is only logged; call_once is done.                           *)
ConnectReturns ==
  /\ loop = "connect" /\ WaitOver
  /\ loop' = "serving"
  /\ UNCHANGED <<cb, msg, link, asked, subs, queue, token, config, shown, reported, losses>>

(* POST: publish() throws when there is no connection, and the handler     *)
(* answers "Ok" all the same.                                              *)
Publish ==
  /\ loop = "serving" /\ link = "up"
  /\ loop' = "waiting"
  /\ token' = "pending"
  /\ UNCHANGED <<cb, msg, link, asked, subs, queue, config, shown, reported, losses>>

(* pub_token->wait(), without a timeout: it returns when the message is    *)
(* written and throws when the token fails.                                *)
TokenOver_OnSuccess == token = "written"
TokenOver == token # "pending"

PublishReturns ==
  /\ loop = "waiting" /\ TokenOver
  /\ loop' = "serving"
  /\ UNCHANGED <<cb, msg, link, asked, subs, queue, token, config, shown, reported, losses>>

(* GET: a copy of the configuration, taken under client_mtx.               *)
GetConfig ==
  /\ loop = "serving"
  /\ shown' = config
  /\ UNCHANGED <<loop, cb, msg, link, asked, subs, queue, token, config, reported, losses>>

-------------------------------------------------------------------------------
(* The callback thread.                                                    *)

(* connected() runs after every connection, the first or a later one.      *)
OnConnected_FirstOnly == IF losses = 0 THEN "subscribeDistance" ELSE "idle"
OnConnected == "subscribeDistance"

(* connected(): two subscribe() calls; one on a broken connection throws,  *)
(* and ends the callback.  Each only queues a SUBSCRIBE: nobody looks at   *)
(* its token, and connected() returns before the broker has answered.      *)
CameraTopic_Control == Control
CameraTopic == CameraMessage

Subscribe ==
  /\ \/ /\ link # "up" /\ cb \in {"subscribeDistance", "subscribeCamera"}
        /\ cb' = "idle"
        /\ UNCHANGED asked
     \/ /\ link = "up" /\ cb = "subscribeDistance"
        /\ asked' = asked \cup {Distance}
        /\ cb' = "subscribeCamera"
     \/ /\ link = "up" /\ cb = "subscribeCamera"
        /\ asked' = asked \cup {CameraTopic}
        /\ cb' = "idle"
  /\ UNCHANGED <<loop, msg, link, subs, queue, token, config, shown, reported, losses>>

(* What message_arrived does with a message it cannot parse: it catches.   *)
AfterMalformed_Uncaught == "dead"
AfterMalformed == "idle"

(* message_arrived(), up to the call that may block.                       *)
MessageArrived ==
  /\ cb = "idle" /\ queue # <<>>
  /\ LET m == Head(queue)
     IN /\ cb' = CASE m = Malformed -> AfterMalformed
                   [] m = Displacement -> "insert"
                   [] OTHER -> "setCameraConfig"
        /\ msg' = IF m > 0 THEN m ELSE 0
  /\ queue' = Tail(queue)
  /\ UNCHANGED <<loop, link, asked, subs, token, config, shown, reported, losses>>

(* process_distance_data(): the insertion succeeds, or its exception is    *)
(* swallowed (DBConnectionPool models the session it takes).               *)
InsertReturns ==
  /\ cb = "insert"
  /\ cb' = "idle"
  /\ UNCHANGED <<loop, msg, link, asked, subs, queue, token, config, shown, reported, losses>>

(* What process_camera_data() waits for: getInstance(), until call_once is *)
(* done.  No other wait of the event loop keeps client_mtx.                *)
MaySet_LockedByPost == loop = "serving"
MaySet == loop \notin {"getInstance", "connect"}

(* process_camera_data().                                                  *)
SetConfig_NotWaiting ==
  /\ cb = "setCameraConfig"
  /\ config' = IF MaySet THEN msg ELSE config
  /\ msg' = 0
  /\ cb' = "idle"
  /\ UNCHANGED <<loop, link, asked, subs, queue, token, shown, reported, losses>>
SetConfig ==
  /\ cb = "setCameraConfig" /\ MaySet
  /\ config' = msg
  /\ msg' = 0
  /\ cb' = "idle"
  /\ UNCHANGED <<loop, link, asked, subs, queue, token, shown, reported, losses>>

-------------------------------------------------------------------------------
(* Paho, the network, the broker and the camera.                           *)

(* CONNACK, of the first connect (it may come after connect() has given    *)
(* up) or of an automatic reconnect; the callback thread goes straight on  *)
(* to connected().                                                         *)
ConnAck ==
  /\ link \in {"attempt", "down"} /\ cb = "idle"
  /\ link' = "up"
  /\ cb' = OnConnected
  /\ UNCHANGED <<loop, msg, asked, subs, queue, token, config, shown, reported, losses>>

(* The broker grants a subscription.  It may never do so: it may refuse    *)
(* the SUBSCRIBE, or leave it unanswered.                                  *)
Granted ==
  /\ link = "up"
  /\ \E t \in asked \ subs : subs' = subs \cup {t}
  /\ UNCHANGED <<loop, cb, msg, link, asked, queue, token, config, shown, reported, losses>>

(* The first connect fails, or a connection is lost: the session is gone,  *)
(* a publish under way may fail or stay in Paho's queue until there is a   *)
(* connection again, and received messages may be dropped.  Of this the    *)
(* program learns nothing but a line in its log.                           *)
LinkDown ==
  /\ link \in {"attempt", "up"} /\ losses < MaxLosses
  /\ link' = "down"
  /\ losses' = losses + 1
  /\ asked' = {} /\ subs' = {}
  /\ token' \in IF token = "pending" THEN {"pending", "failed"} ELSE {token}
  /\ queue' \in {queue, <<>>}
  /\ UNCHANGED <<loop, cb, msg, config, shown, reported>>

(* The pending publish is written to the socket.                           *)
Written ==
  /\ token = "pending" /\ link = "up"
  /\ token' = "written"
  /\ UNCHANGED <<loop, cb, msg, link, asked, subs, queue, config, shown, reported, losses>>

(* The camera reports; the broker passes it on if we are subscribed.       *)
Report ==
  /\ reported < MaxReports /\ Len(queue) < MaxQueue
  /\ reported' = reported + 1
  /\ queue' = IF CameraMessage \in subs THEN Append(queue, reported + 1) ELSE queue
  /\ UNCHANGED <<loop, cb, msg, link, asked, subs, token, config, shown, losses>>

(* Another message on one of the topics.                                   *)
OtherMessage(m) ==
  /\ Len(queue) < MaxQueue
  /\ IF m = Displacement THEN Distance \in subs ELSE subs # {}
  /\ queue' = Append(queue, m)
  /\ UNCHANGED <<loop, cb, msg, link, asked, subs, token, config, shown, reported, losses>>

EventLoop == StartConnect \/ ConnectReturns \/ PublishReturns

CallbackThread == Subscribe \/ MessageArrived \/ InsertReturns \/ SetConfig

Next ==
  \/ EventLoop \/ Publish \/ GetConfig
  \/ CallbackThread
  \/ ConnAck \/ Granted \/ LinkDown \/ Written \/ Report
  \/ \E m \in {Displacement, Malformed} : OtherMessage(m)

(* Both threads run whenever they can, and Paho's sender thread writes     *)
(* what is queued while there is a connection.  Network and broker owe     *)
(* nothing: a connection may never be made, a subscription never granted.  *)
Fairness == WF_vars(EventLoop) /\ WF_vars(CallbackThread) /\ WF_vars(Written)

Spec == Init /\ [][Next]_vars
FairSpec == Spec /\ Fairness

-------------------------------------------------------------------------------
Topics == {Distance, CameraMessage}

(* The type of every variable.                                             *)
TypeOK ==
  /\ loop \in {"getInstance", "connect", "serving", "waiting"}
  /\ cb \in {"idle", "subscribeDistance", "subscribeCamera", "insert", "setCameraConfig"}
  /\ msg \in 0..MaxReports
  /\ link \in {"none", "attempt", "up", "down"}
  /\ asked \subseteq Topics /\ subs \subseteq asked
  /\ queue \in Seq(-1..MaxReports) /\ Len(queue) <= MaxQueue
  /\ token \in {"none", "pending", "written", "failed"}
  /\ config \in 0..MaxReports /\ shown \in 0..MaxReports /\ reported \in 0..MaxReports
  /\ losses \in 0..MaxLosses

(* Whenever connected() is not running, both topics have been asked for on *)
(* an open connection: no loss of the link, also between its two calls,    *)
(* leaves the client connected without a subscribe() for one of them in    *)
(* this session (mqtt.cpp:11).                                             *)
AskedInService ==
  link = "up" /\ cb \notin {"subscribeDistance", "subscribeCamera"} => asked = Topics

(* Report n waits, or message_arrived() is working on it.                  *)
InHand(n) ==
  \/ \E i \in DOMAIN queue : queue[i] = n
  \/ cb = "setCameraConfig" /\ msg = n

(* Only a loss of the link makes the client drop a report it has: not a    *)
(* message that cannot be parsed, not a callback that comes while main()   *)
(* is still in call_once, and not a newer report behind it.                *)
NoReportDropped ==
  [][\A n \in 1..MaxReports :
       InHand(n) /\ losses' = losses => InHand(n)' \/ config' >= n]_vars

(* The server comes up whether or not the broker ever answers.             *)
StartupEnds == <>(loop = "serving")

(* A POST holds the event loop, and with it the whole HTTP server, only    *)
(* for as long as there is no connection: pub_token->wait() has no timeout *)
(* and its exception must not be missed.                                   *)
LoopComesBack == loop = "waiting" ~> (loop = "serving" \/ link # "up")

(* Every callback returns, and with it the thread that reads the socket:   *)
(* what it waits for (call_once, client_mtx) is never kept by an event     *)
(* loop that waits for the broker, and so for this thread.                 *)
CallbackReturns == cb # "idle" ~> cb = "idle"

(* On a connection that stays up both topics are asked for, also after any *)
(* number of losses, also when one hit connected() between its two calls.  *)
Resubscribes == link = "up" ~> (asked = Topics \/ link = "down")

(* A report that reached the client ends up in the configuration, or is    *)
(* overtaken by a newer one, unless the link goes down: neither messages   *)
(* that cannot be parsed nor the wait for call_once lose it.               *)
ReportsArrive ==
  \A n \in 1..MaxReports :
    (\E i \in DOMAIN queue : queue[i] = n) ~> (config >= n \/ link = "down")
===============================================================================
