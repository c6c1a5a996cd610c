------------------------------ MODULE KdyServer ------------------------------
(***************************************************************************)
(* The whole process (src/main.cpp): main() constructs the handlers, some  *)
(* of which build the session pool, read a table or connect to the broker, *)
(* and then the same thread runs the event loop; from the connect on,      *)
(* Paho's callback thread runs beside it and uses the pool as well.        *)
(*                                                                         *)
(* The steps of the pool and of the client are those of DBConnectionPool   *)
(* and MQTTClient.  This module says which of the two threads takes them   *)
(* when, and adds what ends the process.  Requests that are answered from  *)
(* memory or from a file (pages, logins, device and point lists) and a     *)
(* POST without a connection to the broker, which is answered "Ok" like    *)
(* any other, change nothing here.                                         *)
(***************************************************************************)
EXTENDS Integers, Sequences

CONSTANTS Sessions, PoolSize, NoSession, NoThread,   (* of DBConnectionPool *)
          MaxReports, MaxLosses, MaxQueue            (* of MQTTClient       *)

main == "main"   (* the thread of main() and of the event loop *)
paho == "paho"   (* Paho's callback thread                     *)
Threads == {main, paho}

ASSUME ServerAssumption ==
  /\ PoolSize \in Nat \ {0, 1}
  /\ NoSession \notin Sessions
  /\ NoThread \notin Threads
  /\ MaxReports \in Nat /\ MaxLosses \in Nat /\ MaxQueue \in Nat

VARIABLES
  connections, built, mutex, pc, held, rows,
  loop, cb, msg, link, asked, subs, queue, token, config, shown, reported, losses,
  constructed,  (* how many handlers main() has constructed                 *)
  page,         (* the base constructor of the next one has read its page   *)
  use,          (* whether a thread wants a statement, or has begun one     *)
  ended         (* what has ended the process                               *)

poolVars == <<connections, built, mutex, pc, held, rows>>
clientVars ==
  <<loop, cb, msg, link, asked, subs, queue, token, config, shown, reported, losses>>
startVars == <<constructed, page>>
vars == <<poolVars, clientVars, startVars, use, ended>>

Pool == INSTANCE DBConnectionPool WITH crashed <- ended = "pool"
Client == INSTANCE MQTTClient

(* The handlers, in the order in which main() constructs them.             *)
Handlers_MqttFirst == <<"hello", "mqtt", "mqtt2", "login", "streams", "heartbeat",
                        "points", "lens", "curve">>
Handlers == <<"hello", "login", "streams", "heartbeat", "mqtt", "mqtt2",
              "points", "lens", "curve">>

Serving == constructed = Len(Handlers)

Init ==
  /\ ended = "no"
  /\ Pool!Init /\ Client!Init
  /\ constructed = 0 /\ page = FALSE
  /\ use = [t \in Threads |-> "none"]

-------------------------------------------------------------------------------
(* main(): the constructors.                                               *)

(* APIHandler::APIHandler() reads the page; it throws when it cannot.      *)
ReadPage ==
  /\ ended = "no" /\ ~Serving /\ ~page
  /\ \/ /\ page' = TRUE
        /\ use' = IF Handlers[constructed + 1] = "login"
                  THEN [use EXCEPT ![main] = "wanted"] ELSE use
        /\ UNCHANGED ended
     \/ /\ ended' = "page"
        /\ UNCHANGED <<page, use>>
  /\ UNCHANGED <<poolVars, clientVars, constructed>>

(* What a constructor has to have done of its own, once its page is read.  *)
OwnPartDone_Connected ==
  CASE Handlers[constructed + 1] = "login" -> use[main] = "begun" /\ pc[main] = "outside"
    [] Handlers[constructed + 1] \in {"mqtt", "mqtt2"} -> loop = "serving" /\ link = "up"
    [] OTHER -> TRUE
OwnPartDone ==
  CASE Handlers[constructed + 1] = "login" -> use[main] = "begun" /\ pc[main] = "outside"
    [] Handlers[constructed + 1] \in {"mqtt", "mqtt2"} -> loop = "serving"
    [] OTHER -> TRUE

Constructed ==
  /\ ended = "no" /\ ~Serving /\ page /\ OwnPartDone
  /\ constructed' = constructed + 1
  /\ page' = FALSE
  /\ use' = [use EXCEPT ![main] = "none"]
  /\ UNCHANGED <<poolVars, clientVars, ended>>

(* LoginHandler's constructor is the first to ask for instance().          *)
BuildPool ==
  /\ ended = "no" /\ ended' \in {"no", "pool"} /\ use[main] = "wanted"
  /\ Pool!Build
  /\ UNCHANGED <<clientVars, startVars, use>>

(* ConfigMQTTHandler's constructor is the first to ask for getInstance().  *)
ConnectClient ==
  /\ ended = "no" /\ ~Serving /\ page /\ Handlers[constructed + 1] = "mqtt"
  /\ Client!StartConnect \/ Client!ConnectReturns
  /\ UNCHANGED <<poolVars, startVars, use, ended>>

-------------------------------------------------------------------------------
(* A statement, on either thread.                                          *)

EnterPool(t) ==
  /\ ended = "no" /\ use[t] = "wanted"
  /\ use' = [use EXCEPT ![t] = "begun"]
  /\ UNCHANGED <<clientVars, startVars, ended>>
  /\ Pool!Enter(t)

(* selectAll(), which only LoginHandler's constructor calls, takes value() *)
(* of a result set that may be missing; queryDuration() looks first.       *)
ThrowsWithoutRows_Everywhere == TRUE
ThrowsWithoutRows == ~Serving

(* And selectAll() reads its rows before the session goes back,            *)
(* queryDuration() after.                                                  *)
MayReturn_RowsRead(t) == rows[t] = NoSession
MayReturn(t) == Serving \/ rows[t] = NoSession

(* The rest of a statement, up to the end of the result set; insert()      *)
(* leaves none.                                                            *)
UsePool(t) ==
  /\ ended = "no" /\ ended' \in {"no", "pool", "login"}
  /\ Pool!Proceed(t)
  /\ t = paho => rows'[t] = NoSession
  /\ Pool!ReadAll(t) => ~Serving
  /\ Pool!GiveBack(t) => MayReturn(t)
  /\ ended' = "login" <=>
       Pool!Execute(t) /\ t = main /\ ThrowsWithoutRows /\ rows'[t] = NoSession
  /\ UNCHANGED <<clientVars, startVars, use>>

-------------------------------------------------------------------------------
(* The event loop, when every handler is constructed.                      *)

Free == ended = "no" /\ Serving /\ loop = "serving" /\ use[main] = "none"

(* GET of the curve: queryDuration() ...                                   *)
GetCurve ==
  /\ Free
  /\ use' = [use EXCEPT ![main] = "wanted"]
  /\ UNCHANGED <<poolVars, clientVars, startVars, ended>>

(* ... and its answer, with the rows or without any.                       *)
CurveAnswered ==
  /\ ended = "no" /\ Serving /\ use[main] = "begun" /\ pc[main] = "outside"
  /\ use' = [use EXCEPT ![main] = "none"]
  /\ UNCHANGED <<poolVars, clientVars, startVars, ended>>

(* GET and POST of the lens parameters, and the end of a POST that had to  *)
(* wait for its delivery token.                                            *)
LensParams ==
  /\ Free
  /\ Client!GetConfig \/ Client!Publish
  /\ UNCHANGED <<poolVars, startVars, use, ended>>

LensParamsAnswered ==
  /\ ended = "no" /\ Client!PublishReturns
  /\ UNCHANGED <<poolVars, startVars, use, ended>>

(* POST of a login or of lens parameters with a body that cannot be parsed *)
(* throws through the event loop and main().                               *)
BadBody ==
  /\ Free
  /\ ended' = "body"
  /\ UNCHANGED <<poolVars, clientVars, startVars, use>>

(* GET or POST of a directory under www opens, has no size to read, and    *)
(* throws the same way; where the file system lets it be opened or read no *)
(* further, it is answered 404 and changes nothing.                        *)
GetDirectory ==
  /\ Free
  /\ ended' = "directory"
  /\ UNCHANGED <<poolVars, clientVars, startVars, use>>

-------------------------------------------------------------------------------
(* Paho's thread, and everything outside the process.                      *)

(* process_distance_data() wants a session only when from_json() liked the *)
(* message; that is decided here.                                          *)
MessageArrived ==
  /\ ended = "no" /\ Client!MessageArrived
  /\ \/ cb' = "insert" /\ use' = [use EXCEPT ![paho] = "wanted"]
     \/ UNCHANGED use
  /\ UNCHANGED <<poolVars, startVars, ended>>

(* The end of process_distance_data().                                     *)
InsertReturns_NotWaiting ==
  /\ ended = "no" /\ use[paho] # "wanted"
  /\ Client!InsertReturns
  /\ use' = [use EXCEPT ![paho] = "none"]
  /\ UNCHANGED <<poolVars, startVars, ended>>
InsertReturns_BetweenCurves ==
  /\ ended = "no" /\ use[paho] # "wanted" /\ pc[paho] = "outside"
  /\ use[main] = "none"
  /\ Client!InsertReturns
  /\ use' = [use EXCEPT ![paho] = "none"]
  /\ UNCHANGED <<poolVars, startVars, ended>>
InsertReturns ==
  /\ ended = "no" /\ use[paho] # "wanted" /\ pc[paho] = "outside"
  /\ Client!InsertReturns
  /\ use' = [use EXCEPT ![paho] = "none"]
  /\ UNCHANGED <<poolVars, startVars, ended>>

Callback ==
  /\ ended = "no"
  /\ Client!Subscribe \/ Client!SetConfig
  /\ UNCHANGED <<poolVars, startVars, use, ended>>

Environment ==
  /\ ended = "no"
  /\ \/ Client!ConnAck \/ Client!Granted \/ Client!LinkDown \/ Client!Report
     \/ \E m \in {Client!Displacement, Client!Malformed} : Client!OtherMessage(m)
  /\ UNCHANGED <<poolVars, startVars, use, ended>>

Written ==
  /\ ended = "no" /\ Client!Written
  /\ UNCHANGED <<poolVars, startVars, use, ended>>

Terminated == ended # "no" /\ UNCHANGED vars

-------------------------------------------------------------------------------
(* What main's thread does unasked, and what Paho's thread does.           *)
Main ==
  \/ ReadPage \/ Constructed \/ BuildPool \/ ConnectClient
  \/ EnterPool(main) \/ UsePool(main)
  \/ CurveAnswered \/ LensParamsAnswered

Paho ==
  \/ MessageArrived \/ InsertReturns \/ Callback
  \/ EnterPool(paho) \/ UsePool(paho)

Request == GetCurve \/ LensParams \/ BadBody \/ GetDirectory

Next == Main \/ Paho \/ Request \/ Written \/ Environment \/ Terminated

(* Both threads run when they can; so does Paho's sender.  No request has  *)
(* to come, and neither the broker nor MySQL has to answer well.           *)
Fairness == WF_vars(Main) /\ WF_vars(Paho) /\ WF_vars(Written)

Spec == Init /\ [][Next]_vars
FairSpec == Spec /\ Fairness

-------------------------------------------------------------------------------
(* The type of the variables that are this module's own; a thread is in    *)
(* the pool only for a statement it has begun.                             *)
TypeOK ==
  /\ constructed \in 0..Len(Handlers) /\ page \in BOOLEAN
  /\ use \in [Threads -> {"none", "wanted", "begun"}]
  /\ ended \in {"no", "page", "pool", "login", "body", "directory"}
  /\ \A t \in Threads : pc[t] # "outside" => use[t] = "begun"

(* Once main() has constructed its handlers, nothing that MySQL or the     *)
(* broker does ends the process, nor anything on Paho's thread: only a     *)
(* request does, by a body it cannot parse or a path that is a directory.  *)
(* That needs the two threads never to meet the null session they do not   *)
(* test for, and every exception to be caught on Paho's thread.            *)
ProcessSurvives == Serving => ended \in {"no", "body", "directory"}

(* When the callback thread stores its first displacement the pool is      *)
(* complete: with the broker connected before LoginHandler is constructed  *)
(* (main.cpp:25, :28) that thread would build it, or wait for main() to.   *)
PoolBuiltFirst == use[paho] # "none" => built = PoolSize

(* getConnection() never has to connect in this process (mqtt.cpp:65,      *)
(* kdy_db_api.h:53 and api_login_handler.cpp:9 use its result untested).   *)
NeverNull == Pool!NeverNull

(* The two threads use the pool the way DBConnectionPool says threads do,  *)
(* and the client the way MQTTClient says.                                 *)
ImplementsPool == Pool!Spec
ImplementsClient == Client!Spec

(* MQTTClient takes it for granted that a callback which stores a          *)
(* displacement returns, and that main() gets to its connect.  Both pass   *)
(* through the pool: here they are kept for as long as the process lives.  *)
ClientRuns == [](ended = "no") => Client!Fairness

(* main() gets to its event loop, or the process ends: the callback thread *)
(* may already be storing displacements, and waiting for getInstance().    *)
ServerStarts == <>(Serving \/ ended # "no")

(* A request that uses the pool is answered, whatever Paho's thread stores *)
(* meanwhile.                                                              *)
CurvesAnswered ==
  Serving /\ use[main] # "none" ~> (use[main] = "none" \/ ended # "no")
===============================================================================
