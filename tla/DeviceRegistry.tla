---------------------------- MODULE DeviceRegistry ----------------------------
(***************************************************************************)
(* rtp::DeviceManager with its two users: DeviceHeartbeatHandler, to which *)
(* cameras post their name and stream, and DeviceListHandler, from which   *)
(* the page learns which streams to play.  All of it runs on the event     *)
(* loop, one handler at a time; the clock ticks in between.                *)
(***************************************************************************)
EXTENDS Integers

CONSTANTS
  Cameras,                 (* the names cameras give themselves             *)
  Streams,                 (* the streams they push                         *)
  DEVICE_TIMEOUT_SECOND,   (* 30 in the code                                *)
  MaxTime                  (* bound: seconds                                *)

TestCamera == "test_camera"

ASSUME DeviceAssumption ==
  /\ DEVICE_TIMEOUT_SECOND \in Nat /\ MaxTime \in Nat
  /\ TestCamera \notin Cameras

TestStream == "stream123"

VARIABLES
  now,         (* whole seconds on the steady clock                         *)
  device_map,  (* name -> Device, without the parameters, which no handler  *)
               (* that can be reached reads                                 *)
  listed,      (* rtmp_list of the last answer to GET /api/streams/status   *)
  answer,      (* message of the last answer to POST /device/heartbeat      *)
  posted       (* history: when each camera last told this process of       *)
               (* itself                                                    *)

vars == <<now, device_map, listed, answer, posted>>

Never == -1

NoDevice == [n \in {} |-> [stream_id |-> TestStream, last_heartbeat |-> 0]]

Init ==
  /\ now = 0
  /\ device_map = NoDevice
  /\ listed = {} /\ answer = "none"
  /\ posted = [c \in Cameras |-> Never]

(* freshDevice(): a new device, or a new value for a known one.            *)
Freshed_Expiry(map, name, stream) ==
  [n \in DOMAIN map \cup {name} |->
     IF n = name
     THEN [stream_id |-> stream, last_heartbeat |-> now + DEVICE_TIMEOUT_SECOND]
     ELSE map[n]]
Freshed(map, name, stream) ==
  [n \in DOMAIN map \cup {name} |->
     IF n = name THEN [stream_id |-> stream, last_heartbeat |-> now] ELSE map[n]]

(* DeviceManager::instance(): every call refreshes the test camera.        *)
Instance_FirstTime(map) ==
  IF TestCamera \in DOMAIN map THEN map ELSE Freshed(map, TestCamera, TestStream)
Instance(map) == Freshed(map, TestCamera, TestStream)

(* Device::timeover() counts whole seconds.                                *)
Timeover(device) == now - device.last_heartbeat > DEVICE_TIMEOUT_SECOND

ActiveDevices(map) == {n \in DOMAIN map : ~Timeover(map[n])}

(* The members of json(body): the constructor makes a JSON string of the   *)
(* text, and a string has no members (json::parse(body) would make the     *)
(* object it describes).                                                   *)
Members(body) == {}

(* A camera posts; body is the set of the members in the text it sends.    *)
Heartbeat(c, stream, body) ==
  /\ posted' = IF body = {"device_name", "stream_id"} THEN [posted EXCEPT ![c] = now] ELSE posted
  /\ IF {"device_name", "stream_id"} \subseteq Members(body)
     THEN /\ device_map' = Freshed(Instance(device_map), c, stream)
          /\ answer' = "first_connect"
     ELSE /\ answer' = "incomplete"
          /\ UNCHANGED device_map
  /\ UNCHANGED <<now, listed>>

(* DeviceListHandler::handle(); an empty list is "No device found."        *)
ListStreams ==
  /\ device_map' = Instance(device_map)
  /\ listed' = {[name |-> n, stream_id |-> device_map'[n].stream_id] :
                  n \in ActiveDevices(device_map')}
  /\ UNCHANGED <<now, answer, posted>>

Tick ==
  /\ now < MaxTime
  /\ now' = now + 1
  /\ UNCHANGED <<device_map, listed, answer, posted>>

(* The process ends; the next one starts with an empty map.                *)
Restart ==
  /\ device_map' = NoDevice
  /\ posted' = [c \in Cameras |-> Never]
  /\ UNCHANGED <<now, listed, answer>>

Next ==
  \/ \E c \in Cameras, stream \in Streams, body \in SUBSET {"device_name", "stream_id"} :
       Heartbeat(c, stream, body)
  \/ ListStreams
  \/ Restart \/ Tick

Spec == Init /\ [][Next]_vars

-------------------------------------------------------------------------------
(* The type of every variable; no heartbeat lies in the future.            *)
TypeOK ==
  /\ now \in 0..MaxTime
  /\ DOMAIN device_map \subseteq Cameras \cup {TestCamera}
  /\ \A n \in DOMAIN device_map :
       /\ device_map[n].stream_id \in Streams \cup {TestStream}
       /\ device_map[n].last_heartbeat \in 0..now
  /\ listed \subseteq [name : Cameras \cup {TestCamera}, stream_id : Streams \cup {TestStream}]
  /\ answer \in {"none", "first_connect", "incomplete"}
  /\ posted \in [Cameras -> {Never} \cup 0..now]

(* However long nobody asked, a page that asks for the streams gets at     *)
(* least the test camera (device_manager.cpp:7): it does not time out      *)
(* between two requests.                                                   *)
TestCameraAlwaysListed ==
  [][ListStreams => [name |-> TestCamera, stream_id |-> TestStream] \in listed']_vars

(* What doc/api.md:41 and doc/rtmp.md promise: a camera that registered    *)
(* its stream within the last DEVICE_TIMEOUT_SECOND seconds is listed.     *)
RegisteredIsListed ==
  [][ListStreams =>
       \A c \in Cameras :
         posted[c] # Never /\ now - posted[c] <= DEVICE_TIMEOUT_SECOND =>
           \E e \in listed' : e.name = c]_vars
===============================================================================
