------------------------------ MODULE EventLoop ------------------------------
(***************************************************************************)
(* The handlers that keep what they know in memory, on the one event loop  *)
(* of the process (src/main.cpp): LoginHandler with its copy of users, and *)
(* DeviceManager behind the heartbeat and the list of streams.  A handler  *)
(* runs to its end before the next begins.  A body that is no JSON, of a   *)
(* login or of lens parameters, or a path that is a directory throws       *)
(* through the loop and main(), and takes the devices along.               *)
(***************************************************************************)
EXTENDS DeviceRegistry

CONSTANTS Names, Passwords, MaxRows, MaxChanges   (* of LoginHandler *)

ASSUME EventLoopAssumption == MaxRows \in Nat /\ MaxChanges \in Nat

VARIABLES users, user_table, running, read, replies, changes

loginVars == <<users, user_table, running, read, replies, changes>>
allVars == <<vars, loginVars>>

Logins == INSTANCE LoginHandler

LoopInit == Init /\ Logins!Init

-------------------------------------------------------------------------------
(* The process starts, and ends.                                           *)
ProcessStarts == Logins!Start /\ UNCHANGED vars

ProcessEnds == Logins!LoginThrows /\ Restart

(* A request.                                                              *)
LoginRequest ==
  /\ \E n \in Names, p \in Passwords : Logins!Login(n, p)
  /\ UNCHANGED vars

DeviceRequest ==
  /\ running
  /\ \/ \E c \in Cameras, stream \in Streams, body \in SUBSET {"device_name", "stream_id"} :
          Heartbeat(c, stream, body)
     \/ ListStreams
  /\ UNCHANGED loginVars

(* Outside the process, whether it runs or not.                            *)
Outside ==
  \/ Logins!ChangeUsers /\ UNCHANGED vars
  \/ Tick /\ UNCHANGED loginVars

LoopNext == ProcessStarts \/ ProcessEnds \/ LoginRequest \/ DeviceRequest \/ Outside

LoopSpec == LoopInit /\ [][LoopNext]_allVars

-------------------------------------------------------------------------------
(* The type of every variable; a process that does not run keeps nothing.  *)
LoopTypeOK ==
  /\ TypeOK /\ Logins!TypeOK
  /\ ~running => device_map = NoDevice /\ user_table = Logins!NoUser

(* Every login of a process is answered from the table it read, and        *)
(* devices never disturb that.                                             *)
AnsweredAsRead == Logins!AnsweredAsRead
===============================================================================
