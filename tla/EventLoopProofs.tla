--------------------------- MODULE EventLoopProofs ---------------------------
(***************************************************************************)
(* What the handlers on the event loop keep in memory is right for any     *)
(* users, any cameras and any timeout.                                     *)
(*                                                                         *)
(* Of the logins: the copy holds, for every name that was read, the        *)
(* password of its first row, and a handler only looks at it; so whatever  *)
(* happens to the table meanwhile, all answers are of one piece.           *)
(***************************************************************************)
EXTENDS EventLoop, SequenceTheorems, WellFoundedInduction, TLAPS

(* The copy is what inserting the rows one by one makes of them.           *)
CopyOfRead ==
  running =>
    /\ DOMAIN user_table = {read[i].name : i \in DOMAIN read}
    /\ \A n \in DOMAIN user_table : \E i \in Logins!FirstRead(n) : user_table[n] = read[i].password

IInv == LoopTypeOK /\ AnsweredAsRead /\ CopyOfRead

-------------------------------------------------------------------------------
(* The least of a set of row numbers is one of them.                       *)
LEMMA MinIn ==
  ASSUME NEW S, S \subseteq Nat, S # {}
  PROVE  Logins!Min(S) \in S /\ \A y \in S : Logins!Min(S) <= y
<1>1. \E x \in S : \A y \in S : ~ (<<y, x>> \in OpToRel(<, Nat))
  BY NatLessThanWellFounded, WFMin
<1>2. \E x \in S : \A y \in S : x <= y
  <2>1. PICK x \in S : \A y \in S : ~ (<<y, x>> \in OpToRel(<, Nat))
    BY <1>1
  <2>2. \A y \in S : ~ (y < x)
    BY <2>1 DEF OpToRel
  <2> QED
    BY <2>2
<1> QED
  BY <1>2 DEF Logins!Min

(* A bounded sequence of rows.                                             *)
LEMMA Rows ==
  ASSUME NEW s
  PROVE  s \in Logins!SeqOf(Logins!Row, MaxRows)
           <=> s \in Seq(Logins!Row) /\ Len(s) <= MaxRows
<1>1. MaxRows \in Nat
  BY EventLoopAssumption
<1>2. ASSUME s \in Logins!SeqOf(Logins!Row, MaxRows)
      PROVE  s \in Seq(Logins!Row) /\ Len(s) <= MaxRows
  <2>1. PICK m \in 0..MaxRows : s \in [1..m -> Logins!Row]
    BY <1>2 DEF Logins!SeqOf
  <2>2. m \in Nat /\ m <= MaxRows
    BY <1>1, <2>1
  <2>3. s \in Seq(Logins!Row)
    BY <2>1, <2>2, SeqDef
  <2>4. Len(s) = m
    BY <2>1, <2>2, <2>3, LenProperties
  <2> QED
    BY <2>2, <2>3, <2>4
<1>3. ASSUME s \in Seq(Logins!Row), Len(s) <= MaxRows
      PROVE  s \in Logins!SeqOf(Logins!Row, MaxRows)
  <2>1. Len(s) \in 0..MaxRows /\ s \in [1..Len(s) -> Logins!Row]
    BY <1>1, <1>3, LenProperties
  <2> QED
    BY <2>1 DEF Logins!SeqOf
<1> QED
  BY <1>2, <1>3

(* Every change a developer makes leaves a table of rows.                  *)
LEMMA ChangedRows ==
  ASSUME users \in Logins!SeqOf(Logins!Row, MaxRows), Logins!ChangeUsers
  PROVE  users' \in Logins!SeqOf(Logins!Row, MaxRows)
<1>1. users \in Seq(Logins!Row) /\ Len(users) <= MaxRows /\ Len(users) \in Nat
      /\ DOMAIN users = 1..Len(users) /\ MaxRows \in Nat
  BY Rows, LenProperties, EventLoopAssumption
<1>2. CASE \E r \in Logins!Row : Len(users) < MaxRows /\ users' = Append(users, r)
  <2>1. PICK r \in Logins!Row : Len(users) < MaxRows /\ users' = Append(users, r)
    BY <1>2
  <2>2. users' \in Seq(Logins!Row) /\ Len(users') = Len(users) + 1
    BY <1>1, <2>1, AppendProperties
  <2>3. Len(users') <= MaxRows
    BY <1>1, <2>1, <2>2
  <2> QED
    BY <2>2, <2>3, Rows
<1>3. CASE \E i \in DOMAIN users, p \in Passwords :
             users' = [users EXCEPT ![i].password = p]
  <2>1. PICK i \in 1..Len(users), p \in Passwords :
          users' = [users EXCEPT ![i].password = p]
    BY <1>1, <1>3
  <2>2. [users[i] EXCEPT !.password = p] \in Logins!Row
    <3>1. users[i] \in [name : Names, password : Passwords]
      BY <1>1, <2>1, ElementOfSeq DEF Logins!Row
    <3> QED
      BY <2>1, <3>1 DEF Logins!Row
  <2>3. users' = [users EXCEPT ![i] = [users[i] EXCEPT !.password = p]]
    BY <2>1
  <2>4. users' \in Seq(Logins!Row) /\ Len(users') = Len(users)
    BY <1>1, <2>1, <2>2, <2>3, ExceptSeq
  <2> QED
    BY <1>1, <2>4, Rows
<1>4. CASE \E i \in DOMAIN users : users' = Logins!RemoveAt(users, i)
  <2>1. PICK i \in 1..Len(users) : users' = Logins!RemoveAt(users, i)
    BY <1>1, <1>4
  <2> DEFINE s == SubSeq(users, 1, i - 1)
  <2> DEFINE t == SubSeq(users, i + 1, Len(users))
  <2>2. \A j \in 1..Len(users) : users[j] \in Logins!Row
    BY <1>1, ElementOfSeq
  <2>3. s \in Seq(Logins!Row) /\ Len(s) = i - 1
    <3>1. \A j \in 1..i - 1 : users[j] \in Logins!Row
      BY <1>1, <2>1, <2>2
    <3>2. i - 1 \in Int /\ 1 <= i - 1 + 1
      BY <1>1, <2>1
    <3> QED
      BY <1>1, <2>1, <3>1, <3>2, SubSeqProperties
  <2>4. t \in Seq(Logins!Row) /\ Len(t) = Len(users) - i
    <3>1. \A j \in i + 1..Len(users) : users[j] \in Logins!Row
      BY <1>1, <2>1, <2>2
    <3>2. t \in Seq(Logins!Row)
          /\ Len(t) = IF i + 1 <= Len(users) THEN Len(users) - (i + 1) + 1 ELSE 0
      BY <1>1, <2>1, <3>1, SubSeqProperties
    <3>3. Len(t) = Len(users) - i
      <4> HIDE DEF t
      <4>1. CASE i + 1 <= Len(users)
        BY <1>1, <2>1, <3>2, <4>1
      <4>2. CASE ~(i + 1 <= Len(users))
        <5> DEFINE n == Len(users)
        <5>0. n \in Nat /\ i \in 1..n /\ ~(i + 1 <= n)
          BY <1>1, <4>2
        <5> HIDE DEF n
        <5>a. i = n /\ n \in Nat
          BY <5>0
        <5>1. i = Len(users) /\ Len(users) \in Nat
          BY <5>a DEF n
        <5>2. Len(t) = 0
          BY <3>2, <4>2
        <5> QED
          BY <5>1, <5>2
      <4> QED
        BY <4>1, <4>2
    <3> QED
      BY <3>2, <3>3
  <2> HIDE DEF s, t
  <2>5. s \o t \in Seq(Logins!Row) /\ Len(s \o t) = Len(s) + Len(t)
    BY <2>3, <2>4, ConcatProperties
  <2>6. Len(s \o t) <= MaxRows
    BY <1>1, <2>1, <2>3, <2>4, <2>5
  <2>7. users' = s \o t
    BY <2>1 DEF Logins!RemoveAt, s, t
  <2> QED
    BY <2>5, <2>6, <2>7, Rows
<1> QED
  BY <1>2, <1>3, <1>4 DEF Logins!ChangeUsers

-------------------------------------------------------------------------------
(* The devices.                                                            *)

(* Every operation on the map keeps its type, and so does the clock.       *)
LEMMA DevicesTyped ==
  ASSUME TypeOK, DeviceRequest \/ Restart \/ Tick
  PROVE  TypeOK'
<1>1. now \in 0..MaxTime /\ MaxTime \in Nat
  BY DeviceAssumption DEF TypeOK
<1>2. ASSUME NEW c \in Cameras, NEW stream \in Streams, NEW body,
             Heartbeat(c, stream, body)
      PROVE  TypeOK'
  <2>1. ~({"device_name", "stream_id"} \subseteq Members(body))
    BY DEF Members
  <2>2. /\ answer' = "incomplete"
        /\ UNCHANGED <<device_map, now, listed>>
        /\ posted' \in [Cameras -> {Never} \cup 0..now]
    BY <1>1, <1>2, <2>1 DEF Heartbeat, TypeOK
  <2> QED
    BY <2>2 DEF TypeOK
<1>3. ASSUME ListStreams PROVE TypeOK'
  <2>1. device_map' = Freshed(device_map, TestCamera, TestStream)
        /\ UNCHANGED <<now, answer, posted>>
    BY <1>3 DEF ListStreams, Instance
  <2>2. DOMAIN device_map' = DOMAIN device_map \cup {TestCamera}
    BY <2>1 DEF Freshed
  <2>3. ASSUME NEW n \in DOMAIN device_map'
        PROVE  /\ device_map'[n].stream_id \in Streams \cup {TestStream}
               /\ device_map'[n].last_heartbeat \in 0..now
    <3>1. CASE n = TestCamera
      BY <1>1, <2>1, <2>2, <3>1 DEF Freshed
    <3>2. CASE n # TestCamera
      <4>1. n \in DOMAIN device_map /\ device_map'[n] = device_map[n]
        BY <2>1, <2>2, <3>2 DEF Freshed
      <4> QED
        BY <4>1 DEF TypeOK
    <3> QED
      BY <3>1, <3>2
  <2>4. DOMAIN device_map' \subseteq Cameras \cup {TestCamera}
    BY <2>2 DEF TypeOK
  <2>5. listed' \subseteq [name : Cameras \cup {TestCamera}, stream_id : Streams \cup {TestStream}]
    <3>1. listed' = {[name |-> n, stream_id |-> device_map'[n].stream_id] :
                       n \in ActiveDevices(device_map')}
      BY <1>3 DEF ListStreams
    <3>2. ActiveDevices(device_map') \subseteq DOMAIN device_map'
      BY DEF ActiveDevices
    <3> QED
      BY <2>3, <2>4, <3>1, <3>2
  <2> QED
    BY <2>1, <2>3, <2>4, <2>5 DEF TypeOK
<1>4. ASSUME Restart PROVE TypeOK'
  <2>1. device_map' = NoDevice /\ DOMAIN NoDevice = {}
    BY <1>4 DEF Restart, NoDevice
  <2>2. posted' \in [Cameras -> {Never} \cup 0..now] /\ UNCHANGED <<now, listed, answer>>
    BY <1>4 DEF Restart
  <2> QED
    BY <2>1, <2>2 DEF TypeOK
<1>5. ASSUME Tick PROVE TypeOK'
  <2>1. now' = now + 1 /\ now < MaxTime /\ UNCHANGED <<device_map, listed, answer, posted>>
    BY <1>5 DEF Tick
  <2>2. now' \in 0..MaxTime /\ 0..now \subseteq 0..now'
    BY <1>1, <2>1
  <2>3. posted' \in [Cameras -> {Never} \cup 0..now']
    BY <2>1, <2>2 DEF TypeOK
  <2> QED
    BY <2>1, <2>2, <2>3 DEF TypeOK
<1> QED
  BY <1>2, <1>3, <1>4, <1>5 DEF DeviceRequest

-------------------------------------------------------------------------------
(* The logins.                                                             *)

(* What was answered stays right as long as nothing is answered or read.   *)
LEMMA AnswersKept ==
  ASSUME AnsweredAsRead, UNCHANGED <<read, replies>>
  PROVE  AnsweredAsRead'
<1>1. \A n \in Names : /\ Logins!RowsRead(n)' = Logins!RowsRead(n)
                       /\ Logins!FirstRead(n)' = Logins!FirstRead(n)
  BY DEF Logins!FirstRead, Logins!RowsRead
<1> SUFFICES ASSUME NEW n \in Names, NEW p \in Passwords
             PROVE  /\ replies'[<<n, p>>] = "success" =>
                         \E i \in Logins!FirstRead(n)' : read'[i].password = p
                    /\ replies'[<<n, p>>] = "wrong_password" =>
                         \E i \in Logins!FirstRead(n)' : read'[i].password # p
                    /\ replies'[<<n, p>>] = "user_not_found" => Logins!RowsRead(n)' = {}
  BY DEF AnsweredAsRead, Logins!AnsweredAsRead, Logins!FirstRead, Logins!RowsRead
<1> QED
  BY <1>1 DEF AnsweredAsRead, Logins!AnsweredAsRead

(* The process starts: it reads the table.                                 *)
LEMMA StartInv ==
  ASSUME IInv, ProcessStarts
  PROVE  IInv'
<1>1. /\ ~running /\ running' = TRUE /\ read' = users
      /\ user_table' = Logins!Loaded
      /\ replies' = [l \in Names \X Passwords |-> Logins!NoReply]
      /\ UNCHANGED <<users, changes>> /\ UNCHANGED vars
  BY DEF ProcessStarts, Logins!Start
<1>2. /\ TypeOK /\ Logins!TypeOK
  BY DEF IInv, LoopTypeOK
<1>3. users \in Seq(Logins!Row) /\ DOMAIN users = 1..Len(users)
      /\ \A i \in DOMAIN users : users[i] \in Logins!Row
  BY <1>2, Rows, LenProperties, ElementOfSeq DEF Logins!TypeOK
<1>4. DOMAIN Logins!Loaded = {users[i].name : i \in DOMAIN users}
  BY DEF Logins!Loaded
<1>5. ASSUME NEW n \in DOMAIN Logins!Loaded
      PROVE  \E i \in DOMAIN users :
               /\ users[i].name = n /\ Logins!Loaded[n] = users[i].password
               /\ \A j \in DOMAIN users : users[j].name = n => i <= j
  <2> DEFINE R == {i \in DOMAIN users : users[i].name = n}
  <2>1. R \subseteq Nat /\ R # {}
    BY <1>3, <1>4
  <2>2. Logins!Min(R) \in R /\ \A j \in R : Logins!Min(R) <= j
    BY <2>1, MinIn
  <2>3. Logins!Loaded[n] = users[Logins!Min(R)].password
    BY <1>4 DEF Logins!Loaded
  <2> QED
    BY <2>2, <2>3
<1>6. CopyOfRead'
  <2>1. ASSUME NEW n \in DOMAIN user_table'
        PROVE  \E i \in Logins!FirstRead(n)' : user_table'[n] = read'[i].password
    BY <1>1, <1>5 DEF Logins!FirstRead, Logins!RowsRead
  <2> QED
    BY <1>1, <1>4, <2>1 DEF CopyOfRead
<1>7. DOMAIN user_table' \subseteq Names /\ Logins!Range(user_table') \subseteq Passwords
  <2>1. \A i \in DOMAIN users : users[i].name \in Names /\ users[i].password \in Passwords
    BY <1>3 DEF Logins!Row
  <2>2. DOMAIN user_table' \subseteq Names
    BY <1>1, <1>4, <2>1
  <2>3. \A n \in DOMAIN user_table' : user_table'[n] \in Passwords
    BY <1>1, <1>5, <2>1
  <2> QED
    BY <2>2, <2>3 DEF Logins!Range
<1>8. Logins!TypeOK'
  BY <1>1, <1>2, <1>7 DEF Logins!TypeOK
<1>9. AnsweredAsRead'
  BY <1>1 DEF AnsweredAsRead, Logins!AnsweredAsRead, Logins!NoReply
<1>10. TypeOK'
  BY <1>1, <1>2 DEF TypeOK, vars
<1> QED
  BY <1>1, <1>6, <1>8, <1>9, <1>10 DEF IInv, LoopTypeOK

(* The process ends: what it kept in memory is gone.                       *)
LEMMA EndInv ==
  ASSUME IInv, ProcessEnds
  PROVE  IInv'
<1>1. /\ running' = FALSE /\ user_table' = Logins!NoUser
      /\ UNCHANGED <<users, read, replies, changes>> /\ device_map' = NoDevice
  BY DEF ProcessEnds, Logins!LoginThrows, Restart
<1>2. TypeOK'
  BY DevicesTyped DEF IInv, LoopTypeOK, ProcessEnds
<1>3. Logins!TypeOK'
  <2>1. DOMAIN Logins!NoUser = {} /\ Logins!Range(Logins!NoUser) = {}
    BY DEF Logins!NoUser, Logins!Range
  <2> QED
    BY <1>1, <2>1 DEF IInv, LoopTypeOK, Logins!TypeOK
<1>4. AnsweredAsRead'
  BY <1>1, AnswersKept DEF IInv
<1> QED
  BY <1>1, <1>2, <1>3, <1>4 DEF IInv, LoopTypeOK, CopyOfRead

(* A login looks a name up and changes nothing.                            *)
LEMMA LoginInv ==
  ASSUME IInv, LoginRequest
  PROVE  IInv'
<1>1. PICK n \in Names, p \in Passwords : Logins!Login(n, p)
  BY DEF LoginRequest
<1>2. /\ running /\ replies' = [replies EXCEPT ![<<n, p>>] = Logins!Reply(n, p)]
      /\ user_table' = user_table
      /\ UNCHANGED <<users, running, read, changes>> /\ UNCHANGED vars
  BY <1>1 DEF Logins!Login, Logins!LookedUp, LoginRequest
<1>3. TypeOK /\ Logins!TypeOK /\ AnsweredAsRead /\ CopyOfRead
  BY DEF IInv, LoopTypeOK
<1>4. replies \in [Names \X Passwords ->
                     {Logins!NoReply, "success", "wrong_password", "user_not_found"}]
  BY <1>3 DEF Logins!TypeOK
<1>5. Logins!Reply(n, p) \in {"success", "wrong_password", "user_not_found"}
  BY DEF Logins!Reply
<1>6. replies' \in [Names \X Passwords ->
                      {Logins!NoReply, "success", "wrong_password", "user_not_found"}]
  BY <1>2, <1>4, <1>5
<1>7. Logins!TypeOK'
  BY <1>2, <1>3, <1>6 DEF Logins!TypeOK
<1>8. TypeOK'
  BY <1>2, <1>3 DEF TypeOK, vars
<1>9. CopyOfRead'
  BY <1>2, <1>3 DEF CopyOfRead, Logins!FirstRead, Logins!RowsRead
<1>10. AnsweredAsRead'
  <2> SUFFICES ASSUME NEW m \in Names, NEW q \in Passwords
               PROVE  /\ replies'[<<m, q>>] = "success" =>
                           \E i \in Logins!FirstRead(m) : read[i].password = q
                      /\ replies'[<<m, q>>] = "wrong_password" =>
                           \E i \in Logins!FirstRead(m) : read[i].password # q
                      /\ replies'[<<m, q>>] = "user_not_found" => Logins!RowsRead(m) = {}
    <3>1. \A m \in Names : /\ Logins!RowsRead(m)' = Logins!RowsRead(m)
                            /\ Logins!FirstRead(m)' = Logins!FirstRead(m)
      BY <1>2 DEF Logins!FirstRead, Logins!RowsRead
    <3>2. read' = read
      BY <1>2
    <3> SUFFICES ASSUME NEW m \in Names, NEW q \in Passwords
                 PROVE  /\ replies'[<<m, q>>] = "success" =>
                             \E i \in Logins!FirstRead(m)' : read'[i].password = q
                        /\ replies'[<<m, q>>] = "wrong_password" =>
                             \E i \in Logins!FirstRead(m)' : read'[i].password # q
                        /\ replies'[<<m, q>>] = "user_not_found" => Logins!RowsRead(m)' = {}
      BY DEF AnsweredAsRead, Logins!AnsweredAsRead, Logins!FirstRead, Logins!RowsRead
    <3> QED
      BY <3>1, <3>2
  <2>1. CASE <<m, q>> # <<n, p>>
    <3>1. replies'[<<m, q>>] = replies[<<m, q>>]
      BY <1>2, <1>4, <2>1
    <3> QED
      BY <1>3, <3>1 DEF AnsweredAsRead, Logins!AnsweredAsRead, Logins!FirstRead, Logins!RowsRead
  <2>2. CASE <<m, q>> = <<n, p>>
    <3>1. m = n /\ q = p /\ replies'[<<m, q>>] = Logins!Reply(n, p)
      BY <1>2, <1>4, <2>2
    <3>2. CASE n \notin DOMAIN user_table
      <4>1. Logins!RowsRead(n) = {}
        BY <1>2, <1>3, <3>2 DEF CopyOfRead, Logins!RowsRead
      <4> QED
        BY <3>1, <3>2, <4>1 DEF Logins!Reply
    <3>3. CASE n \in DOMAIN user_table
      <4>1. PICK i \in Logins!FirstRead(n) : user_table[n] = read[i].password
        BY <1>2, <1>3, <3>3 DEF CopyOfRead
      <4> QED
        BY <3>1, <3>3, <4>1 DEF Logins!Reply
    <3> QED
      BY <3>2, <3>3
  <2> QED
    BY <2>1, <2>2
<1> QED
  BY <1>2, <1>3, <1>7, <1>8, <1>9, <1>10 DEF IInv, LoopTypeOK

(* Devices and the clock leave the logins alone.                           *)
LEMMA DeviceInv ==
  ASSUME IInv, DeviceRequest \/ (Tick /\ UNCHANGED loginVars)
  PROVE  IInv'
<1>1. UNCHANGED <<users, user_table, running, read, replies, changes>>
  BY DEF DeviceRequest, loginVars
<1>2. TypeOK'
  BY DevicesTyped DEF IInv, LoopTypeOK
<1>3. Logins!TypeOK' /\ AnsweredAsRead' /\ CopyOfRead'
  BY <1>1 DEF IInv, LoopTypeOK, Logins!TypeOK, AnsweredAsRead, Logins!AnsweredAsRead,
              CopyOfRead, Logins!FirstRead, Logins!RowsRead
<1>4. ~running' => device_map' = NoDevice
  <2>1. CASE DeviceRequest
    BY <1>1, <2>1 DEF DeviceRequest
  <2>2. CASE Tick
    BY <1>1, <2>2 DEF Tick, IInv, LoopTypeOK
  <2> QED
    BY <2>1, <2>2
<1> QED
  BY <1>1, <1>2, <1>3, <1>4 DEF IInv, LoopTypeOK

(* A developer changes the table, and no process notices.                  *)
LEMMA ChangeInv ==
  ASSUME IInv, Logins!ChangeUsers, UNCHANGED vars
  PROVE  IInv'
<1>1. UNCHANGED <<user_table, running, read, replies>> /\ changes' = changes + 1
      /\ changes < MaxChanges
  BY DEF Logins!ChangeUsers
<1>2. TypeOK /\ Logins!TypeOK
  BY DEF IInv, LoopTypeOK
<1>3. users' \in Logins!SeqOf(Logins!Row, MaxRows)
  BY <1>2, ChangedRows DEF Logins!TypeOK
<1>4. changes' \in 0..MaxChanges
  BY <1>1, <1>2, EventLoopAssumption DEF Logins!TypeOK
<1>5. Logins!TypeOK'
  BY <1>1, <1>2, <1>3, <1>4 DEF Logins!TypeOK
<1>6. TypeOK' /\ device_map' = device_map
  BY <1>2 DEF TypeOK, vars
<1>7. AnsweredAsRead' /\ CopyOfRead'
  BY <1>1 DEF IInv, AnsweredAsRead, Logins!AnsweredAsRead, CopyOfRead, Logins!FirstRead, Logins!RowsRead
<1> QED
  BY <1>1, <1>5, <1>6, <1>7 DEF IInv, LoopTypeOK

-------------------------------------------------------------------------------
(* No process runs at first, and nobody has asked.                         *)
LEMMA InitInv == LoopInit => IInv
<1> SUFFICES ASSUME LoopInit PROVE IInv
  OBVIOUS
<1>1. /\ users \in Logins!SeqOf(Logins!Row, MaxRows)
      /\ user_table = Logins!NoUser /\ running = FALSE /\ read = <<>>
      /\ replies = [l \in Names \X Passwords |-> Logins!NoReply] /\ changes = 0
  BY DEF LoopInit, Logins!Init
<1>2. DOMAIN Logins!NoUser = {} /\ Logins!Range(Logins!NoUser) = {}
  BY DEF Logins!NoUser, Logins!Range
<1>3. read \in Logins!SeqOf(Logins!Row, MaxRows)
  <2>1. <<>> \in Seq(Logins!Row) /\ Len(<<>>) = 0
    BY EmptySeq
  <2>2. 0 <= MaxRows
    BY EventLoopAssumption
  <2> QED
    BY <1>1, <2>1, <2>2, Rows
<1>4. Logins!TypeOK
  <2>1. replies \in [Names \X Passwords ->
                        {Logins!NoReply, "success", "wrong_password", "user_not_found"}]
    BY <1>1
  <2>2. changes \in 0..MaxChanges
    BY <1>1, EventLoopAssumption
  <2>3. running \in BOOLEAN
    BY <1>1
  <2> QED
    BY <1>1, <1>2, <1>3, <2>1, <2>2, <2>3 DEF Logins!TypeOK
<1>5. TypeOK
  <2>1. DOMAIN NoDevice = {}
    BY DEF NoDevice
  <2>2. 0 \in 0..MaxTime
    BY DeviceAssumption
  <2> QED
    BY <2>1, <2>2 DEF LoopInit, Init, TypeOK
<1>6. AnsweredAsRead
  BY <1>1 DEF AnsweredAsRead, Logins!AnsweredAsRead, Logins!NoReply
<1>7. device_map = NoDevice
  BY DEF LoopInit, Init
<1> QED
  BY <1>1, <1>4, <1>5, <1>6, <1>7 DEF IInv, LoopTypeOK, CopyOfRead

(* Every step of the loop, and outside it, keeps the invariant.            *)
LEMMA NextInv == IInv /\ [LoopNext]_allVars => IInv'
<1> SUFFICES ASSUME IInv, [LoopNext]_allVars PROVE IInv'
  OBVIOUS
<1>1. CASE ProcessStarts
  BY <1>1, StartInv
<1>2. CASE ProcessEnds
  BY <1>2, EndInv
<1>3. CASE LoginRequest
  BY <1>3, LoginInv
<1>4. CASE DeviceRequest
  BY <1>4, DeviceInv
<1>5. CASE Outside
  BY <1>5, DeviceInv, ChangeInv DEF Outside
<1>6. CASE UNCHANGED allVars
  <2>1. UNCHANGED <<now, device_map, listed, answer, posted>>
        /\ UNCHANGED <<users, user_table, running, read, replies, changes>>
    BY <1>6 DEF allVars, vars, loginVars
  <2>2. LoopTypeOK'
    BY <2>1 DEF IInv, LoopTypeOK, TypeOK, Logins!TypeOK
  <2>3. AnsweredAsRead' /\ CopyOfRead'
    BY <2>1 DEF IInv, AnsweredAsRead, Logins!AnsweredAsRead, CopyOfRead, Logins!FirstRead, Logins!RowsRead
  <2> QED
    BY <2>2, <2>3 DEF IInv
<1> QED
  BY <1>1, <1>2, <1>3, <1>4, <1>5, <1>6 DEF LoopNext

-------------------------------------------------------------------------------
(* The invariant holds throughout: what is kept in memory is a copy of the *)
(* table this process read, and nothing of an earlier process.             *)
THEOREM Invariance == LoopSpec => []IInv
  BY InitInv, NextInv, PTL DEF LoopSpec

(* Every variable keeps its type, no heartbeat lies in the future, and a   *)
(* process that has ended keeps nothing.                                   *)
THEOREM TypeCorrect == LoopSpec => []LoopTypeOK
<1>1. IInv => LoopTypeOK
  BY DEF IInv
<1> QED
  BY <1>1, Invariance, PTL

(* LoginHandler answers every login of a process from the one table its    *)
(* constructor read, for any users, any logins and any changes.            *)
THEOREM AnsweredAsReadSafe == LoopSpec => []AnsweredAsRead
<1>1. IInv => AnsweredAsRead
  BY DEF IInv
<1> QED
  BY <1>1, Invariance, PTL

(* DeviceManager::instance() makes every list contain the test camera, for *)
(* any timeout and however long nobody asked.                              *)
THEOREM TestCameraSafe == LoopSpec => TestCameraAlwaysListed
<1>1. ASSUME IInv, ListStreams
      PROVE  [name |-> TestCamera, stream_id |-> TestStream] \in listed'
  <2>1. now \in Nat /\ DEVICE_TIMEOUT_SECOND \in Nat
    BY <1>1, DeviceAssumption DEF IInv, LoopTypeOK, TypeOK
  <2>2. /\ TestCamera \in DOMAIN device_map'
        /\ device_map'[TestCamera] = [stream_id |-> TestStream, last_heartbeat |-> now]
    BY <1>1 DEF ListStreams, Instance, Freshed
  <2>3. ~Timeover(device_map'[TestCamera])
    BY <2>1, <2>2 DEF Timeover
  <2>4. TestCamera \in ActiveDevices(device_map')
    BY <2>2, <2>3 DEF ActiveDevices
  <2>5. listed' = {[name |-> n, stream_id |-> device_map'[n].stream_id] :
                     n \in ActiveDevices(device_map')}
    BY <1>1 DEF ListStreams
  <2> QED
    BY <2>2, <2>4, <2>5
<1>2. IInv /\ [LoopNext]_allVars
        => [ListStreams => [name |-> TestCamera, stream_id |-> TestStream] \in listed']_vars
  BY <1>1
<1> QED
  BY <1>2, Invariance, PTL DEF LoopSpec, TestCameraAlwaysListed

-------------------------------------------------------------------------------
(* The loop runs both components as they are specified.                    *)

(* LoginHandler meets nothing in the process that its own module does not  *)
(* describe, so that what is said of LoginHandler!Spec holds here.         *)
THEOREM LoginsImplemented == LoopSpec => Logins!Spec
<1>1. LoopInit => Logins!Init
  BY DEF LoopInit
<1>2. [LoopNext]_allVars => [Logins!Next]_(Logins!vars)
  <2> SUFFICES ASSUME [LoopNext]_allVars PROVE [Logins!Next]_(Logins!vars)
    OBVIOUS
  <2>1. CASE UNCHANGED loginVars
    BY <2>1 DEF loginVars, Logins!vars
  <2>2. CASE ProcessStarts \/ ProcessEnds \/ LoginRequest \/ Logins!ChangeUsers
    BY <2>2 DEF ProcessStarts, ProcessEnds, LoginRequest, Logins!Next
  <2> QED
    BY <2>1, <2>2 DEF LoopNext, DeviceRequest, Outside, allVars
<1> QED
  BY <1>1, <1>2, PTL DEF LoopSpec, Logins!Spec

(* And so do the devices: DeviceManager sees heartbeats, lists, seconds    *)
(* and the end of the process, whatever logins come in between.            *)
THEOREM DevicesImplemented == LoopSpec => Spec
<1>1. LoopInit => Init
  BY DEF LoopInit
<1>2. [LoopNext]_allVars => [Next]_vars
  <2> SUFFICES ASSUME [LoopNext]_allVars PROVE [Next]_vars
    OBVIOUS
  <2>1. CASE UNCHANGED vars
    BY <2>1
  <2>2. CASE ProcessEnds \/ DeviceRequest \/ Tick
    BY <2>2 DEF ProcessEnds, DeviceRequest, Next
  <2> QED
    BY <2>1, <2>2 DEF LoopNext, ProcessStarts, LoginRequest, Outside, allVars
<1> QED
  BY <1>1, <1>2, PTL DEF LoopSpec, Spec
===============================================================================
