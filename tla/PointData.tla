------------------------------ MODULE PointData ------------------------------
(***************************************************************************)
(* A displacement on its way from the measuring device to the curve on the *)
(* page: the MQTT message, process_distance_data() (src/rtp/mqtt.cpp), the *)
(* row of point_data (include/db/kdy_db_api.h, doc/mysql.md) and           *)
(* queryDuration(), which the curve's handler calls.                       *)
(*                                                                         *)
(* Two clocks meet: a row carries the device's time stamp and is compared  *)
(* with the database's UNIX_TIMESTAMP(), which counts whole seconds.  Here *)
(* time counts ticks, TicksPerSecond of them a second (1000 in the code).  *)
(* The list in an answer is a set here: ORDER BY ts makes it a sequence,   *)
(* in one way only if no two of its points have the same time stamp.       *)
(***************************************************************************)
EXTENDS Integers, Sequences, FiniteSets

CONSTANTS
  Ids,              (* of measuring points                                  *)
  CurveId,          (* the one the curve is asked for, "123"                *)
  Placements,       (* what the device measures, in units of its last digit *)
  Micro,            (* so many of these make a unit of the sixth digit      *)
  Grain,            (* and so many of the fourth, the column's last         *)
  MaxPlacement,     (* the column's limit on both sides of 0, in such units *)
  TicksPerSecond,
  Window,           (* seconds of the curve, 60 in the code                 *)
  Skews,            (* by how much the device's clock may be wrong          *)
  MaxTime,          (* bound: ticks                                         *)
  MaxMeasured,      (* bound: measurements                                  *)
  MaxQueue          (* bound: messages under way                            *)

ASSUME PointAssumption ==
  /\ CurveId \in Ids
  /\ Placements \subseteq Int /\ MaxPlacement \in Nat
  /\ Micro \in Nat \ {0} /\ Grain \in Nat \ {0}
  /\ TicksPerSecond \in Nat \ {0} /\ Window \in Nat /\ Skews \subseteq Int
  /\ MaxTime \in Nat /\ MaxMeasured \in Nat /\ MaxQueue \in Nat

VARIABLES
  clock,     (* the database's time, in ticks                               *)
  skew,      (* the device's clock minus the database's                     *)
  queue,     (* messages on their way to process_distance_data()            *)
  rows,      (* the table point_data                                        *)
  answer,    (* the last answer to GET of the curve: when, and its points   *)
  measured   (* history: what the device has measured                       *)

vars == <<clock, skew, queue, rows, answer, measured>>

(* A message with a member that is missing or has the wrong type.          *)
Incomplete == [id |-> "none"]

NoAnswer == [at |-> -1, points |-> {}]

Init ==
  /\ clock = 0 /\ skew \in Skews
  /\ queue = <<>> /\ rows = {} /\ measured = {}
  /\ answer = NoAnswer

-------------------------------------------------------------------------------
(* The device, its clock, and the broker, which may lose a message.        *)

Measure(id, x, y) ==
  LET m == [id |-> id, ts |-> clock + skew, x |-> x, y |-> y]
  IN /\ clock + skew >= 0 /\ Len(queue) < MaxQueue
     /\ Cardinality(measured) < MaxMeasured
     /\ measured' = measured \cup {m}
     /\ queue' \in {queue, Append(queue, m)}
     /\ UNCHANGED <<clock, skew, rows, answer>>

SendIncomplete ==
  /\ Len(queue) < MaxQueue
  /\ queue' = Append(queue, Incomplete)
  /\ UNCHANGED <<clock, skew, rows, answer, measured>>

SetDeviceClock ==
  /\ skew' \in Skews
  /\ UNCHANGED <<clock, queue, rows, answer, measured>>

Tick ==
  /\ clock < MaxTime
  /\ clock' = clock + 1
  /\ UNCHANGED <<skew, queue, rows, answer, measured>>

-------------------------------------------------------------------------------
(* From the message to the row.                                            *)

(* std::to_string() writes a double with six digits after the point; of   *)
(* two that are equally near it takes the even one.                        *)
ToString(v) ==
  LET q == v \div Micro  r == v % Micro
  IN IF 2 * r > Micro \/ (2 * r = Micro /\ q % 2 = 1) THEN (q + 1) * Micro ELSE q * Micro

(* The column DECIMAL(10, 4) keeps four of them, and rounds what lies in   *)
(* the middle away from 0.                                                 *)
HalfUp(v) == ((2 * v + Grain) \div (2 * Grain)) * Grain
Stored(v) == IF v >= 0 THEN HalfUp(v) ELSE -HalfUp(-v)

Rounded(v) == Stored(ToString(v))

Fits(m) == \A v \in {m.x, m.y} : Rounded(v) \in -MaxPlacement..MaxPlacement

(* insertToDB().                                                           *)
RowOf(m) == [id |-> m.id, ts |-> m.ts, x |-> Rounded(m.x), y |-> Rounded(m.y)]

SameKey(r, s) == r.id = s.id /\ r.ts = s.ts

(* The primary key (id, ts) refuses a second row.                          *)
Inserted_Replacing(r) == {s \in rows : ~SameKey(r, s)} \cup {r}
Inserted(r) == IF \E s \in rows : SameKey(r, s) THEN rows ELSE rows \cup {r}

(* process_distance_data(): whatever goes wrong, in from_json(), in MySQL  *)
(* or on the way there, is caught and forgotten with the message.          *)
ProcessDistanceData ==
  /\ queue # <<>>
  /\ queue' = Tail(queue)
  /\ \/ /\ Head(queue) # Incomplete /\ Fits(Head(queue))
        /\ rows' = Inserted(RowOf(Head(queue)))
     \/ UNCHANGED rows
  /\ UNCHANGED <<clock, skew, answer, measured>>

(* The process ends and is started again: the table is all that is left.   *)
Restart ==
  /\ queue' = <<>>
  /\ UNCHANGED <<clock, skew, rows, answer, measured>>

-------------------------------------------------------------------------------
(* From the row to the curve.                                              *)

(* UNIX_TIMESTAMP() * 1000.                                                *)
UnixTimestamp == (clock \div TicksPerSecond) * TicksPerSecond

InWindow_Later(r) == r.ts > UnixTimestamp - Window * TicksPerSecond
InWindow(r) == r.ts >= UnixTimestamp - Window * TicksPerSecond

(* The WHERE clause of queryDuration().                                    *)
Selected_AllPoints == {r \in rows : InWindow(r)}
Selected == {r \in rows : r.id = CurveId /\ InWindow(r)}

(* fromDB() reads the columns in the order of the SELECT; id stays empty.  *)
FromDB_Swapped(r) == [ts |-> r.ts, x |-> r.y, y |-> r.x]
FromDB_TimeLast(r) == [ts |-> r.x, x |-> r.y, y |-> r.ts]
FromDB(r) == [ts |-> r.ts, x |-> r.x, y |-> r.y]

(* The handler; a query that fails gives an empty list, with success true. *)
GetCurve ==
  /\ \/ answer' = [at |-> clock, points |-> {FromDB(r) : r \in Selected}]
     \/ answer' = NoAnswer
  /\ UNCHANGED <<clock, skew, queue, rows, measured>>

Next ==
  \/ \E id \in Ids, x, y \in Placements : Measure(id, x, y)
  \/ SendIncomplete \/ SetDeviceClock \/ Tick
  \/ ProcessDistanceData \/ Restart
  \/ GetCurve

Spec == Init /\ [][Next]_vars

-------------------------------------------------------------------------------
(* A value of a DECIMAL(10, 4) column.                                     *)
Column == {v \in -MaxPlacement..MaxPlacement : v % Grain = 0}

Measurement == [id : Ids, ts : Nat, x : Placements, y : Placements]

(* The type of every variable.                                             *)
TypeOK ==
  /\ clock \in 0..MaxTime /\ skew \in Skews
  /\ queue \in Seq(measured \cup {Incomplete})
  /\ rows \subseteq [id : Ids, ts : Nat, x : Column, y : Column]
  /\ answer.at \in {-1} \cup 0..clock
  /\ answer.points \subseteq [ts : Nat, x : Column, y : Column]
  /\ measured \subseteq Measurement

(* Both roundings may go the same way: 0.00004999996 is shown as 0.0001.   *)
Near(v, w) == 2 * (v - w) <= Grain + Micro /\ 2 * (w - v) <= Grain + Micro

(* Every point of the curve was measured, at that time, at that place and  *)
(* as x and y are shown, to half a unit of the column's last digit and     *)
(* half a unit of to_string()'s: four lists of columns (INSERT, SELECT,    *)
(* fromDB, JSON) have to agree.                                            *)
ShownIsMeasured ==
  \A p \in answer.points :
    \E m \in measured :
      m.id = CurveId /\ m.ts = p.ts /\ Near(p.x, m.x) /\ Near(p.y, m.y)

(* The curve is strictly increasing in its time stamps, although the       *)
(* device's clock may be set back between two measurements.                *)
OnePointPerStamp == \A p, q \in answer.points : p.ts = q.ts => p = q

(* By the true time of the database the curve goes back Window seconds at  *)
(* least, and less than Window + 1.                                        *)
WindowBounds ==
  [][GetCurve /\ answer' # NoAnswer =>
       /\ \A r \in rows :
            r.id = CurveId /\ r.ts >= clock - Window * TicksPerSecond =>
              \E p \in answer'.points : p.ts = r.ts
       /\ \A p \in answer'.points : p.ts > clock - (Window + 1) * TicksPerSecond]_vars

(* A point once shown stays in the curve as it was until it is too old:    *)
(* no later message, of the device or after a restart, changes the past.   *)
ShownStays ==
  [][GetCurve /\ answer' # NoAnswer =>
       \A p \in answer.points : InWindow(p) => p \in answer'.points]_vars
===============================================================================
