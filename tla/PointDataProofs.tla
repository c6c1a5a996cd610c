--------------------------- MODULE PointDataProofs ---------------------------
(***************************************************************************)
(* Proofs about PointData, for every set of points and values, every clock *)
(* of the device, every window and any number of measurements.             *)
(***************************************************************************)
EXTENDS PointData, TLAPS, SequenceTheorems

-------------------------------------------------------------------------------
(* Arithmetic.                                                             *)

(* std::to_string() keeps a value to half a unit of its sixth digit.       *)
LEMMA ToStringFacts ==
  ASSUME NEW v \in Int
  PROVE  /\ ToString(v) \in Int
         /\ 2 * (v - ToString(v)) <= Micro /\ 2 * (ToString(v) - v) <= Micro
<1> DEFINE q == v \div Micro
           r == v % Micro
<1>1. q \in Int /\ r \in 0..Micro - 1 /\ v = Micro * q + r
  BY PointAssumption
<1>2. ToString(v) = IF 2 * r > Micro \/ (2 * r = Micro /\ q % 2 = 1)
                    THEN (q + 1) * Micro ELSE q * Micro
  BY DEF ToString
<1> HIDE DEF q, r
<1>3. q * Micro \in Int /\ (q + 1) * Micro = q * Micro + Micro /\ v = q * Micro + r
  BY <1>1, PointAssumption
<1>4. CASE ToString(v) = q * Micro + Micro /\ 2 * r >= Micro
  BY <1>1, <1>3, <1>4, PointAssumption
<1>5. CASE ToString(v) = q * Micro /\ 2 * r <= Micro
  BY <1>1, <1>3, <1>5, PointAssumption
<1> QED
  BY <1>1, <1>2, <1>3, <1>4, <1>5, PointAssumption

(* The column keeps a value to half its last digit, on both sides of 0.    *)
LEMMA HalfUpFacts ==
  ASSUME NEW v \in Nat
  PROVE  /\ HalfUp(v) \in Nat /\ HalfUp(v) % Grain = 0
         /\ 2 * (v - HalfUp(v)) <= Grain /\ 2 * (HalfUp(v) - v) <= Grain
BY PointAssumption DEF HalfUp

(* A multiple of the column's last digit is one with the other sign.       *)
LEMMA NegativeMultiple ==
  ASSUME NEW n \in Nat, n % Grain = 0
  PROVE  (-n) % Grain = 0
<1> DEFINE k == n \div Grain
           q == (-n) \div Grain
           r == (-n) % Grain
<1>1. k \in Int /\ n = Grain * k
  BY PointAssumption
<1>2. q \in Int /\ r \in 0..Grain - 1 /\ -n = Grain * q + r
  BY PointAssumption
<1> HIDE DEF k, q, r
<1>3. Grain * (q + k) = -r
  BY <1>1, <1>2, PointAssumption
<1>4. q + k <= -1 => Grain * (q + k) <= -Grain
  BY <1>1, <1>2, PointAssumption
<1>5. q + k >= 0 => Grain * (q + k) >= 0
  BY <1>1, <1>2, PointAssumption
<1>6. r = 0
  BY <1>1, <1>2, <1>3, <1>4, <1>5, PointAssumption
<1> QED
  BY <1>6 DEF r

(* The same on the other side of 0.                                        *)
LEMMA StoredFacts ==
  ASSUME NEW v \in Int
  PROVE  /\ Stored(v) \in Int /\ Stored(v) % Grain = 0
         /\ 2 * (v - Stored(v)) <= Grain /\ 2 * (Stored(v) - v) <= Grain
<1>1. CASE v >= 0
  BY <1>1, HalfUpFacts DEF Stored
<1>2. CASE v < 0
  <2>1. /\ -v \in Nat /\ Stored(v) = -HalfUp(-v)
        /\ HalfUp(-v) \in Nat /\ HalfUp(-v) % Grain = 0
        /\ 2 * (-v - HalfUp(-v)) <= Grain /\ 2 * (HalfUp(-v) + v) <= Grain
    BY <1>2, HalfUpFacts DEF Stored
  <2> DEFINE w == HalfUp(-v)
  <2> HIDE DEF w
  <2>2. \A n \in Nat : n % Grain = 0 => (-n) % Grain = 0
    BY NegativeMultiple
  <2> QED
    BY <1>2, <2>1, <2>2, PointAssumption
<1> QED
  BY <1>1, <1>2

(* What both roundings together do to a value.                             *)
LEMMA RoundedFacts ==
  ASSUME NEW v \in Int
  PROVE  Rounded(v) \in Int /\ Rounded(v) % Grain = 0 /\ Near(Rounded(v), v)
<1> DEFINE t == ToString(v)
           w == Stored(t)
<1>1. t \in Int /\ 2 * (v - t) <= Micro /\ 2 * (t - v) <= Micro
  BY ToStringFacts
<1>2. w \in Int /\ w % Grain = 0 /\ 2 * (t - w) <= Grain /\ 2 * (w - t) <= Grain
  BY <1>1, StoredFacts
<1>3. Rounded(v) = w
  BY DEF Rounded
<1> HIDE DEF t, w
<1> QED
  BY <1>1, <1>2, <1>3, PointAssumption DEF Near

(* UNIX_TIMESTAMP() is less than a second behind the clock.                *)
LEMMA UnixTimestampFacts ==
  ASSUME clock \in Nat
  PROVE  /\ UnixTimestamp \in Int
         /\ UnixTimestamp <= clock /\ clock < UnixTimestamp + TicksPerSecond
BY PointAssumption DEF UnixTimestamp

-------------------------------------------------------------------------------
(* The invariant.                                                          *)

(* Every row is a measurement that was made, and no key has two rows.      *)
RowsInv ==
  /\ \A r \in rows : \E m \in measured : r = RowOf(m)
  /\ \A r, s \in rows : SameKey(r, s) => r = s

(* What was shown is still in the table.                                   *)
AnswerInv == \A p \in answer.points : \E r \in rows : r.id = CurveId /\ p = FromDB(r)

IInv == TypeOK /\ RowsInv /\ AnswerInv

(* A message that fits becomes a row of the right type.                    *)
LEMMA RowOfType ==
  ASSUME NEW m \in Measurement, Fits(m)
  PROVE  RowOf(m) \in [id : Ids, ts : Nat, x : Column, y : Column]
<1>1. m.x \in Int /\ m.y \in Int /\ m.id \in Ids /\ m.ts \in Nat
  BY PointAssumption DEF Measurement
<1>2. Rounded(m.x) \in Column /\ Rounded(m.y) \in Column
  BY <1>1, RoundedFacts, PointAssumption DEF Fits, Column
<1> QED
  BY <1>1, <1>2 DEF RowOf

(* An empty table, no message and no answer.                               *)
LEMMA InitInv == Init => IInv
<1> SUFFICES ASSUME Init PROVE IInv
  OBVIOUS
<1>1. queue \in Seq(measured \cup {Incomplete})
  BY DEF Init
<1> QED
  BY <1>1, PointAssumption DEF Init, IInv, TypeOK, RowsInv, AnswerInv, NoAnswer

(* Measuring adds to the history and, perhaps, to the messages.            *)
LEMMA MeasureInv ==
  ASSUME NEW id \in Ids, NEW x \in Placements, NEW y \in Placements
  PROVE  IInv /\ Measure(id, x, y) => IInv'
<1> SUFFICES ASSUME IInv, Measure(id, x, y) PROVE IInv'
  OBVIOUS
<1> DEFINE m == [id |-> id, ts |-> clock + skew, x |-> x, y |-> y]
<1>1. /\ measured' = measured \cup {m} /\ queue' \in {queue, Append(queue, m)}
      /\ UNCHANGED <<clock, skew, rows, answer>> /\ clock + skew >= 0
  BY DEF Measure
<1>2. m \in Measurement
  BY <1>1, PointAssumption DEF IInv, TypeOK, Measurement
<1> HIDE DEF m
<1>3. queue \in Seq(measured' \cup {Incomplete})
  BY <1>1 DEF IInv, TypeOK
<1>4. queue' \in Seq(measured' \cup {Incomplete})
  BY <1>1, <1>3
<1>5. TypeOK'
  BY <1>1, <1>2, <1>4 DEF IInv, TypeOK
<1>6. RowsInv' /\ AnswerInv'
  BY <1>1 DEF IInv, RowsInv, AnswerInv
<1> QED
  BY <1>5, <1>6 DEF IInv

(* A message becomes a row at most once, and takes no row's place.         *)
LEMMA ProcessInv == IInv /\ ProcessDistanceData => IInv'
<1> SUFFICES ASSUME IInv, ProcessDistanceData PROVE IInv'
  OBVIOUS
<1> DEFINE m == Head(queue)
<1>1. /\ queue # <<>> /\ queue' = Tail(queue)
      /\ UNCHANGED <<clock, skew, answer, measured>>
  BY DEF ProcessDistanceData
<1>2. queue \in Seq(measured \cup {Incomplete}) /\ m \in measured \cup {Incomplete}
      /\ queue' \in Seq(measured' \cup {Incomplete})
  BY <1>1 DEF IInv, TypeOK
<1>3. CASE m # Incomplete /\ Fits(m) /\ rows' = Inserted(RowOf(m))
  <2>1. m \in measured /\ m \in Measurement
    BY <1>2, <1>3 DEF IInv, TypeOK
  <2>2. RowOf(m) \in [id : Ids, ts : Nat, x : Column, y : Column]
    BY <2>1, <1>3, RowOfType
  <2> HIDE DEF m
  <2>3. rows \subseteq rows' /\ rows' \subseteq rows \cup {RowOf(m)}
        /\ (RowOf(m) \in rows \/ rows' = rows \/ \A s \in rows : ~SameKey(RowOf(m), s))
    BY <1>3 DEF Inserted
  <2>4. TypeOK'
    BY <1>1, <1>2, <2>2, <2>3 DEF IInv, TypeOK
  <2>5. \A r \in rows' : \E n \in measured' : r = RowOf(n)
    BY <1>1, <2>1, <2>3 DEF IInv, RowsInv
  <2>6. \A r, s \in rows' : SameKey(r, s) => r = s
    BY <2>3 DEF IInv, RowsInv, SameKey
  <2>7. AnswerInv'
    BY <1>1, <2>3 DEF IInv, AnswerInv
  <2> QED
    BY <2>4, <2>5, <2>6, <2>7 DEF IInv, RowsInv
<1>4. CASE rows' = rows
  BY <1>1, <1>2, <1>4 DEF IInv, TypeOK, RowsInv, AnswerInv
<1> QED
  BY <1>3, <1>4 DEF ProcessDistanceData

(* An answer is made of rows.                                              *)
LEMMA GetCurveInv == IInv /\ GetCurve => IInv'
<1> SUFFICES ASSUME IInv, GetCurve PROVE IInv'
  OBVIOUS
<1>1. UNCHANGED <<clock, skew, queue, rows, measured>>
  BY DEF GetCurve
<1>2. RowsInv'
  BY <1>1 DEF IInv, RowsInv
<1>3. CASE answer' = NoAnswer
  BY <1>1, <1>2, <1>3 DEF IInv, TypeOK, AnswerInv, NoAnswer
<1>4. CASE answer' = [at |-> clock, points |-> {FromDB(r) : r \in Selected}]
  <2>1. answer'.at = clock /\ clock \in 0..clock' /\ answer'.points = {FromDB(r) : r \in Selected}
    BY <1>1, <1>4, PointAssumption DEF IInv, TypeOK
  <2>2. Selected \subseteq rows
    BY DEF Selected
  <2>3. answer'.points \subseteq [ts : Nat, x : Column, y : Column]
    BY <2>1, <2>2 DEF IInv, TypeOK, FromDB
  <2>4. AnswerInv'
    BY <1>1, <2>1 DEF AnswerInv, Selected
  <2>5. TypeOK'
    BY <1>1, <2>1, <2>3 DEF IInv, TypeOK
  <2> QED
    BY <1>2, <2>4, <2>5 DEF IInv
<1> QED
  BY <1>3, <1>4 DEF GetCurve

(* The steps that touch neither the table nor an answer.                   *)
LEMMA QuietInv ==
  IInv /\ (SendIncomplete \/ SetDeviceClock \/ Tick \/ Restart \/ UNCHANGED vars) => IInv'
<1> SUFFICES ASSUME IInv,
                    SendIncomplete \/ SetDeviceClock \/ Tick \/ Restart \/ UNCHANGED vars
             PROVE  IInv'
  OBVIOUS
<1>1. UNCHANGED <<rows, answer, measured>>
  BY DEF SendIncomplete, SetDeviceClock, Tick, Restart, vars
<1>2. queue' \in Seq(measured' \cup {Incomplete})
  <2>1. queue \in Seq(measured' \cup {Incomplete})
    BY <1>1 DEF IInv, TypeOK
  <2>2. <<>> \in Seq(measured' \cup {Incomplete})
    BY EmptySeq
  <2>3. Append(queue, Incomplete) \in Seq(measured' \cup {Incomplete})
    BY <2>1, AppendProperties
  <2>4. queue' = queue \/ queue' = <<>> \/ queue' = Append(queue, Incomplete)
    BY DEF SendIncomplete, SetDeviceClock, Tick, Restart, vars
  <2> QED
    BY <2>1, <2>2, <2>3, <2>4
<1>3. clock' \in 0..MaxTime /\ clock' >= clock /\ skew' \in Skews
  BY PointAssumption DEF IInv, TypeOK, SendIncomplete, SetDeviceClock, Tick, Restart, vars
<1>4. answer'.at \in {-1} \cup 0..clock'
  BY <1>1, <1>3, PointAssumption DEF IInv, TypeOK
<1>5. TypeOK'
  BY <1>1, <1>2, <1>3, <1>4 DEF IInv, TypeOK
<1> QED
  BY <1>1, <1>5 DEF IInv, RowsInv, AnswerInv

(* Every step preserves the invariant.                                     *)
LEMMA NextInv == IInv /\ [Next]_vars => IInv'
BY MeasureInv, ProcessInv, GetCurveInv, QuietInv DEF Next

-------------------------------------------------------------------------------
(* Theorems.                                                               *)

(* IInv is an invariant of the way from the device to the curve.           *)
THEOREM Invariance == Spec => []IInv
BY InitInv, NextInv, PTL DEF Spec

(* Every variable keeps its type; the table holds values of its columns.   *)
THEOREM TypeCorrect == Spec => []TypeOK
<1>1. IInv => TypeOK
  BY DEF IInv
<1> QED
  BY <1>1, Invariance, PTL

(* The curve that queryDuration() returns shows what was measured, as      *)
(* nearly as both roundings of a coordinate (to_string(), DECIMAL) allow.  *)
THEOREM ShownIsMeasuredSafe == Spec => []ShownIsMeasured
<1>1. IInv => ShownIsMeasured
  <2> SUFFICES ASSUME IInv, NEW p \in answer.points
               PROVE  \E m \in measured :
                        m.id = CurveId /\ m.ts = p.ts /\ Near(p.x, m.x) /\ Near(p.y, m.y)
    BY DEF ShownIsMeasured
  <2>1. PICK r \in rows : r.id = CurveId /\ p = FromDB(r)
    BY DEF IInv, AnswerInv
  <2>2. PICK m \in measured : r = RowOf(m)
    BY DEF IInv, RowsInv
  <2>3. m.x \in Int /\ m.y \in Int
    BY PointAssumption DEF IInv, TypeOK, Measurement
  <2>4. Near(p.x, m.x) /\ Near(p.y, m.y)
    BY <2>1, <2>2, <2>3, RoundedFacts DEF FromDB, RowOf
  <2> QED
    BY <2>1, <2>2, <2>4 DEF FromDB, RowOf
<1> QED
  BY <1>1, Invariance, PTL

(* The primary key makes the curve a function of time.                     *)
THEOREM OnePointPerStampSafe == Spec => []OnePointPerStamp
<1>1. IInv => OnePointPerStamp
  BY DEF IInv, AnswerInv, RowsInv, OnePointPerStamp, SameKey, FromDB
<1> QED
  BY <1>1, Invariance, PTL

(* The window of the curve, by the clock of the database.                  *)
THEOREM WindowBoundsSafe == Spec => WindowBounds
<1> DEFINE Bounds ==
      /\ \A r \in rows :
           r.id = CurveId /\ r.ts >= clock - Window * TicksPerSecond =>
             \E p \in answer'.points : p.ts = r.ts
      /\ \A p \in answer'.points : p.ts > clock - (Window + 1) * TicksPerSecond
<1>1. IInv /\ GetCurve /\ answer' # NoAnswer => Bounds
  <2> SUFFICES ASSUME IInv, GetCurve, answer' # NoAnswer PROVE Bounds
    OBVIOUS
  <2>1. answer'.points = {FromDB(r) : r \in Selected}
    BY DEF GetCurve
  <2>2. clock \in Nat /\ \A r \in rows : r.ts \in Nat
    BY PointAssumption DEF IInv, TypeOK
  <2>3. /\ UnixTimestamp \in Int /\ UnixTimestamp <= clock
        /\ clock < UnixTimestamp + TicksPerSecond
    BY <2>2, UnixTimestampFacts
  <2>4. Window * TicksPerSecond \in Nat
        /\ (Window + 1) * TicksPerSecond = Window * TicksPerSecond + TicksPerSecond
    BY PointAssumption
  <2>5. \A r \in rows : r.ts >= clock - Window * TicksPerSecond => InWindow(r)
    BY <2>2, <2>3, <2>4 DEF InWindow
  <2>6. \A r \in rows : InWindow(r) => r.ts > clock - (Window + 1) * TicksPerSecond
    BY <2>2, <2>3, <2>4, PointAssumption DEF InWindow
  <2>7. \A r \in Selected : FromDB(r) \in answer'.points /\ FromDB(r).ts = r.ts
    BY <2>1 DEF FromDB
  <2>8. \A r \in rows :
          r.id = CurveId /\ r.ts >= clock - Window * TicksPerSecond =>
            \E p \in answer'.points : p.ts = r.ts
    BY <2>5, <2>7 DEF Selected
  <2>9. \A p \in answer'.points : \E r \in rows : InWindow(r) /\ p.ts = r.ts
    BY <2>1 DEF Selected, FromDB
  <2>10. \A p \in answer'.points : p.ts > clock - (Window + 1) * TicksPerSecond
    BY <2>6, <2>9
  <2> QED
    BY <2>8, <2>10
<1>2. IInv /\ [Next]_vars => [GetCurve /\ answer' # NoAnswer => Bounds]_vars
  BY <1>1
<1> QED
  BY <1>2, Invariance, PTL DEF Spec, WindowBounds

(* The past of a curve does not change.                                    *)
THEOREM ShownStaysSafe == Spec => ShownStays
<1> DEFINE Stays == \A p \in answer.points : InWindow(p) => p \in answer'.points
<1>1. IInv /\ GetCurve /\ answer' # NoAnswer => Stays
  <2> SUFFICES ASSUME IInv, GetCurve, answer' # NoAnswer,
                      NEW p \in answer.points, InWindow(p)
               PROVE  p \in answer'.points
    OBVIOUS
  <2>1. PICK r \in rows : r.id = CurveId /\ p = FromDB(r)
    BY DEF IInv, AnswerInv
  <2>2. r \in Selected
    BY <2>1 DEF Selected, InWindow, FromDB
  <2> QED
    BY <2>1, <2>2 DEF GetCurve
<1>2. IInv /\ [Next]_vars => [GetCurve /\ answer' # NoAnswer => Stays]_vars
  BY <1>1
<1> QED
  BY <1>2, Invariance, PTL DEF Spec, ShownStays
===============================================================================
