-------------------------- MODULE HTTPExchangeProofs --------------------------
(***************************************************************************)
(* What onMessage does for a client that waits for its answers and whose   *)
(* requests arrive whole, or cut once, before their first CRLF: every      *)
(* request is served with exactly its body, nothing is left behind, and    *)
(* the connection is a RequestReply connection.                            *)
(*                                                                         *)
(* The hypotheses hold in MCHTTPConnection_whole.cfg.  Without WholePieces *)
(* a request can be lost (http_split_body finds it), and without Waits one *)
(* may stay in the buffer, unanswered (http_server.cpp:39).                *)
(***************************************************************************)
EXTENDS HTTPConnectionProofs

(* The client sends the next request when it has the answer to the last.   *)
Waits == ~Pipelined

(* A piece ends with its request, or inside the text of a request line.    *)
WholePieces == Cuts \subseteq {"last", "request"}

(* A request with a body announces it.                                     *)
Announces ==
  \A r \in Requests : r.body # 0 => r.length = r.body /\ "length" \in ToSet(r.headers)

(* Every Content-Length is a number.  Only the refinement needs it: after  *)
(* one that is not, the connection is shut down behind an answer that may  *)
(* say keep-alive (http_server.cpp:151).                                   *)
Numeric == \A r \in Requests : r.length # NotANumber

-------------------------------------------------------------------------------
(* The invariant.                                                          *)

(* The request the client has sent last, as atoms.                         *)
LastSent == Atoms(Len(sent), sent[Len(sent)])

(* While the process runs, the connection is idle, or the whole of the     *)
(* request sent last is in the stream and some of it still on its way.     *)
InTransit ==
  ~crashed => \/ buf = <<>> /\ wire = <<>>
              \/ wire # <<>> /\ Len(out) < Len(sent) /\ Stream = LastSent

(* The k-th answer is about the k-th request.                              *)
Numbered == Len(out) <= Len(sent) /\ \A k \in 1..Len(out) : out[k].of = k

(* On an open connection every request but one on its way has its answer.  *)
Served ==
  ~crashed /\ state = "connected" =>
    Len(out) = IF wire = <<>> THEN Len(sent) ELSE Len(sent) - 1

Exchange == InTransit /\ Numbered /\ Served /\ BodiesWhole

(* A connection that shuts down has said so to the client, and nothing is  *)
(* on its way any more.                                                    *)
Stopped ==
  state = "disconnecting" => wire = <<>> /\ \E k \in 1..Len(out) : out[k].close

-------------------------------------------------------------------------------
(* What onMessage reads from a whole request.                              *)

(* A set of naturals has one least element.                                *)
LEMMA MinIs ==
  ASSUME NEW S, S \subseteq Nat, NEW m \in S, \A y \in S : m <= y
  PROVE  Min(S) = m
<1>1. Min(S) \in S /\ \A y \in S : Min(S) <= y
  BY MinIn
<1>2. Min(S) <= m /\ m <= Min(S) /\ m \in Nat /\ Min(S) \in Nat
  BY <1>1
<1> QED
  BY <1>2

(* The first line is the request line, the header loop ends at the empty   *)
(* line, it has seen every header, and what follows is the body.           *)
LEMMA ReadWhole ==
  ASSUME NEW i \in 1..Len(sent), sent \in Seq(Requests)
  PROVE  LET r == sent[i]
             A == Atoms(i, r)
         IN /\ CRLFs(A) # {} /\ ~BadLine(FirstLine(A))
            /\ Last(FirstLine(A)) = A[1] /\ A[1].of = i
            /\ AfterHeader(A) = Body(i)
            /\ ToSet(r.headers) \subseteq Header(A)
<1> DEFINE r == sent[i]
<1> DEFINE A == Atoms(i, r)
<1> DEFINE L == Len(r.headers)
<1> DEFINE H == 2 * L
<1>1. i \in Nat /\ r \in Requests
  BY LenProperties, ElementOfSeq
<1>2. /\ H \in Nat /\ r.body \in Nat
      /\ A \in Seq([kind : Kinds \ {"last"}, of : {i}])
      /\ Len(A) = H + 3 + r.body
      /\ A[1].kind = "request"
      /\ A[2].kind = "crlf" /\ A[H + 2].kind = "crlf" /\ A[H + 3].kind = "crlf"
      /\ \A j \in 1..L : A[2 * j + 1].kind = r.headers[j]
      /\ \A q \in 1..r.body : A[q + (H + 3)] = [kind |-> "body", of |-> i]
  <2>1. IsRequest(A, i, r)
    BY <1>1, AtomsFacts
  <2> HIDE DEF A, r
  <2> QED
    BY <2>1 DEF IsRequest
<1>3. L \in Nat /\ DOMAIN r.headers = 1..L
      /\ \A j \in 1..L : r.headers[j] \in {"connection", "length", "agent"}
  BY <1>1, HTTPAssumption, LenProperties, ElementOfSeq
<1>4. Body(i) = [j \in 1..r.body |-> [kind |-> "body", of |-> i]]
  BY DEF Body
<1> HIDE DEF A
<1>5. DOMAIN A = 1..Len(A) /\ Len(A) \in Nat /\ H + 3 \in 1..Len(A) /\ H + 2 \in 1..Len(A)
      /\ 1 \in 1..Len(A) /\ 2 \in 1..Len(A)
  <2>1. DOMAIN A = 1..Len(A) /\ Len(A) \in Nat
    BY <1>2, LenProperties
  <2> HIDE DEF H, r
  <2> QED
    BY <1>2, <2>1
<1> DEFINE C == CRLFs(A)
<1> DEFINE empty == {e \in C : e - 1 \in C}
<1>6. C = {j \in 1..Len(A) : A[j].kind = "crlf"}
  BY <1>5 DEF CRLFs
<1>7. 2 \in C /\ H + 2 \in C /\ H + 3 \in C /\ 1 \notin C /\ C \subseteq Nat
  BY <1>2, <1>5, <1>6
<1>8. Min(C) = 2
  <2>1. \A y \in C : 2 <= y
    <3>1. \A y \in C : y \in Nat /\ y # 1 /\ y >= 1
      BY <1>6, <1>7
    <3> QED
      BY <3>1
  <2> QED
    BY <1>7, <2>1, MinIs
<1>9. \A j \in 1..L : 2 * j + 1 \notin C
  BY <1>2, <1>3, <1>6
<1>10. HeaderEnd(A) = H + 3
  <2>1. H + 3 \in empty /\ empty \subseteq Nat
    <3>1. H + 3 - 1 = H + 2
      BY <1>2
    <3> QED
      BY <1>7, <3>1
  <2>2. ASSUME NEW e \in empty PROVE H + 3 <= e
    <3>1. e \in Nat /\ e \in C /\ e - 1 \in C /\ e >= 1 /\ e - 1 >= 1
      BY <1>6
    <3>2. e # 2 /\ e # 1
      BY <1>7, <3>1
    <3>3. SUFFICES ASSUME e <= H + 2 PROVE FALSE
      BY <1>2, <3>1
    <3>4. \E j \in Nat : e = 2 * j + 1 \/ e - 1 = 2 * j + 1
      <4>1. (e - 1) \div 2 \in Nat /\ (e - 2) \div 2 \in Nat
        BY <3>1, <3>2
      <4>2. e = 2 * ((e - 1) \div 2) + 1 \/ e - 1 = 2 * ((e - 2) \div 2) + 1
        BY <3>1, <3>2
      <4> QED
        BY <4>1, <4>2
    <3>5. PICK j \in Nat : e = 2 * j + 1 \/ e - 1 = 2 * j + 1
      BY <3>4
    <3>6. j \in 1..L
      BY <1>3, <3>1, <3>2, <3>3, <3>5
    <3> QED
      BY <1>9, <3>1, <3>5, <3>6
  <2>3. Min(empty) = H + 3
    BY <2>1, <2>2, MinIs
  <2> QED
    BY <2>1, <2>3 DEF HeaderEnd
<1>11. FirstLine(A) = SubSeq(A, 1, 1) /\ Len(FirstLine(A)) = 1 /\ FirstLine(A)[1] = A[1]
  <2>1. FirstLine(A) = SubSeq(A, 1, 1)
    BY <1>8 DEF FirstLine
  <2>2. 1 \in 0..Len(A)
    BY <1>5
  <2> QED
    BY <1>2, <2>1, <2>2, Prefix
<1>12. Last(FirstLine(A)) = A[1] /\ ~BadLine(FirstLine(A))
  <2>1. 1 \in DOMAIN FirstLine(A)
    <3>1. FirstLine(A) \in Seq([kind : Kinds \ {"last"}, of : {i}])
      <4>1. 1 \in 0..Len(A)
        BY <1>5
      <4> QED
        BY <1>2, <1>11, <4>1, Prefix
    <3> QED
      BY <1>11, <3>1, LenProperties
  <2> QED
    BY <1>2, <1>11, <2>1 DEF Last, BadLine
<1>13. A[1].of = i
  <2>1. A[1] \in [kind : Kinds \ {"last"}, of : {i}]
    BY <1>2, <1>5, ElementOfSeq
  <2> QED
    BY <2>1
<1>14. AfterHeader(A) = Body(i)
  <2> DEFINE t == AfterHeader(A)
  <2>1. t = SubSeq(A, H + 3 + 1, Len(A))
    BY <1>10 DEF AfterHeader
  <2>2. H + 3 \in 0..Len(A)
    BY <1>5
  <2>3. /\ t \in Seq([kind : Kinds \ {"last"}, of : {i}]) /\ Len(t) = Len(A) - (H + 3)
        /\ \A j \in 1..Len(A) - (H + 3) : t[j] = A[j + (H + 3)]
    <3> HIDE DEF H, t
    <3>1. A \in Seq([kind : Kinds \ {"last"}, of : {i}])
      BY <1>2
    <3> QED
      BY <2>1, <2>2, <3>1, Suffix
  <2> HIDE DEF t
  <2>4. Len(A) - (H + 3) = r.body
    BY <1>2
  <2>5. \A j \in 1..r.body : t[j] = [kind |-> "body", of |-> i]
    BY <1>2, <2>3, <2>4
  <2>6. DOMAIN t = 1..r.body
    BY <2>3, <2>4, LenProperties
  <2>7. t = [j \in 1..r.body |-> t[j]]
    <3>1. t = [j \in DOMAIN t |-> t[j]]
      BY <2>3, LenProperties
    <3> QED
      BY <2>6, <3>1
  <2>8. t = Body(i)
    BY <1>4, <2>5, <2>7
  <2> QED
    BY <2>8 DEF t
<1>15. ToSet(r.headers) \subseteq Header(A)
  <2> SUFFICES ASSUME NEW j \in 1..L PROVE r.headers[j] \in Header(A)
    BY <1>3 DEF ToSet
  <2>1. 2 * j + 1 \in 2..H + 3 /\ A[2 * j + 1].kind = r.headers[j]
    BY <1>2, <1>3
  <2> QED
    BY <1>8, <1>10, <2>1 DEF Header
<1> QED
  BY <1>7, <1>12, <1>13, <1>14, <1>15 DEF A

(* The i-th request gets an answer, which announces that the connection is *)
(* shut down unless the Content-Length was no number.                      *)
AnswersIt(i) ==
  \E status \in StatusCodes, close, stop \in BOOLEAN :
    /\ (close => stop) /\ (stop => close \/ sent[i].length = NotANumber)
    /\ Respond(i, status, close, stop)

LEMMA ItsAnswer ==
  ASSUME NEW i, NEW status \in StatusCodes, NEW close \in BOOLEAN, NEW stop \in BOOLEAN,
         close => stop, stop => close \/ sent[i].length = NotANumber,
         Respond(i, status, close, stop)
  PROVE  AnswersIt(i)
  BY DEF AnswersIt

(* A request that has arrived whole is retrieved whole, and gets an answer *)
(* or ends the process; its handler, if any, gets its body.                *)
Serves(i) ==
  /\ buf' = <<>>
  /\ \/ UNCHANGED calls
     \/ calls' = Append(calls, [of |-> i, body |-> Body(i)])
  /\ \/ AnswersIt(i) /\ UNCHANGED crashed
     \/ crashed' = TRUE /\ UNCHANGED <<out, state>>

LEMMA ServesWhole ==
  ASSUME NEW i \in 1..Len(sent), sent \in Seq(Requests), Announces,
         OnMessage(Atoms(i, sent[i]))
  PROVE  Serves(i)
<1> DEFINE b == Atoms(i, sent[i])
<1> DEFINE l == FirstLine(b)
<1> DEFINE rest == AfterHeader(b)
<1> DEFINE close == CloseAfter(l, Header(b))
<1> DEFINE n == IF "length" \in Header(b) THEN sent[i].length ELSE 0
<1>1. /\ CRLFs(b) # {} /\ ~BadLine(l) /\ Last(l).of = i /\ rest = Body(i)
      /\ ToSet(sent[i].headers) \subseteq Header(b)
  BY ReadWhole
<1>2. /\ sent[i] \in Requests /\ sent[i].body \in Nat
      /\ sent[i].length \in {sent[i].body, NotANumber}
  BY ElementOfSeq, HTTPAssumption
<1>3. Body(i) \in Seq([kind : {"body"}, of : {i}]) /\ Len(Body(i)) = sent[i].body
  <2> DEFINE S == [kind : {"body"}, of : {i}]
  <2> DEFINE N == sent[i].body
  <2>1. Body(i) \in [1..N -> S]
    BY DEF Body
  <2>2. N \in Nat
    BY <1>2
  <2> HIDE DEF S, N
  <2>3. Body(i) \in Seq(S) /\ Len(Body(i)) = N
    BY <2>1, <2>2, FunctionSeq
  <2> QED
    BY <2>3 DEF S, N
<1>4. \/ n = NotANumber /\ buf' = rest /\ Respond(i, 400, close, TRUE)
         /\ UNCHANGED <<calls, crashed>>
      \/ n # NotANumber /\ ~Complete(rest, n)
      \/ n # NotANumber /\ Complete(rest, n) /\ buf' = SubSeq(rest, n + 1, Len(rest))
         /\ OnRequest(i, Method(l), BodyIn(rest, n), close)
  BY ZenonT(60), <1>1 DEF OnMessage
<1>5. n = sent[i].body \/ (n = NotANumber /\ sent[i].body = 0 /\ sent[i].length = NotANumber)
  <2>1. CASE sent[i].body = 0
    BY <1>2, <2>1
  <2>2. CASE sent[i].body # 0
    <3>1. sent[i].length = sent[i].body /\ "length" \in ToSet(sent[i].headers)
      BY <1>2, <2>2 DEF Announces
    <3> QED
      BY <1>1, <3>1
  <2> QED
    BY <2>1, <2>2
<1>6. close \in BOOLEAN /\ 400 \in StatusCodes /\ 404 \in StatusCodes /\ 200 \in StatusCodes
  BY DEF CloseAfter, StatusCodes
<1> HIDE DEF b, l, rest, close, n
<1>7. CASE n = NotANumber /\ buf' = rest /\ Respond(i, 400, close, TRUE)
           /\ UNCHANGED <<calls, crashed>>
  <2>1. sent[i].body = 0 /\ sent[i].length = NotANumber
    BY <1>2, <1>5, <1>7 DEF NotANumber
  <2>2. buf' = <<>>
    BY <1>1, <1>3, <1>7, <2>1, EmptySeq
  <2>3. AnswersIt(i)
    <3>1. Respond(i, 400, close, TRUE) /\ 400 \in StatusCodes /\ close \in BOOLEAN
      BY <1>6, <1>7
    <3>2. TRUE \in BOOLEAN /\ (close => TRUE) /\ sent[i].length = NotANumber
      BY <2>1
    <3> QED
      BY ZenonT(60), <3>1, <3>2, ItsAnswer
  <2> QED
    BY <1>7, <2>2, <2>3 DEF Serves
<1>8. CASE n # NotANumber /\ ~Complete(rest, n)
  BY <1>1, <1>2, <1>3, <1>5, <1>8 DEF Complete
<1>9. CASE n # NotANumber /\ Complete(rest, n) /\ buf' = SubSeq(rest, n + 1, Len(rest))
           /\ OnRequest(i, Method(l), BodyIn(rest, n), close)
  <2>1. n = sent[i].body /\ n = Len(rest) /\ rest \in Seq([kind : {"body"}, of : {i}])
    BY <1>1, <1>3, <1>5, <1>9
  <2>2. buf' = <<>>
    <3>1. Len(rest) \in 0..Len(rest)
      BY <2>1, LenProperties
    <3>2. SubSeq(rest, Len(rest) + 1, Len(rest)) \in Seq([kind : {"body"}, of : {i}])
          /\ Len(SubSeq(rest, Len(rest) + 1, Len(rest))) = Len(rest) - Len(rest)
      BY <2>1, <3>1, Suffix
    <3>3. Len(rest) - Len(rest) = 0
      BY <2>1, LenProperties
    <3> QED
      BY <1>9, <2>1, <3>2, <3>3, EmptySeq
  <2>3. BodyIn(rest, n) = Body(i)
    BY <1>1, <2>1, SubSeqFull DEF BodyIn
  <2>4. OnRequest(i, Method(l), Body(i), close)
    BY <1>9, <2>3
  <2>5. CASE Method(l) \notin {"GET", "POST"}
    <3>1. Respond(i, 400, close, close) /\ UNCHANGED <<calls, crashed>>
      BY <2>4, <2>5 DEF OnRequest, MethodNotAllowed
    <3>2. AnswersIt(i)
      BY ZenonT(60), <1>6, <3>1, ItsAnswer
    <3> QED
      BY <2>2, <3>1, <3>2 DEF Serves
  <2>6. CASE Method(l) \in {"GET", "POST"}
    <3>1. calls' = Append(calls, [of |-> i, body |-> Body(i)])
      BY <2>4, <2>6 DEF OnRequest
    <3> DEFINE status == IF NotFound(i) THEN 404 ELSE 200
    <3>2. CASE crashed' = TRUE /\ UNCHANGED <<out, state>>
      BY <2>2, <3>1, <3>2 DEF Serves
    <3>3. CASE Respond(i, status, close, close) /\ UNCHANGED crashed
      <4>1. status \in StatusCodes /\ close \in BOOLEAN
        BY <1>6
      <4> HIDE DEF status
      <4>2. AnswersIt(i)
        BY ZenonT(60), <3>3, <4>1, ItsAnswer
      <4> QED
        BY <2>2, <3>1, <3>3, <4>2 DEF Serves
    <3> QED
      BY <2>4, <2>6, <3>2, <3>3 DEF OnRequest
  <2> QED
    BY <2>5, <2>6
<1> QED
  BY <1>4, <1>7, <1>8, <1>9

-------------------------------------------------------------------------------
(* The steps.                                                              *)

(* The pieces that reach an idle server: all the rest of the request sent  *)
(* last, so that onMessage sees all of it, or the text of its request line.*)
LEMMA Pieces ==
  ASSUME IInv, Exchange, WholePieces, NEW n \in DOMAIN wire, Receive(n)
  PROVE  /\ Len(sent) >= 1 /\ Stream = LastSent /\ Len(out) < Len(sent)
         /\ \/ wire' = <<>> /\ OnMessage(LastSent)
            \/ wire' # <<>> /\ Stream' = LastSent /\ UNCHANGED <<state, calls, out, crashed>>
<1> DEFINE i == Len(sent)
<1> DEFINE A == LastSent
<1> DEFINE p == SubSeq(wire, 1, n)
<1> DEFINE y == SubSeq(wire, n + 1, Len(wire))
<1>1. /\ sent \in Seq(Requests) /\ i \in Nat /\ DOMAIN sent = 1..i
      /\ wire \in Seq(AtomSet) /\ buf \in Seq(AtomSet) /\ Len(out) \in Nat
  BY Domains, LenProperties
<1>2. /\ ~crashed /\ CutAt(wire, n) \in Cuts /\ wire' = y /\ OnMessage(buf \o p)
      /\ UNCHANGED sent
  BY DEF Receive
<1>3. DOMAIN wire = 1..Len(wire) /\ Len(wire) \in Nat /\ n \in 1..Len(wire) /\ n \in Nat
      /\ n \in 0..Len(wire) /\ Len(buf) \in Nat
  BY <1>1, LenProperties
<1>4. Stream = A /\ Len(out) < i
  BY <1>2, <1>3, EmptySeq DEF Exchange, InTransit
<1>5. i \in 1..i /\ i >= 1
  BY <1>1, <1>4
<1>6. /\ A \in Seq([kind : Kinds \ {"last"}, of : {i}])
      /\ A[1].kind = "request" /\ \A q \in 2..Len(A) : A[q].kind # "request"
  <2>1. sent[i] \in Requests
    BY <1>1, <1>5, ElementOfSeq
  <2>2. IsRequest(A, i, sent[i])
    BY <1>1, <2>1, AtomsFacts DEF LastSent
  <2> HIDE DEF A, i
  <2> QED
    BY <2>2 DEF IsRequest
<1>7. \A q \in 1..Len(A) : A[q] \in [kind : Kinds \ {"last"}, of : {i}]
  BY <1>6, ElementOfSeq
<1> HIDE DEF A, i
<1>8. /\ Len(A) = Len(buf) + Len(wire)
      /\ \A q \in 1..Len(buf) : A[q] = buf[q]
      /\ \A q \in 1..Len(wire) : A[q + Len(buf)] = wire[q]
  BY <1>1, <1>4, Concatenation DEF Stream
<1>9. \A q \in 1..Len(wire) : wire[q] \in [kind : Kinds \ {"last"}, of : {i}]
  <2>1. \A q \in 1..Len(wire) : q + Len(buf) \in 1..Len(A)
    BY <1>3, <1>8
  <2> QED
    BY <1>7, <1>8, <2>1
<1>10. /\ p \in Seq(AtomSet) /\ Len(p) = n /\ \A j \in 1..n : p[j] = wire[j]
       /\ y \in Seq(AtomSet) /\ Len(y) = Len(wire) - n
       /\ \A j \in 1..Len(wire) - n : y[j] = wire[j + n]
  BY <1>1, <1>3, Prefix, Suffix
<1>11. CASE n = Len(wire)
  <2>1. p = wire
    BY <1>1, <1>11, SubSeqFull
  <2>2. y = <<>>
    <3>1. Len(y) = 0
      BY <1>3, <1>10, <1>11
    <3> QED
      BY <1>10, <3>1, EmptySeq
  <2>3. OnMessage(A)
    BY <1>2, <1>4, <2>1 DEF Stream
  <2> QED
    BY <1>2, <1>4, <1>5, <2>2, <2>3 DEF A, i
<1>12. CASE n # Len(wire)
  <2>1. n + 1 \in 1..Len(wire)
    BY <1>3, <1>12
  <2>2. wire[n].of = wire[n + 1].of /\ wire[n].kind # "last"
    <3>1. wire[n] \in [kind : Kinds \ {"last"}, of : {i}]
          /\ wire[n + 1] \in [kind : Kinds \ {"last"}, of : {i}]
      BY <1>3, <1>9, <2>1
    <3> QED
      BY <3>1
  <2>3. wire[n].kind = "request"
    BY <1>2, <1>12, <2>2 DEF CutAt, WholePieces
  <2>4. n = 1 /\ Len(buf) = 0
    <3>1. n + Len(buf) \in 1..Len(A) /\ A[n + Len(buf)].kind = "request"
      BY <1>3, <1>8, <2>3
    <3>2. ~(n + Len(buf) \in 2..Len(A))
      BY <1>6, <3>1
    <3>3. n + Len(buf) = 1
      BY <3>1, <3>2, <1>3
    <3> QED
      BY <1>3, <3>3
  <2>5. buf = <<>>
    BY <1>1, <2>4, EmptySeq
  <2>6. buf \o p = p
    BY <1>10, <2>5, ConcatEmptySeq
  <2>7. CRLFs(p) = {}
    <3>1. p \in Seq(AtomSet) /\ Len(p) = 1 /\ p[1].kind = "request"
      BY <1>10, <2>3, <2>4
    <3> HIDE DEF p
    <3>2. DOMAIN p = 1..1
      BY <3>1, LenProperties
    <3> QED
      BY <3>1, <3>2 DEF CRLFs
  <2>8. buf' = p /\ UNCHANGED <<state, calls, out, crashed>>
    BY <1>2, <2>6, <2>7 DEF OnMessage
  <2>9. y # <<>>
    <3>1. Len(y) # 0
      BY <1>3, <1>10, <1>12
    <3> QED
      BY <3>1, EmptySeq
  <2>10. p \o y = wire
    <3>1. 1 \in 1..Len(wire) + 1 /\ n \in 1 - 1..Len(wire) /\ Len(wire) \in n..Len(wire)
      BY <1>3
    <3>2. p \o y = SubSeq(wire, 1, Len(wire))
      BY <1>1, <3>1, ConcatAdjacentSubSeq
    <3> QED
      BY <1>1, <3>2, SubSeqFull
  <2>11. buf \o wire = wire
    BY <1>1, <2>5, ConcatEmptySeq
  <2>12. Stream' = Stream
    BY <1>2, <2>8, <2>10, <2>11 DEF Stream
  <2> QED
    BY <1>2, <1>4, <1>5, <2>8, <2>9, <2>12 DEF A, i
<1> QED
  BY <1>11, <1>12

(* Every step but a retrieved piece leaves the handled bodies what they    *)
(* are: what was sent is not changed any more.                             *)
LEMMA BodiesKept ==
  ASSUME IInv, BodiesWhole, UNCHANGED calls,
         \A k \in 1..Len(sent) : sent'[k] = sent[k]
  PROVE  BodiesWhole'
<1> SUFFICES ASSUME NEW k \in DOMAIN calls PROVE calls[k].body = Body(calls[k].of)'
  BY DEF BodiesWhole
<1>1. calls[k].of \in 1..Len(sent)
  <2>1. DOMAIN sent = 1..Len(sent)
    BY Domains
  <2> QED
    BY <2>1 DEF IInv, TypeOK
<1>2. Body(calls[k].of)' = Body(calls[k].of)
  BY <1>1 DEF Body
<1> QED
  BY <1>2 DEF BodiesWhole

(* A client that waits sends only into an idle connection.                 *)
LEMMA SendsIdle ==
  ASSUME IInv, Exchange, Waits, NEW r \in Requests, Send(r)
  PROVE  ~crashed /\ buf = <<>> /\ wire = <<>>
<1>1. ~crashed /\ (sent = <<>> \/ \E k \in DOMAIN out : out[k].of = Len(sent))
  BY DEF Send, Waits
<1>2. DOMAIN out = 1..Len(out) /\ Len(out) \in Nat /\ Len(sent) \in Nat
  BY Domains
<1>3. ~(Len(out) < Len(sent))
  <2>1. CASE sent = <<>>
    <3>1. Len(sent) = 0
      BY <2>1, EmptySeq
    <3> QED
      BY <1>2, <3>1
  <2>2. CASE \E k \in DOMAIN out : out[k].of = Len(sent)
    <3>1. PICK k \in 1..Len(out) : out[k].of = Len(sent)
      BY <1>2, <2>2
    <3>2. k = Len(sent)
      BY <3>1 DEF Exchange, Numbered
    <3> QED
      BY <1>2, <3>1, <3>2
  <2> QED
    BY <1>1, <2>1, <2>2
<1> QED
  BY <1>1, <1>3 DEF Exchange, InTransit

(* The client's next request is all there is in the stream.                *)
LEMMA SendExchange ==
  ASSUME IInv, Exchange, Waits, NEW r \in Requests, Send(r)
  PROVE  Exchange'
<1> DEFINE i == Len(sent) + 1
<1> DEFINE A == Atoms(i, r)
<1>1. sent' = Append(sent, r) /\ wire' = wire \o A /\ UNCHANGED <<buf, state, calls, out, crashed>>
  BY DEF Send
<1>2. ~crashed /\ buf = <<>> /\ wire = <<>>
  BY SendsIdle
<1>3. sent \in Seq(Requests) /\ Len(sent) \in Nat /\ Len(out) \in Nat
  BY Domains, LenProperties
<1>4. sent' \in Seq(Requests) /\ Len(sent') = i /\ sent'[i] = r
      /\ \A k \in 1..Len(sent) : sent'[k] = sent[k]
  BY <1>1, <1>3, AppendedTo
<1>5. A \in Seq([kind : Kinds \ {"last"}, of : {i}]) /\ A # <<>>
  <2>1. i \in Nat
    BY <1>3
  <2>2. IsRequest(A, i, r)
    BY <2>1, AtomsFacts
  <2> HIDE DEF A, i
  <2>3. A \in Seq([kind : Kinds \ {"last"}, of : {i}]) /\ Len(A) # 0
    BY <2>2 DEF IsRequest
  <2> QED
    BY <2>3, EmptySeq
<1> HIDE DEF A
<1>6. wire' = A /\ Stream' = A
  <2>1. <<>> \o A = A
    BY <1>5, ConcatEmptySeq
  <2> QED
    BY <1>1, <1>2, <2>1 DEF Stream
<1>7. LastSent' = A
  BY <1>4 DEF LastSent, A
<1>8. Len(out) <= Len(sent) /\ \A k \in 1..Len(out) : out[k].of = k
  BY DEF Exchange, Numbered
<1>9. InTransit'
  BY <1>1, <1>3, <1>4, <1>5, <1>6, <1>7, <1>8 DEF InTransit
<1>10. Numbered'
  BY <1>1, <1>3, <1>4, <1>8 DEF Numbered
<1>11. Served'
  <2>1. state = "connected" => Len(out) = Len(sent)
    BY <1>2 DEF Exchange, Served
  <2> QED
    BY <1>1, <1>3, <1>4, <1>5, <1>6, <2>1 DEF Served
<1>12. BodiesWhole'
  BY <1>1, <1>4, BodiesKept DEF Exchange
<1> QED
  BY <1>9, <1>10, <1>11, <1>12 DEF Exchange

(* What an answer to the request sent last does to the client's history.   *)
LEMMA AnswerEffect ==
  ASSUME IInv, Exchange, ~crashed, wire # <<>>, Len(sent) >= 1, AnswersIt(Len(sent))
  PROVE  \/ /\ state = "connected" /\ Len(out) = Len(sent) - 1
            /\ out' \in Seq(OutSet) /\ Len(out') = Len(sent)
            /\ out'[Len(sent)].of = Len(sent)
            /\ \A k \in 1..Len(out) : out'[k] = out[k]
            /\ state' \in {"connected", "disconnecting"}
            /\ \/ state' = "connected" \/ out'[Len(sent)].close
               \/ sent[Len(sent)].length = NotANumber
         \/ state = "disconnecting" /\ UNCHANGED <<out, state>>
<1> DEFINE i == Len(sent)
<1>1. PICK status \in StatusCodes, close \in BOOLEAN, stop \in BOOLEAN :
        /\ close => stop
        /\ stop => close \/ sent[i].length = NotANumber
        /\ Respond(i, status, close, stop)
  BY DEF AnswersIt
<1> DEFINE e == [of |-> i, status |-> status, close |-> close]
<1>2. /\ out' = IF state = "connected" THEN Append(out, e) ELSE out
      /\ state' = IF stop THEN "disconnecting" ELSE state
  BY <1>1 DEF Respond, Stops
<1>3. out \in Seq(OutSet) /\ Len(out) \in Nat /\ i \in 1..MaxRequests
      /\ state \in {"connected", "disconnecting"}
  BY Domains
<1>4. CASE state = "connected"
  <2>1. Len(out) = i - 1
    BY <1>4 DEF Exchange, Served
  <2>2. e \in OutSet
    <3>1. i \in Bound \ {0}
      BY <1>3 DEF Bound
    <3> QED
      BY <3>1 DEF OutSet
  <2>3. out' = Append(out, e)
    BY <1>2, <1>4
  <2> HIDE DEF e
  <2>4. /\ out' \in Seq(OutSet) /\ Len(out') = Len(out) + 1 /\ out'[Len(out) + 1] = e
        /\ \A k \in 1..Len(out) : out'[k] = out[k]
    BY <1>3, <2>2, <2>3, AppendedTo
  <2>5. Len(out) + 1 = i
    BY <1>3, <2>1
  <2>6. out'[i].of = i /\ out'[i].close = close
    BY <2>4, <2>5 DEF e
  <2>7. state' \in {"connected", "disconnecting"} /\ (state' = "connected" \/ stop)
    BY <1>2, <1>4
  <2> QED
    BY <1>1, <1>4, <2>1, <2>4, <2>5, <2>6, <2>7
<1>5. CASE state = "disconnecting"
  BY <1>2, <1>5
<1> QED
  BY <1>3, <1>4, <1>5

(* A piece that completes the request has it served; one that does not     *)
(* leaves it in the stream.                                                *)
LEMMA ReceiveExchange ==
  ASSUME IInv, Exchange, WholePieces, Announces, NEW n \in DOMAIN wire, Receive(n)
  PROVE  Exchange'
<1> DEFINE i == Len(sent)
<1>1. /\ Len(sent) >= 1 /\ Stream = LastSent /\ Len(out) < Len(sent)
      /\ \/ wire' = <<>> /\ OnMessage(LastSent)
         \/ wire' # <<>> /\ Stream' = LastSent /\ UNCHANGED <<state, calls, out, crashed>>
  BY Pieces
<1>2. ~crashed /\ UNCHANGED sent
  BY DEF Receive
<1>3. /\ sent \in Seq(Requests) /\ i \in Nat /\ i \in 1..i /\ Len(out) \in Nat
      /\ calls \in Seq(CallSet) /\ DOMAIN calls = 1..Len(calls) /\ Len(calls) \in Nat
      /\ wire # <<>>
  BY <1>1, Domains, LenProperties, EmptySeq
<1>4. LastSent' = LastSent /\ \A k : Body(k)' = Body(k)
  BY <1>2 DEF LastSent, Body
<1>5. Len(out) <= Len(sent) /\ \A k \in 1..Len(out) : out[k].of = k
  BY DEF Exchange, Numbered
<1>6. state = "connected" => Len(out) = i - 1
  BY <1>2, <1>3 DEF Exchange, Served
<1>7. CASE wire' # <<>> /\ Stream' = LastSent /\ UNCHANGED <<state, calls, out, crashed>>
  <2>1. InTransit'
    BY <1>1, <1>2, <1>4, <1>7 DEF InTransit
  <2>2. Numbered'
    BY <1>2, <1>5, <1>7 DEF Numbered
  <2>3. Served'
    BY <1>2, <1>6, <1>7 DEF Served
  <2>4. BodiesWhole'
    BY <1>2, <1>7, BodiesKept DEF Exchange
  <2> QED
    BY <2>1, <2>2, <2>3, <2>4 DEF Exchange
<1>8. CASE wire' = <<>> /\ OnMessage(LastSent)
  <2>1. Serves(i)
    BY <1>3, <1>8, ServesWhole DEF LastSent
  <2>2. InTransit'
    BY <1>8, <2>1 DEF Serves, InTransit
  <2>3. BodiesWhole'
    <3>1. CASE UNCHANGED calls
      BY <1>2, <3>1, BodiesKept DEF Exchange
    <3>2. CASE calls' = Append(calls, [of |-> i, body |-> Body(i)])
      <4>1. [of |-> i, body |-> Body(i)] \in [of : {i}, body : {Body(i)}]
        OBVIOUS
      <4>2. calls \in Seq(CallSet \cup [of : {i}, body : {Body(i)}])
        BY <1>3
      <4>3. calls' \in Seq(CallSet \cup [of : {i}, body : {Body(i)}])
            /\ Len(calls') = Len(calls) + 1
            /\ calls'[Len(calls) + 1] = [of |-> i, body |-> Body(i)]
            /\ \A k \in 1..Len(calls) : calls'[k] = calls[k]
        BY <3>2, <4>1, <4>2, AppendedTo
      <4>4. DOMAIN calls' = 1..Len(calls) + 1
        BY <4>3, LenProperties
      <4>5. ASSUME NEW k \in 1..Len(calls) + 1 PROVE calls'[k].body = Body(calls'[k].of)
        <5>1. CASE k \in 1..Len(calls)
          BY <1>3, <4>3, <5>1 DEF Exchange, BodiesWhole
        <5>2. CASE k = Len(calls) + 1
          BY <4>3, <5>2
        <5>3. k \in 1..Len(calls) \/ k = Len(calls) + 1
          BY <1>3
        <5> QED
          BY <5>1, <5>2, <5>3
      <4> QED
        BY <1>4, <4>4, <4>5 DEF BodiesWhole
    <3> QED
      BY <2>1, <3>1, <3>2 DEF Serves
  <2>4. Numbered' /\ Served'
    <3>1. CASE crashed' = TRUE /\ UNCHANGED <<out, state>>
      BY <1>2, <1>5, <3>1 DEF Numbered, Served
    <3>2. CASE AnswersIt(i) /\ UNCHANGED crashed
      <4>1. CASE /\ Len(out) = i - 1 /\ Len(out') = i /\ out'[i].of = i
                 /\ \A k \in 1..Len(out) : out'[k] = out[k]
        <5>1. \A k \in 1..i : out'[k].of = k
          BY <1>3, <1>5, <4>1
        <5> QED
          BY <1>2, <1>3, <1>8, <4>1, <5>1 DEF Numbered, Served
      <4>2. CASE state = "disconnecting" /\ UNCHANGED <<out, state>>
        BY <1>2, <1>5, <4>2 DEF Numbered, Served
      <4> QED
        BY <1>1, <1>2, <1>3, <3>2, <4>1, <4>2, AnswerEffect
    <3> QED
      BY <2>1, <3>1, <3>2 DEF Serves
  <2> QED
    BY <2>2, <2>3, <2>4 DEF Exchange
<1> QED
  BY <1>1, <1>7, <1>8

(* The connection begins idle.                                             *)
LEMMA InitExchange == Init => Exchange /\ Stopped
<1> SUFFICES ASSUME Init PROVE Exchange /\ Stopped
  OBVIOUS
<1>1. /\ sent = <<>> /\ wire = <<>> /\ buf = <<>> /\ calls = <<>> /\ out = <<>>
      /\ state = "connected" /\ crashed = FALSE
  BY DEF Init
<1>2. Len(<<>>) = 0
  BY EmptySeq
<1>3. DOMAIN calls = {}
  BY <1>1
<1>4. InTransit /\ Served /\ Stopped
  BY <1>1, <1>2 DEF InTransit, Served, Stopped
<1>5. Numbered
  BY <1>1, <1>2 DEF Numbered
<1> QED
  BY <1>3, <1>4, <1>5 DEF Exchange, BodiesWhole

(* Every step keeps the invariant.                                         *)
LEMMA NextExchange ==
  ASSUME Waits, WholePieces, Announces, IInv, Exchange, [Next]_vars
  PROVE  Exchange'
<1>1. CASE \E r \in Requests : Send(r)
  BY <1>1, SendExchange
<1>2. CASE \E n \in DOMAIN wire : Receive(n)
  BY <1>2, ReceiveExchange
<1>3. CASE UNCHANGED vars
  <2>1. UNCHANGED <<sent, wire, buf, state, calls, out, crashed>>
    BY <1>3 DEF vars
  <2>2. LastSent' = LastSent /\ Stream' = Stream
    BY <2>1 DEF LastSent, Stream
  <2>3. InTransit' /\ Numbered' /\ Served'
    BY <2>1, <2>2 DEF Exchange, InTransit, Numbered, Served
  <2>4. BodiesWhole'
    BY <2>1, BodiesKept DEF Exchange
  <2> QED
    BY <2>3, <2>4 DEF Exchange
<1> QED
  BY <1>1, <1>2, <1>3 DEF Next

-------------------------------------------------------------------------------
(* The connection is a RequestReply connection.                            *)

(* With one more answer the client's record of answers is one longer.      *)
LEMMA AnsweredAppend ==
  ASSUME NEW S, NEW s \in Seq(S), NEW t \in Seq(S), Len(t) = Len(s) + 1,
         \A k \in 1..Len(s) : t[k] = s[k],
         t[Len(s) + 1].of = Len(s) + 1
  PROVE  LET u == [k \in DOMAIN s |-> s[k].of]
             v == [k \in DOMAIN t |-> t[k].of]
         IN Len(u) = Len(s) /\ v = Append(u, Len(u) + 1)
<1> DEFINE R == {s[k].of : k \in DOMAIN s} \cup {t[k].of : k \in DOMAIN t} \cup {Len(s) + 1}
<1> DEFINE u == [k \in DOMAIN s |-> s[k].of]
<1> DEFINE v == [k \in DOMAIN t |-> t[k].of]
<1>1. Len(s) \in Nat /\ DOMAIN s = 1..Len(s) /\ DOMAIN t = 1..Len(s) + 1
  BY LenProperties
<1>2. u \in [1..Len(s) -> R] /\ v \in [1..Len(s) + 1 -> R] /\ Len(s) + 1 \in R
  BY <1>1
<1>3. \A k \in 1..Len(s) : v[k] = u[k]
  BY <1>1
<1>4. v[Len(s) + 1] = Len(s) + 1
  BY <1>1
<1> HIDE DEF u, v, R
<1>5. u \in Seq(R) /\ Len(u) = Len(s) /\ v \in Seq(R) /\ Len(v) = Len(s) + 1
  <2>1. u \in Seq(R) /\ Len(u) = Len(s)
    BY <1>1, <1>2, FunctionSeq
  <2>2. Len(s) + 1 \in Nat /\ v \in [1..Len(s) + 1 -> R]
    BY <1>1, <1>2
  <2>3. v \in Seq(R) /\ Len(v) = Len(s) + 1
    BY ZenonT(60), <2>2, FunctionSeq
  <2> QED
    BY <2>1, <2>3
<1> DEFINE w == Append(u, Len(u) + 1)
<1>6. /\ w \in Seq(R) /\ Len(w) = Len(s) + 1 /\ w[Len(s) + 1] = Len(s) + 1
      /\ \A k \in 1..Len(s) : w[k] = u[k]
  BY <1>2, <1>5, AppendedTo
<1> HIDE DEF w
<1>7. \A k \in 1..Len(v) : v[k] = w[k]
  <2>1. \A k \in 1..Len(v) : k \in 1..Len(s) \/ k = Len(s) + 1
    BY <1>1, <1>5
  <2> QED
    BY <1>3, <1>4, <1>6, <2>1
<1>8. v = w
  BY <1>5, <1>6, <1>7, SeqEqual
<1> QED
  BY <1>5, <1>8 DEF u, v, w

(* A client that sends is not talking to a connection that shuts down, and *)
(* asks one question more.                                                 *)
LEMMA SendAsks ==
  ASSUME IInv, Exchange, Stopped, Waits, NEW r \in Requests, Send(r)
  PROVE  Client!Ask /\ Stopped'
<1>1. sent' = Append(sent, r) /\ UNCHANGED <<state, out>> /\ \A k \in DOMAIN out : ~out[k].close
  BY DEF Send
<1>2. sent \in Seq(Requests) /\ DOMAIN out = 1..Len(out)
  BY Domains
<1>3. state # "disconnecting"
  BY <1>1, <1>2 DEF Stopped
<1>4. Len(sent') = Len(sent) + 1
  BY <1>1, <1>2, AppendedTo
<1> QED
  BY <1>1, <1>3, <1>4 DEF Client!Ask, Stopped

(* A piece is answered, by the next answer the client waits for, or not.   *)
LEMMA ReceiveAnswers ==
  ASSUME IInv, Exchange, Stopped, WholePieces, Announces, Numeric,
         NEW n \in DOMAIN wire, Receive(n)
  PROVE  (Client!Answer \/ UNCHANGED Client!vars) /\ Stopped'
<1> DEFINE i == Len(sent)
<1>1. /\ Len(sent) >= 1 /\ Len(out) < Len(sent)
      /\ \/ wire' = <<>> /\ OnMessage(LastSent)
         \/ wire' # <<>> /\ Stream' = LastSent /\ UNCHANGED <<state, calls, out, crashed>>
  BY Pieces
<1>2. ~crashed /\ UNCHANGED sent
  BY DEF Receive
<1>3. /\ sent \in Seq(Requests) /\ i \in Nat /\ i \in 1..i /\ Len(out) \in Nat
      /\ out \in Seq(OutSet) /\ wire # <<>> /\ state \in {"connected", "disconnecting"}
  BY <1>1, Domains, LenProperties, EmptySeq
<1>4. state = "connected"
  BY <1>3 DEF Stopped
<1>5. sent[i].length # NotANumber
  BY <1>3, ElementOfSeq DEF Numeric
<1>6. CASE UNCHANGED <<out, state>>
  BY <1>2, <1>4, <1>6 DEF Client!vars, Stopped
<1>7. CASE wire' = <<>> /\ AnswersIt(i)
  <2>1. /\ Len(out) = i - 1 /\ out' \in Seq(OutSet) /\ Len(out') = i /\ out'[i].of = i
        /\ \A k \in 1..Len(out) : out'[k] = out[k]
        /\ state' \in {"connected", "disconnecting"}
        /\ state' = "connected" \/ out'[i].close
    BY <1>1, <1>2, <1>3, <1>4, <1>5, <1>7, AnswerEffect
  <2>2. Len(out) + 1 = i
    BY <1>3, <2>1
  <2> DEFINE u == [k \in DOMAIN out |-> out[k].of]
  <2> DEFINE v == [k \in DOMAIN out' |-> out'[k].of]
  <2>3. Len(u) = Len(out) /\ v = Append(u, Len(u) + 1)
    <3>1. Len(out') = Len(out) + 1 /\ out'[Len(out) + 1].of = Len(out) + 1
      BY <2>1, <2>2
    <3> QED
      BY <1>3, <2>1, <3>1, AnsweredAppend
  <2>4. Client!Answer
    BY <1>1, <1>2, <1>4, <2>3 DEF Client!Answer
  <2>5. Stopped'
    <3>1. i \in 1..Len(out')
      BY <1>3, <2>1
    <3> QED
      BY <1>7, <2>1, <3>1 DEF Stopped
  <2> QED
    BY <2>4, <2>5
<1>8. CASE wire' = <<>> /\ OnMessage(LastSent)
  <2>1. Serves(i)
    BY <1>3, <1>8, ServesWhole DEF LastSent
  <2> QED
    BY <1>6, <1>7, <1>8, <2>1 DEF Serves
<1> QED
  BY <1>1, <1>6, <1>8

(* Every step is one of the abstract connection's, or none of them.        *)
LEMMA NextAnswers ==
  ASSUME Waits, WholePieces, Announces, Numeric, IInv, Exchange, Stopped, [Next]_vars
  PROVE  [Client!Next]_(Client!vars) /\ Stopped'
<1>1. CASE \E r \in Requests : Send(r)
  BY <1>1, SendAsks DEF Client!Next
<1>2. CASE \E n \in DOMAIN wire : Receive(n)
  BY <1>2, ReceiveAnswers DEF Client!Next
<1>3. CASE UNCHANGED vars
  BY <1>3 DEF vars, Client!vars, Stopped
<1> QED
  BY <1>1, <1>2, <1>3 DEF Next

(* Nothing has been asked at first.                                        *)
LEMMA InitAsksNothing == Init => Client!Init
<1> SUFFICES ASSUME Init PROVE Client!Init
  OBVIOUS
<1>1. sent = <<>> /\ out = <<>> /\ state = "connected"
  BY DEF Init
<1>2. Len(<<>>) = 0 /\ DOMAIN out = {}
  BY <1>1, EmptySeq
<1>3. [k \in DOMAIN out |-> out[k].of] = <<>>
  BY <1>2
<1> QED
  BY <1>1, <1>2, <1>3 DEF Client!Init

-------------------------------------------------------------------------------
(* The theorems.                                                           *)

(* For a client that waits and requests that arrive whole, the invariant   *)
(* holds throughout: onMessage leaves nothing in the buffer but a request  *)
(* line whose CRLF is still to come.                                       *)
THEOREM ExchangeInvariance ==
  ASSUME Waits, WholePieces, Announces
  PROVE  Spec => []Exchange
<1>1. Init => Exchange
  BY InitExchange
<1>2. IInv /\ Exchange /\ [Next]_vars => Exchange'
  BY NextExchange
<1> QED
  BY <1>1, <1>2, Invariance, PTL DEF Spec

(* A request that arrives whole, or cut before its first CRLF, gives its   *)
(* handler exactly its body.                                               *)
THEOREM BodiesWholeSafe ==
  ASSUME Waits, WholePieces, Announces
  PROVE  Spec => []BodiesWhole
<1>1. Exchange => BodiesWhole
  BY DEF Exchange
<1> QED
  BY <1>1, ExchangeInvariance, PTL

(* When everything has arrived and the connection is open, every request   *)
(* of a waiting client has its answer, in whatever pieces of these it came.*)
THEOREM NothingStrandedSafe ==
  ASSUME Waits, WholePieces, Announces
  PROVE  Spec => []NothingStranded
<1>1. IInv /\ Exchange => NothingStranded
  <2> SUFFICES ASSUME IInv, Exchange, wire = <<>>, state = "connected", ~crashed,
                      NEW i \in DOMAIN sent
               PROVE  \E k \in DOMAIN out : out[k].of = i
    BY DEF NothingStranded
  <2>1. Len(out) = Len(sent)
    BY DEF Exchange, Served
  <2>2. DOMAIN sent = 1..Len(sent) /\ DOMAIN out = 1..Len(out)
    BY Domains
  <2> QED
    BY <2>1, <2>2 DEF Exchange, Numbered
<1> QED
  BY <1>1, ExchangeInvariance, Invariance, PTL

(* The connection implements RequestReply: each question of a waiting      *)
(* client is answered once, in order, until an answer closes it.           *)
THEOREM AnswersEachOnceSafe ==
  ASSUME Waits, WholePieces, Announces, Numeric
  PROVE  Spec => AnswersEachOnce
<1>1. Init => Stopped /\ Client!Init
  BY InitExchange, InitAsksNothing
<1>2. IInv /\ Exchange /\ Stopped /\ [Next]_vars => Stopped' /\ [Client!Next]_(Client!vars)
  BY NextAnswers
<1> QED
  BY <1>1, <1>2, Invariance, ExchangeInvariance, PTL DEF Spec, AnswersEachOnce, Client!Spec
===============================================================================
