------------------------- MODULE HTTPConnectionProofs -------------------------
(***************************************************************************)
(* What onMessage never does, however the stream is cut and however many   *)
(* requests of whatever kind it carries.                                   *)
(*                                                                         *)
(* The buffer and what is on the way to it are always an end of the stream *)
(* the client has sent.  So a call finds a request line only where a       *)
(* request begins, every line is found once, and in the client's order;    *)
(* and what follows a request line is the rest of the same request.        *)
(***************************************************************************)
EXTENDS HTTPConnection, SequenceTheorems, WellFoundedInduction, TLAPS

AtomSet == [kind : Kinds \ {"last"}, of : Bound \ {0}]
CallSet == [of : Bound \ {0}, body : Seq(AtomSet)]
OutSet == [of : Bound \ {0}, status : StatusCodes, close : BOOLEAN]

(* What has not been retrieved yet.                                        *)
Stream == buf \o wire

(* calls and out are sequences, of which TypeOK says only what is in them. *)
Histories == calls \in Seq(CallSet) /\ out \in Seq(OutSet)

(* Only requests that were sent are in the stream.                         *)
Announced == \A j \in 1..Len(Stream) : Stream[j].of \in 1..Len(sent)

(* The request lines in the stream are in order, and of none of them has   *)
(* anything been handled.                                                  *)
LinesGrow ==
  /\ \A i, j \in 1..Len(Stream) :
       i < j /\ Stream[i].kind = "request" /\ Stream[j].kind = "request" =>
         Stream[i].of < Stream[j].of
  /\ \A j \in 1..Len(Stream), k \in 1..Len(calls) :
       Stream[j].kind = "request" => calls[k].of < Stream[j].of

(* After a request line comes the rest of its request.                     *)
Whole(s) ==
  \A p \in 1..Len(s) : s[p].kind = "request" =>
    \A q \in 1..Len(Atoms(s[p].of, sent[s[p].of])) :
      /\ p + q - 1 <= Len(s)
      /\ s[p + q - 1] = Atoms(s[p].of, sent[s[p].of])[q]

(* Only a connection that is shutting down has sent a closing answer.      *)
Closing == state = "connected" => \A k \in 1..Len(out) : ~out[k].close

IInv ==
  /\ TypeOK /\ Histories
  /\ Announced /\ LinesGrow /\ Whole(Stream)
  /\ Closing /\ SilentAfterClose /\ HandledInOrder /\ OwnBodyOnly

-------------------------------------------------------------------------------
(* Least and greatest positions.                                           *)

(* A set of naturals has its least element in it.                          *)
LEMMA MinIn ==
  ASSUME NEW S, S \subseteq Nat, S # {}
  PROVE  Min(S) \in S /\ \A y \in S : Min(S) <= y
<1>1. \E x \in S : \A y \in S : ~ (<<y, x>> \in OpToRel(<, Nat))
  BY NatLessThanWellFounded, WFMin
<1>2. \E x \in S : \A y \in S : x <= y
  <2>1. PICK x \in S : \A y \in S : ~ (<<y, x>> \in OpToRel(<, Nat))
    BY <1>1
  <2>2. \A y \in S : ~ (y < x)
    BY <2>1 DEF OpToRel
  <2> QED
    BY <2>2
<1> QED
  BY <1>2 DEF Min

(* A set of positions up to n has its greatest element in it.              *)
LEMMA MaxIn ==
  ASSUME NEW n \in Nat, NEW S, S \subseteq 1..n, S # {}
  PROVE  Max(S) \in S /\ \A y \in S : Max(S) >= y
<1> DEFINE T == {n - x : x \in S}
<1>1. T \subseteq Nat /\ T # {}
  <2>1. \A x \in S : n - x \in Nat
    OBVIOUS
  <2>2. PICK x \in S : TRUE
    OBVIOUS
  <2>3. n - x \in T
    OBVIOUS
  <2> QED
    BY <2>1, <2>3
<1>2. Min(T) \in T /\ \A y \in T : Min(T) <= y
  BY <1>1, MinIn
<1>3. PICK x \in S : Min(T) = n - x
  BY <1>2
<1>4. \A y \in S : x >= y
  <2> SUFFICES ASSUME NEW y \in S PROVE x >= y
    OBVIOUS
  <2>1. n - y \in T
    OBVIOUS
  <2>2. n - x <= n - y
    BY <1>2, <1>3, <2>1
  <2> QED
    BY <2>2
<1> QED
  BY <1>4 DEF Max

-------------------------------------------------------------------------------
(* The ends of sequences.                                                  *)

(* The elements of a concatenation.                                        *)
LEMMA Concatenation ==
  ASSUME NEW S, NEW s \in Seq(S), NEW t \in Seq(S)
  PROVE  /\ s \o t \in Seq(S) /\ Len(s \o t) = Len(s) + Len(t)
         /\ \A q \in 1..Len(s) : (s \o t)[q] = s[q]
         /\ \A q \in 1..Len(t) : (s \o t)[q + Len(s)] = t[q]
<1>1. /\ s \o t \in Seq(S) /\ Len(s \o t) = Len(s) + Len(t)
      /\ \A q \in 1..Len(s) + Len(t) :
           (s \o t)[q] = IF q <= Len(s) THEN s[q] ELSE t[q - Len(s)]
  BY ConcatProperties
<1>2. Len(s) \in Nat /\ Len(t) \in Nat
  BY LenProperties
<1>3. \A q \in 1..Len(s) : q \in 1..Len(s) + Len(t) /\ q <= Len(s)
  BY <1>2
<1>4. ASSUME NEW q \in 1..Len(t) PROVE (s \o t)[q + Len(s)] = t[q]
  <2>1. q + Len(s) \in 1..Len(s) + Len(t) /\ ~(q + Len(s) <= Len(s)) /\ q + Len(s) - Len(s) = q
    BY <1>2
  <2> QED
    BY <1>1, <2>1
<1> QED
  BY <1>1, <1>3, <1>4

(* Concatenation is associative.                                           *)
LEMMA Associative ==
  ASSUME NEW S, NEW s \in Seq(S), NEW t \in Seq(S), NEW u \in Seq(S)
  PROVE  (s \o t) \o u = s \o (t \o u)
  BY ConcatAssociative

(* The elements of a sequence with one more at its end.                    *)
LEMMA AppendedTo ==
  ASSUME NEW S, NEW s \in Seq(S), NEW e \in S
  PROVE  /\ Append(s, e) \in Seq(S) /\ Len(Append(s, e)) = Len(s) + 1
         /\ Append(s, e)[Len(s) + 1] = e
         /\ \A k \in 1..Len(s) : Append(s, e)[k] = s[k]
  BY AppendProperties

(* A function on 1..n is a sequence.                                       *)
LEMMA FunctionSeq ==
  ASSUME NEW S, NEW n \in Nat, NEW f \in [1..n -> S]
  PROVE  f \in Seq(S) /\ Len(f) = n
<1>1. f \in Seq(S)
  BY SeqDef
<1> QED
  BY <1>1, LenProperties

(* What is left when the first d elements are gone.                        *)
LEMMA Suffix ==
  ASSUME NEW S, NEW s \in Seq(S), NEW d \in 0..Len(s)
  PROVE  /\ SubSeq(s, d + 1, Len(s)) \in Seq(S)
         /\ Len(SubSeq(s, d + 1, Len(s))) = Len(s) - d
         /\ \A j \in 1..Len(s) - d : SubSeq(s, d + 1, Len(s))[j] = s[j + d]
<1>1. Len(s) \in Nat /\ \A i \in d + 1..Len(s) : s[i] \in S
  BY ElementOfSeq, LenProperties
<1> QED
  BY <1>1, SubSeqProperties

(* The first d elements.                                                   *)
LEMMA Prefix ==
  ASSUME NEW S, NEW s \in Seq(S), NEW d \in 0..Len(s)
  PROVE  /\ SubSeq(s, 1, d) \in Seq(S)
         /\ Len(SubSeq(s, 1, d)) = d
         /\ \A j \in 1..d : SubSeq(s, 1, d)[j] = s[j]
<1>1. Len(s) \in Nat /\ \A i \in 1..d : s[i] \in S
  BY ElementOfSeq, LenProperties
<1> QED
  BY <1>1, SubSeqProperties

(* Retrieving twice.                                                       *)
LEMMA SuffixOfSuffix ==
  ASSUME NEW S, NEW s \in Seq(S), NEW d \in 0..Len(s), NEW e \in 0..Len(s) - d
  PROVE  LET r == SubSeq(s, d + 1, Len(s))
         IN SubSeq(r, e + 1, Len(r)) = SubSeq(s, d + e + 1, Len(s))
<1> DEFINE r == SubSeq(s, d + 1, Len(s))
<1> DEFINE u == SubSeq(r, e + 1, Len(r))
<1> DEFINE v == SubSeq(s, d + e + 1, Len(s))
<1>1. Len(s) \in Nat
  BY LenProperties
<1>2. r \in Seq(S) /\ Len(r) = Len(s) - d /\ \A j \in 1..Len(s) - d : r[j] = s[j + d]
  BY Suffix
<1>3. e \in 0..Len(r) /\ d + e \in 0..Len(s)
  BY <1>1, <1>2
<1> HIDE DEF r
<1>4. u \in Seq(S) /\ Len(u) = Len(r) - e /\ \A j \in 1..Len(r) - e : u[j] = r[j + e]
  BY <1>2, <1>3, Suffix
<1>5. v \in Seq(S) /\ Len(v) = Len(s) - (d + e)
      /\ \A j \in 1..Len(s) - (d + e) : v[j] = s[j + (d + e)]
  BY <1>3, Suffix
<1>6. Len(u) = Len(v) /\ \A j \in 1..Len(u) : u[j] = v[j]
  BY <1>1, <1>2, <1>4, <1>5
<1>7. u = v
  BY <1>4, <1>5, <1>6, SeqEqual
<1> QED
  BY <1>7 DEF r

(* c is how sequence s begins.                                             *)
Begins(c, s) == Len(c) <= Len(s) /\ \A j \in 1..Len(c) : c[j] = s[j]

(* t is what is left of s without its first d elements.                    *)
IsRest(t, s, d) == Len(t) = Len(s) - d /\ \A j \in 1..Len(t) : t[j] = s[j + d]

(* A piece arrives and d atoms are retrieved: the rest of the stream.      *)
LEMMA Moved ==
  ASSUME NEW S, NEW b \in Seq(S), NEW w \in Seq(S), NEW n \in 1..Len(w),
         NEW d \in 0..Len(b \o SubSeq(w, 1, n))
  PROVE  LET c == b \o SubSeq(w, 1, n)
             s == SubSeq(c, d + 1, Len(c)) \o SubSeq(w, n + 1, Len(w))
         IN Begins(c, b \o w) /\ IsRest(s, b \o w, d)
<1> DEFINE p == SubSeq(w, 1, n)
<1> DEFINE c == b \o p
<1> DEFINE x == SubSeq(c, d + 1, Len(c))
<1> DEFINE y == SubSeq(w, n + 1, Len(w))
<1>1. Len(b) \in Nat /\ Len(w) \in Nat /\ n \in 0..Len(w)
  BY LenProperties
<1>2. p \in Seq(S) /\ Len(p) = n /\ \A j \in 1..n : p[j] = w[j]
  BY <1>1, Prefix
<1>3. y \in Seq(S) /\ Len(y) = Len(w) - n /\ \A j \in 1..Len(w) - n : y[j] = w[j + n]
  BY <1>1, Suffix
<1> HIDE DEF p, y
<1>4. /\ c \in Seq(S) /\ Len(c) = Len(b) + n
      /\ \A j \in 1..Len(b) + n : c[j] = IF j <= Len(b) THEN b[j] ELSE p[j - Len(b)]
  BY <1>2, ConcatProperties
<1>5. /\ b \o w \in Seq(S) /\ Len(b \o w) = Len(b) + Len(w)
      /\ \A j \in 1..Len(b) + Len(w) :
           (b \o w)[j] = IF j <= Len(b) THEN b[j] ELSE w[j - Len(b)]
  BY ConcatProperties
<1>6. d \in 0..Len(c)
  BY DEF p
<1> HIDE DEF c
<1>7. x \in Seq(S) /\ Len(x) = Len(c) - d /\ \A j \in 1..Len(c) - d : x[j] = c[j + d]
  BY <1>4, <1>6, Suffix
<1> HIDE DEF x
<1>8. /\ x \o y \in Seq(S) /\ Len(x \o y) = Len(x) + Len(y)
      /\ \A j \in 1..Len(x) + Len(y) : (x \o y)[j] = IF j <= Len(x) THEN x[j] ELSE y[j - Len(x)]
  BY <1>3, <1>7, ConcatProperties
<1>9. \A j \in 1..Len(c) : c[j] = (b \o w)[j]
  BY <1>1, <1>2, <1>4, <1>5
<1>10. Len(x \o y) = Len(b \o w) - d
  BY <1>1, <1>3, <1>4, <1>5, <1>7, <1>8
<1>11. /\ Len(x) \in Nat /\ Len(y) \in Nat /\ Len(c) \in Nat /\ d \in Nat /\ n \in Nat
       /\ Len(x) = Len(c) - d /\ Len(c) = Len(b) + n /\ Len(y) = Len(w) - n
  BY <1>1, <1>3, <1>4, <1>6, <1>7
<1>12. ASSUME NEW j \in 1..Len(x) + Len(y) PROVE (x \o y)[j] = (b \o w)[j + d]
  <2>1. CASE j <= Len(x)
    <3>a. j \in 1..Len(c) - d
      BY <1>11, <2>1
    <3>b. (x \o y)[j] = x[j]
      BY <1>8, <2>1
    <3>c. x[j] = c[j + d]
      BY <1>7, <3>a
    <3>1. (x \o y)[j] = c[j + d]
      BY <3>b, <3>c
    <3>2. j + d \in 1..Len(c)
      BY <1>11, <2>1
    <3> QED
      BY <1>9, <3>1, <3>2
  <2>2. CASE j > Len(x)
    <3>1. (x \o y)[j] = y[j - Len(x)]
      BY SMTT(60), <1>8, <1>11, <2>2
    <3>2. j - Len(x) \in 1..Len(w) - n
      BY <1>11, <2>2
    <3>3. y[j - Len(x)] = w[j - Len(x) + n]
      BY <1>3, <3>2
    <3>4. j + d \in 1..Len(b) + Len(w) /\ ~(j + d <= Len(b)) /\ j - Len(x) + n = j + d - Len(b)
      BY <1>1, <1>11, <2>2
    <3>5. (b \o w)[j + d] = w[j + d - Len(b)]
      BY <1>5, <3>4
    <3> QED
      BY <3>1, <3>3, <3>4, <3>5
  <2>3. j <= Len(x) \/ j > Len(x)
    BY <1>11
  <2> QED
    BY <2>1, <2>2, <2>3
<1>13. Len(c) <= Len(b \o w)
  BY <1>1, <1>4, <1>5
<1>14. /\ c \in Seq(S) /\ Len(c) = Len(b) + n /\ Len(c) <= Len(b \o w)
       /\ \A j \in 1..Len(c) : c[j] = (b \o w)[j]
       /\ x \o y \in Seq(S) /\ Len(x \o y) = Len(b \o w) - d
       /\ \A j \in 1..Len(x \o y) : (x \o y)[j] = (b \o w)[j + d]
  BY <1>4, <1>8, <1>9, <1>10, <1>12, <1>13
<1>15. Begins(c, b \o w) /\ IsRest(x \o y, b \o w, d)
  BY <1>14 DEF Begins, IsRest
<1> QED
  BY <1>15 DEF x, y, c, p

-------------------------------------------------------------------------------
(* What onMessage reads from a buffer b.                                   *)

(* The first line ends at the first CRLF, and the header loop stops after  *)
(* it, no later than after the first empty line.                           *)
LEMMA Lines ==
  ASSUME NEW b \in Seq(AtomSet), CRLFs(b) # {}
  PROVE  /\ Min(CRLFs(b)) \in 1..Len(b)
         /\ HeaderEnd(b) \in Min(CRLFs(b))..Len(b)
         /\ \A e \in 2..Len(b) :
              b[e].kind = "crlf" /\ b[e - 1].kind = "crlf" => HeaderEnd(b) <= e
<1> DEFINE C == CRLFs(b)
<1> DEFINE empty == {i \in C : i - 1 \in C}
<1>1. Len(b) \in Nat /\ DOMAIN b = 1..Len(b)
  BY LenProperties
<1>2. C \subseteq 1..Len(b) /\ C \subseteq Nat /\ C # {}
  BY <1>1 DEF CRLFs
<1>3. Min(C) \in C /\ \A y \in C : Min(C) <= y
  BY <1>2, MinIn
<1>4. CASE empty # {}
  <2>1. empty \subseteq C /\ empty \subseteq Nat
    BY <1>2
  <2>2. Min(empty) \in empty /\ \A y \in empty : Min(empty) <= y
    BY <1>4, <2>1, MinIn
  <2>3. HeaderEnd(b) = Min(empty)
    BY <1>4 DEF HeaderEnd
  <2>4. \A e \in 2..Len(b) : b[e].kind = "crlf" /\ b[e - 1].kind = "crlf" => e \in empty
    BY <1>1 DEF CRLFs
  <2>5. Min(empty) \in C /\ Min(empty) \in 1..Len(b) /\ Min(C) <= Min(empty)
    BY <1>2, <1>3, <2>1, <2>2
  <2> QED
    BY <1>2, <1>3, <2>2, <2>3, <2>4, <2>5
<1>5. CASE empty = {}
  <2>1. HeaderEnd(b) = Max(C)
    BY <1>5 DEF HeaderEnd
  <2>2. Max(C) \in C
    BY <1>1, <1>2, MaxIn
  <2>3. \A e \in 2..Len(b) : ~ (b[e].kind = "crlf" /\ b[e - 1].kind = "crlf")
    <3> SUFFICES ASSUME NEW e \in 2..Len(b), b[e].kind = "crlf", b[e - 1].kind = "crlf"
                 PROVE  FALSE
      OBVIOUS
    <3>1. e \in C /\ e - 1 \in C
      BY <1>1 DEF CRLFs
    <3> QED
      BY <1>5, <3>1
  <2> QED
    BY <1>2, <1>3, <2>1, <2>2, <2>3
<1> QED
  BY <1>4, <1>5

(* A first line of three words is not empty.                               *)
LEMMA GoodLine ==
  ASSUME NEW b \in Seq(AtomSet), CRLFs(b) # {}, ~BadLine(FirstLine(b))
  PROVE  /\ FirstLine(b) \in Seq(AtomSet)
         /\ Min(CRLFs(b)) \in 2..Len(b)
         /\ Len(FirstLine(b)) = Min(CRLFs(b)) - 1
         /\ Last(FirstLine(b)) = b[Min(CRLFs(b)) - 1]
         /\ FirstLine(b)[1] = b[1]
<1> DEFINE m == Min(CRLFs(b))
<1> DEFINE l == FirstLine(b)
<1>1. m \in 1..Len(b) /\ Len(b) \in Nat
  BY Lines, LenProperties
<1> HIDE DEF m
<1>2. m - 1 \in 0..Len(b)
  BY <1>1
<1>3. SubSeq(b, 1, m - 1) \in Seq(AtomSet) /\ Len(SubSeq(b, 1, m - 1)) = m - 1
      /\ \A j \in 1..m - 1 : SubSeq(b, 1, m - 1)[j] = b[j]
  BY <1>2, Prefix
<1>4. l = SubSeq(b, 1, m - 1)
  BY DEF FirstLine, m
<1> HIDE DEF l
<1>5. DOMAIN l = 1..Len(l)
  BY <1>3, <1>4, LenProperties
<1>6. DOMAIN l # {}
  BY DEF BadLine, l
<1>7. m - 1 >= 1
  BY <1>1, <1>3, <1>4, <1>5, <1>6
<1>8. l[m - 1] = b[m - 1] /\ l[1] = b[1] /\ m \in 2..Len(b)
  BY <1>1, <1>3, <1>4, <1>7
<1>9. Last(l) = b[m - 1]
  BY <1>3, <1>4, <1>8 DEF Last
<1> QED
  BY <1>3, <1>4, <1>8, <1>9 DEF l, m

(* A method onRequest accepts is that of a request line, all by itself.    *)
LEMMA RequestLine ==
  ASSUME NEW b \in Seq(AtomSet), CRLFs(b) # {}, ~BadLine(FirstLine(b)),
         Method(FirstLine(b)) \in {"GET", "POST"}
  PROVE  b[1].kind = "request" /\ Last(FirstLine(b)) = b[1]
<1>1. Len(FirstLine(b)) = 1 /\ FirstLine(b)[1].kind = "request"
  BY DEF Method
<1> QED
  BY <1>1, GoodLine, Lines

(* A handler is called with the body that follows the headers of the       *)
(* request line at the front.                                              *)
Handles(b, d, c) ==
  /\ b[1].kind = "request" /\ CRLFs(b) # {} /\ d >= 1
  /\ \E n \in {0, sent[b[1].of].length} :
       n \in 0..Len(b) - HeaderEnd(b) /\ c = SubSeq(AfterHeader(b), 1, n)

(* What one call may do.                                                   *)
Answers ==
  \E i \in 1..Len(sent), status \in StatusCodes, close, stop \in BOOLEAN :
    (close => stop) /\ Respond(i, status, close, stop)

(* Every answer is one of these: it stops the connection when it closes.   *)
LEMMA Answer ==
  ASSUME NEW i \in 1..Len(sent), NEW status \in StatusCodes,
         NEW close \in BOOLEAN, NEW stop \in BOOLEAN, close => stop,
         Respond(i, status, close, stop)
  PROVE  Answers
  BY DEF Answers

(* onRequest() answers, or an exception leaves it.                         *)
LEMMA OnRequestEffect ==
  ASSUME NEW i \in 1..Len(sent), NEW method, NEW body, NEW close \in BOOLEAN,
         crashed \in BOOLEAN, OnRequest(i, method, body, close)
  PROVE  /\ Answers \/ UNCHANGED <<out, state>>
         /\ crashed' \in BOOLEAN
         /\ calls' = calls \/ (method \in {"GET", "POST"}
                                /\ calls' = Append(calls, [of |-> i, body |-> body]))
<1>1. CASE method \notin {"GET", "POST"}
  <2>1. Respond(i, 400, close, close) /\ UNCHANGED <<calls, crashed>>
    BY <1>1 DEF OnRequest, MethodNotAllowed
  <2>2. Answers
    <3>1. 400 \in StatusCodes
      BY DEF StatusCodes
    <3> QED
      BY <2>1, <3>1, Answer
  <2> QED
    BY <2>1, <2>2
<1>2. CASE method \in {"GET", "POST"}
  <2>1. calls' = Append(calls, [of |-> i, body |-> body])
    BY <1>2 DEF OnRequest
  <2>2. CASE crashed' = TRUE /\ UNCHANGED <<out, state>>
    BY <1>2, <2>1, <2>2
  <2>3. CASE /\ Respond(i, IF NotFound(i) THEN 404 ELSE 200, close, close)
             /\ UNCHANGED crashed
    <3>1. /\ Respond(i, IF NotFound(i) THEN 404 ELSE 200, close, close)
          /\ UNCHANGED crashed
      BY <2>3
    <3>2. (IF NotFound(i) THEN 404 ELSE 200) \in StatusCodes
      BY DEF StatusCodes
    <3>3. Answers
      BY <3>1, <3>2, Answer
    <3> QED
      BY <1>2, <2>1, <3>1, <3>3
  <2> QED
    BY <1>2, <2>2, <2>3 DEF OnRequest
<1> QED
  BY <1>1, <1>2

(* onMessage retrieves from the front, calls at most one handler and sends *)
(* at most one answer.                                                     *)
LEMMA OnMessageEffect ==
  ASSUME NEW b \in Seq(AtomSet), \A j \in 1..Len(b) : b[j].of \in 1..Len(sent),
         sent \in Seq(Requests), crashed \in BOOLEAN, OnMessage(b)
  PROVE  /\ \E d \in 0..Len(b), c \in Seq(AtomSet) :
              /\ buf' = SubSeq(b, d + 1, Len(b))
              /\ calls' = calls \/ (Handles(b, d, c)
                                     /\ calls' = Append(calls, [of |-> b[1].of, body |-> c]))
         /\ Answers \/ UNCHANGED <<out, state>>
         /\ crashed' \in BOOLEAN
<1>1. Len(b) \in Nat /\ DOMAIN b = 1..Len(b) /\ <<>> \in Seq(AtomSet) /\ SubSeq(b, 0 + 1, Len(b)) = b
  BY LenProperties, SubSeqFull, EmptySeq
<1>2. CASE CRLFs(b) = {}
  <2>1. buf' = b /\ UNCHANGED <<state, calls, out, crashed>>
    BY <1>2 DEF OnMessage
  <2>2. 0 \in 0..Len(b) /\ buf' = SubSeq(b, 0 + 1, Len(b))
    BY <1>1, <2>1
  <2> QED
    BY <1>1, <2>1, <2>2
<1>3. CASE CRLFs(b) # {} /\ BadLine(FirstLine(b))
  <2>1. buf' = b /\ Respond(Head(b).of, 400, TRUE, TRUE) /\ UNCHANGED <<calls, crashed>>
    BY <1>3 DEF OnMessage
  <2>2. Head(b).of \in 1..Len(sent)
    <3>1. Len(b) >= 1
      BY <1>1, <1>3, Lines
    <3>2. Head(b) = b[1]
      BY <1>1, <3>1, HeadTailProperties, EmptySeq
    <3> QED
      BY <1>1, <3>1, <3>2
  <2>3. Answers
    <3>1. 400 \in StatusCodes
      BY DEF StatusCodes
    <3> QED
      BY <2>1, <2>2, <3>1, Answer
  <2>4. 0 \in 0..Len(b) /\ buf' = SubSeq(b, 0 + 1, Len(b))
    BY <1>1, <2>1
  <2> QED
    BY <1>1, <2>1, <2>3, <2>4
<1>4. CASE CRLFs(b) # {} /\ ~BadLine(FirstLine(b))
  <2> DEFINE l == FirstLine(b)
  <2> DEFINE i == Last(l).of
  <2> DEFINE h == HeaderEnd(b)
  <2> DEFINE rest == AfterHeader(b)
  <2> DEFINE close == CloseAfter(l, Header(b))
  <2> DEFINE n == IF "length" \in Header(b) THEN sent[i].length ELSE 0
  <2>1. h \in 2..Len(b) /\ i \in 1..Len(sent)
    BY <1>1, <1>4, Lines, GoodLine
  <2>2. rest = SubSeq(b, h + 1, Len(b)) /\ rest \in Seq(AtomSet) /\ Len(rest) = Len(b) - h
    BY <1>1, <2>1, Suffix DEF AfterHeader
  <2>3. close \in BOOLEAN
    BY DEF CloseAfter
  <2>4. n = NotANumber \/ n \in Nat
    <3>1. sent[i] \in Requests
      BY <2>1, ElementOfSeq
    <3> QED
      BY <3>1, HTTPAssumption
  <2>5. n \in {0, sent[i].length}
    OBVIOUS
  <2>6. \/ n = NotANumber /\ buf' = rest /\ Respond(i, 400, close, TRUE)
           /\ UNCHANGED <<calls, crashed>>
        \/ n # NotANumber /\ buf' = rest /\ UNCHANGED <<state, calls, out, crashed>>
        \/ n # NotANumber /\ Complete(rest, n) /\ buf' = SubSeq(rest, n + 1, Len(rest))
           /\ OnRequest(i, Method(l), BodyIn(rest, n), close)
    BY ZenonT(60), <1>4 DEF OnMessage
  <2> HIDE DEF l, i, h, rest, close, n
  <2>6a. h \in 0..Len(b)
    BY <1>1, <2>1
  <2>6b. buf' = rest => buf' = SubSeq(b, h + 1, Len(b))
    BY <2>2
  <2>7. CASE n = NotANumber /\ buf' = rest /\ Respond(i, 400, close, TRUE)
             /\ UNCHANGED <<calls, crashed>>
    <3>1. 400 \in StatusCodes
      BY DEF StatusCodes
    <3>2. Answers
      <4>1. Respond(i, 400, close, TRUE)
        BY <2>7
      <4>2. TRUE \in BOOLEAN /\ (close => TRUE)
        OBVIOUS
      <4> QED
        BY ZenonT(60), <2>1, <2>3, <3>1, <4>1, <4>2, Answer
    <3>3. h \in 0..Len(b) /\ buf' = SubSeq(b, h + 1, Len(b))
      BY <2>6a, <2>6b, <2>7
    <3> QED
      BY <1>1, <2>7, <3>2, <3>3
  <2>8. CASE n # NotANumber /\ buf' = rest /\ UNCHANGED <<state, calls, out, crashed>>
    <3>1. h \in 0..Len(b) /\ buf' = SubSeq(b, h + 1, Len(b))
      BY <2>6a, <2>6b, <2>8
    <3> QED
      BY <1>1, <2>8, <3>1
  <2>9. CASE n # NotANumber /\ Complete(rest, n) /\ buf' = SubSeq(rest, n + 1, Len(rest))
             /\ OnRequest(i, Method(l), BodyIn(rest, n), close)
    <3> DEFINE c == SubSeq(rest, 1, n)
    <3>1. n \in 0..Len(b) - h /\ n \in 0..Len(rest)
      <4>1. n \in Nat /\ Len(rest) >= n
        BY <2>4, <2>9 DEF Complete
      <4>2. Len(rest) = Len(b) - h /\ Len(rest) \in Nat
        BY <1>1, <2>1, <2>2
      <4> QED
        BY <4>1, <4>2
    <3>2. h + n \in 0..Len(b) /\ h \in 0..Len(b) /\ h + n >= 1
      BY <1>1, <2>1, <3>1
    <3>3. buf' = SubSeq(b, (h + n) + 1, Len(b))
      BY <2>2, <2>9, <3>1, <3>2, SuffixOfSuffix
    <3>4. c \in Seq(AtomSet)
      BY <2>2, <3>1, Prefix
    <3>5. /\ Answers \/ UNCHANGED <<out, state>>
          /\ crashed' \in BOOLEAN
          /\ calls' = calls \/ (Method(l) \in {"GET", "POST"}
                                 /\ calls' = Append(calls, [of |-> i, body |-> c]))
      BY <2>1, <2>3, <2>9, OnRequestEffect DEF BodyIn
    <3>6. Method(l) \in {"GET", "POST"} => b[1].kind = "request" /\ i = b[1].of
      BY <1>4, RequestLine DEF l, i
    <3>7. Method(l) \in {"GET", "POST"} => Handles(b, h + n, c)
      BY <1>4, <2>5, <3>1, <3>2, <3>6 DEF Handles, h, rest
    <3> QED
      BY <3>2, <3>3, <3>4, <3>5, <3>6, <3>7
  <2> QED
    BY <2>6, <2>7, <2>8, <2>9
<1> QED
  BY <1>2, <1>3, <1>4

-------------------------------------------------------------------------------
(* What the client sends.                                                  *)

(* Four sequences behind each other: which positions hold which.           *)
LaidOut(S, z, a, h, c, t) ==
  /\ z \in Seq(S) /\ Len(z) = Len(a) + Len(h) + Len(c) + Len(t)
  /\ \A q \in 1..Len(a) : z[q] = a[q]
  /\ \A q \in 1..Len(h) : z[q + Len(a)] = h[q]
  /\ \A q \in 1..Len(c) : z[q + (Len(a) + Len(h))] = c[q]
  /\ \A q \in 1..Len(t) : z[q + (Len(a) + Len(h) + Len(c))] = t[q]

(* Concatenation lays its four operands out.                               *)
LEMMA Layout ==
  ASSUME NEW S, NEW a \in Seq(S), NEW h \in Seq(S), NEW c \in Seq(S), NEW t \in Seq(S)
  PROVE  LaidOut(S, a \o h \o c \o t, a, h, c, t)
<1> DEFINE x == a \o h
<1> DEFINE y == x \o c
<1> DEFINE z == y \o t
<1>1. Len(a) \in Nat /\ Len(h) \in Nat /\ Len(c) \in Nat /\ Len(t) \in Nat
  BY LenProperties
<1>2. x \in Seq(S) /\ Len(x) = Len(a) + Len(h)
  BY Concatenation
<1>3. \A q \in 1..Len(a) : x[q] = a[q]
  BY Concatenation
<1>4. \A q \in 1..Len(h) : x[q + Len(a)] = h[q]
  BY Concatenation
<1> HIDE DEF x
<1>5. y \in Seq(S) /\ Len(y) = Len(x) + Len(c)
  BY <1>2, Concatenation
<1>6. \A q \in 1..Len(x) : y[q] = x[q]
  <2>1. x \in Seq(S)
    BY <1>2
  <2> QED
    BY <2>1, Concatenation
<1>7. \A q \in 1..Len(c) : y[q + Len(x)] = c[q]
  <2>1. x \in Seq(S)
    BY <1>2
  <2> QED
    BY <2>1, Concatenation
<1> HIDE DEF y
<1>8. z \in Seq(S) /\ Len(z) = Len(y) + Len(t)
  BY <1>5, Concatenation
<1>9. \A q \in 1..Len(y) : z[q] = y[q]
  <2>1. y \in Seq(S)
    BY <1>5
  <2> QED
    BY <2>1, Concatenation
<1>10. \A q \in 1..Len(t) : z[q + Len(y)] = t[q]
  <2>1. y \in Seq(S)
    BY <1>5
  <2> QED
    BY <2>1, Concatenation
<1> HIDE DEF z
<1>11. \A q \in 1..Len(x) : z[q] = x[q]
  <2>1. \A q \in 1..Len(x) : q \in 1..Len(y)
    BY <1>1, <1>2, <1>5
  <2> QED
    BY <1>6, <1>9, <2>1
<1>12. \A q \in 1..Len(a) : z[q] = a[q]
  <2>1. \A q \in 1..Len(a) : q \in 1..Len(x)
    BY <1>1, <1>2
  <2> QED
    BY <1>3, <1>11, <2>1
<1>13. ASSUME NEW q \in 1..Len(h) PROVE z[q + Len(a)] = h[q]
  <2>1. q + Len(a) \in 1..Len(x)
    BY <1>1, <1>2
  <2> QED
    BY <1>4, <1>11, <2>1
<1>14. ASSUME NEW q \in 1..Len(c) PROVE z[q + (Len(a) + Len(h))] = c[q]
  <2>1. q + Len(x) \in 1..Len(y) /\ q + Len(x) = q + (Len(a) + Len(h))
    BY <1>1, <1>2, <1>5
  <2>2. z[q + Len(x)] = c[q]
    BY <1>7, <1>9, <2>1
  <2> QED
    BY <2>1, <2>2
<1>15. ASSUME NEW q \in 1..Len(t) PROVE z[q + (Len(a) + Len(h) + Len(c))] = t[q]
  <2>1. q + Len(y) = q + (Len(a) + Len(h) + Len(c))
    BY <1>1, <1>2, <1>5
  <2>2. z[q + Len(y)] = t[q]
    BY <1>10
  <2> QED
    BY <2>1, <2>2
<1>16. Len(z) = Len(a) + Len(h) + Len(c) + Len(t)
  BY <1>1, <1>2, <1>5, <1>8
<1> QED
  BY <1>8, <1>12, <1>13, <1>14, <1>15, <1>16 DEF x, y, z, LaidOut

(* A is request r, the i-th of its connection: a request line and nothing  *)
(* else like it, the headers, each on every second position, an empty line *)
(* that ends two positions after the last of them, and a body.             *)
IsRequest(A, i, r) ==
  LET H == 2 * Len(r.headers)
  IN /\ H \in Nat /\ r.body \in Nat
     /\ A \in Seq([kind : Kinds \ {"last"}, of : {i}])
     /\ Len(A) = H + 3 + r.body
     /\ A[1].kind = "request"
     /\ \A q \in 2..Len(A) : A[q].kind # "request"
     /\ A[2].kind = "crlf" /\ A[H + 2].kind = "crlf" /\ A[H + 3].kind = "crlf"
     /\ \A j \in 1..Len(r.headers) : A[2 * j + 1].kind = r.headers[j]
     /\ \A q \in 1..r.body : A[q + (H + 3)] = [kind |-> "body", of |-> i]

(* Atoms(i, r) is.                                                         *)
LEMMA AtomsFacts ==
  ASSUME NEW i \in Nat, NEW r \in Requests
  PROVE  IsRequest(Atoms(i, r), i, r)
<1> DEFINE S == [kind : Kinds \ {"last"}, of : {i}]
<1> DEFINE L == Len(r.headers)
<1> DEFINE H == 2 * L
<1> DEFINE B == r.body
<1> DEFINE Atom(k) == [kind |-> k, of |-> i]
<1> DEFINE h == [j \in 1..2 * Len(r.headers) |->
                   Atom(IF j % 2 = 1 THEN r.headers[(j + 1) \div 2] ELSE "crlf")]
<1> DEFINE a == <<Atom("request"), Atom("crlf")>>
<1> DEFINE c == <<Atom("crlf")>>
<1> DEFINE t == [j \in 1..r.body |-> Atom("body")]
<1> DEFINE z == a \o h \o c \o t
<1>1. /\ L \in Nat /\ H \in Nat /\ B \in Nat
      /\ \A j \in 1..L : r.headers[j] \in {"connection", "length", "agent"}
  BY HTTPAssumption, LenProperties, ElementOfSeq
<1>2. h \in [1..H -> S] /\ (\A j \in 1..H : h[j].kind # "request")
      /\ (H > 0 => h[H].kind = "crlf")
      /\ \A j \in 1..L : 2 * j - 1 \in 1..H /\ h[2 * j - 1].kind = r.headers[j]
  <2>1. ASSUME NEW j \in 1..H
        PROVE  (IF j % 2 = 1 THEN r.headers[(j + 1) \div 2] ELSE "crlf")
                 \in {"connection", "length", "agent", "crlf"}
    <3>1. CASE j % 2 = 1
      <4>1. (j + 1) \div 2 \in 1..L
        BY <1>1, <3>1
      <4> QED
        BY <1>1, <3>1, <4>1
    <3>2. CASE j % 2 # 1
      BY <3>2
    <3> QED
      BY <3>1, <3>2
  <2>2. \A j \in 1..H : h[j] \in S /\ h[j].kind # "request"
    BY <2>1 DEF Kinds
  <2>3. h \in [1..H -> S]
    BY <2>2
  <2>4. \A k \in Nat : (2 * k) % 2 # 1
    OBVIOUS
  <2>5. H % 2 # 1
    BY <1>1, <2>4
  <2>6. H > 0 => H \in 1..H
    BY <1>1
  <2>7. H > 0 => h[H].kind = "crlf"
    BY <2>5, <2>6
  <2>8. ASSUME NEW j \in 1..L PROVE 2 * j - 1 \in 1..H /\ h[2 * j - 1].kind = r.headers[j]
    <3>1. j \in Nat /\ 2 * j - 1 \in 1..H
      BY <1>1
    <3>2. \A k \in Nat : (2 * k - 1) % 2 = 1 /\ (2 * k - 1 + 1) \div 2 = k
      OBVIOUS
    <3>3. (2 * j - 1) % 2 = 1 /\ (2 * j - 1 + 1) \div 2 = j
      BY <3>1, <3>2
    <3> QED
      BY <3>1, <3>3
  <2> QED
    BY <2>2, <2>3, <2>7, <2>8
<1>3. t \in [1..B -> S] /\ \A j \in 1..B : t[j].kind = "body" /\ t[j] = [kind |-> "body", of |-> i]
  BY DEF Kinds
<1>4. a \in Seq(S) /\ Len(a) = 2 /\ a[1].kind = "request" /\ a[2].kind = "crlf"
  BY DEF Kinds
<1>5. c \in Seq(S) /\ Len(c) = 1 /\ c[1].kind = "crlf"
  BY DEF Kinds
<1>6. Atoms(i, r) = z
  BY DEF Atoms
<1> HIDE DEF h, t, a, c, H, S, B
<1>7. h \in Seq(S) /\ Len(h) = H /\ t \in Seq(S) /\ Len(t) = B
  BY <1>1, <1>2, <1>3, FunctionSeq
<1>8. /\ z \in Seq(S) /\ Len(z) = Len(a) + Len(h) + Len(c) + Len(t)
      /\ \A q \in 1..Len(a) : z[q] = a[q]
      /\ \A q \in 1..Len(h) : z[q + Len(a)] = h[q]
      /\ \A q \in 1..Len(c) : z[q + (Len(a) + Len(h))] = c[q]
      /\ \A q \in 1..Len(t) : z[q + (Len(a) + Len(h) + Len(c))] = t[q]
  <2>1. a \in Seq(S) /\ h \in Seq(S) /\ c \in Seq(S) /\ t \in Seq(S)
    BY <1>4, <1>5, <1>7
  <2>2. LaidOut(S, z, a, h, c, t)
    BY <2>1, Layout
  <2> HIDE DEF z
  <2> QED
    BY <2>2 DEF LaidOut
<1> HIDE DEF z
<1>9. /\ Len(z) = H + 3 + B
      /\ z[1] = a[1] /\ z[2] = a[2]
      /\ \A q \in 1..H : z[q + 2] = h[q]
      /\ z[H + 3] = c[1]
      /\ \A q \in 1..B : z[q + (H + 3)] = t[q]
  <2>1. Len(a) = 2 /\ Len(c) = 1 /\ Len(h) = H /\ Len(t) = B
    BY <1>4, <1>5, <1>7
  <2>2. 2 + H + 1 + B = H + 3 + B /\ 2 + H + 1 = H + 3 /\ 1 + (2 + H) = H + 3
    BY <1>1
  <2>3. z[1] = a[1] /\ z[2] = a[2] /\ \A q \in 1..H : z[q + 2] = h[q]
    BY <1>8, <2>1
  <2>4. z[1 + (2 + H)] = c[1]
    BY <1>8, <2>1
  <2>5. \A q \in 1..B : z[q + (2 + H + 1)] = t[q]
    BY <1>8, <2>1
  <2>6. Len(z) = 2 + H + 1 + B
    BY <1>8, <2>1
  <2>7. \A q \in 1..B : z[q + (H + 3)] = t[q]
    BY <2>2, <2>5
  <2> QED
    BY <2>2, <2>3, <2>4, <2>6, <2>7
<1>10. z[H + 2].kind = "crlf"
  <2>1. CASE H = 0
    BY <1>4, <1>9, <2>1
  <2>2. CASE H > 0
    <3>1. H \in 1..H
      BY <1>1, <2>2
    <3> QED
      BY <1>2, <1>9, <2>2, <3>1
  <2> QED
    BY <1>1, <2>1, <2>2
<1>11. ASSUME NEW q \in 2..Len(z) PROVE z[q].kind # "request"
  <2>1. CASE q = 2
    BY <1>4, <1>9, <2>1
  <2>2. CASE q \in 3..H + 2
    <3>1. q - 2 \in 1..H /\ q - 2 + 2 = q
      BY <1>1, <2>2
    <3>2. z[q - 2 + 2] = h[q - 2]
      BY <1>9, <3>1
    <3> QED
      BY <1>2, <3>1, <3>2
  <2>3. CASE q = H + 3
    BY <1>5, <1>9, <2>3
  <2>4. CASE q \in H + 4..H + 3 + B
    <3>1. q - (H + 3) \in 1..B /\ q - (H + 3) + (H + 3) = q
      BY <1>1, <2>4
    <3>2. z[q - (H + 3) + (H + 3)] = t[q - (H + 3)]
      BY <1>9, <3>1
    <3> QED
      BY <1>3, <3>1, <3>2
  <2>5. q = 2 \/ q \in 3..H + 2 \/ q = H + 3 \/ q \in H + 4..H + 3 + B
    BY <1>1, <1>9
  <2> QED
    BY <2>1, <2>2, <2>3, <2>4, <2>5
<1>12. ASSUME NEW j \in 1..L PROVE z[2 * j + 1].kind = r.headers[j]
  <2>1. 2 * j - 1 \in 1..H /\ 2 * j - 1 + 2 = 2 * j + 1
    BY <1>2
  <2>2. z[2 * j - 1 + 2] = h[2 * j - 1]
    BY <1>9, <2>1
  <2> QED
    BY <1>2, <2>1, <2>2
<1>13. z[2].kind = "crlf"
  BY <1>4, <1>9
<1>14. \A q \in 1..B : z[q + (H + 3)] = [kind |-> "body", of |-> i]
  BY <1>3, <1>9
<1> QED
  BY <1>1, <1>4, <1>5, <1>6, <1>8, <1>9, <1>10, <1>11, <1>12, <1>13, <1>14 DEF H, S, B, IsRequest

(* The body a handler gets is what follows the headers of its request, or, *)
(* when the empty line is still to come, follows some of them; either way  *)
(* it ends no later than the request does.                                 *)
LEMMA BodyOfRequest ==
  ASSUME sent \in Seq(Requests),
         NEW s \in Seq(AtomSet), \A j \in 1..Len(s) : s[j].of \in 1..Len(sent), Whole(s),
         NEW b \in Seq(AtomSet), Begins(b, s),
         NEW d, NEW c, Handles(b, d, c)
  PROVE  \A j \in 1..Len(c) : c[j].of = b[1].of
<1> DEFINE i == b[1].of
<1> DEFINE r == sent[i]
<1> DEFINE A == Atoms(i, r)
<1> DEFINE H == 2 * Len(r.headers)
<1> DEFINE h == HeaderEnd(b)
<1>1. b[1].kind = "request" /\ CRLFs(b) # {}
  BY DEF Handles
<1>2. PICK n \in {0, r.length} : n \in 0..Len(b) - h /\ c = SubSeq(AfterHeader(b), 1, n)
  BY DEF Handles
<1>3. /\ Len(b) \in Nat /\ Len(s) \in Nat /\ Len(sent) \in Nat
      /\ Len(b) <= Len(s) /\ \A j \in 1..Len(b) : b[j] = s[j]
  BY LenProperties DEF Begins
<1>4. h \in 1..Len(b) /\ Len(b) >= 1
      /\ \A e \in 2..Len(b) : b[e].kind = "crlf" /\ b[e - 1].kind = "crlf" => h <= e
  BY <1>1, <1>3, Lines
<1>5. 1 \in 1..Len(b) /\ 1 \in 1..Len(s) /\ b[1] = s[1] /\ i \in 1..Len(sent)
  BY <1>3, <1>4
<1>6. r \in Requests
  BY <1>5, ElementOfSeq
<1>7. /\ H \in Nat /\ r.body \in Nat
      /\ A \in Seq([kind : Kinds \ {"last"}, of : {i}])
      /\ Len(A) = H + 3 + r.body
      /\ A[H + 2].kind = "crlf" /\ A[H + 3].kind = "crlf"
  <2>1. i \in Nat
    BY <1>3, <1>5
  <2> QED
    BY ZenonT(60), <1>6, <2>1, AtomsFacts DEF IsRequest
<1> HIDE DEF A, H, h
<1>8. \A q \in 1..Len(A) : s[q] = A[q]
  <2>1. \A q \in 1..Len(A) : s[1 + q - 1] = A[q]
    BY <1>1, <1>5 DEF Whole, A
  <2>2. \A q \in 1..Len(A) : 1 + q - 1 = q
    BY <1>7
  <2>3. ASSUME NEW q \in 1..Len(A) PROVE s[q] = A[q]
    <3>1. 1 + q - 1 = q /\ s[1 + q - 1] = A[q]
      BY <2>1, <2>2
    <3> QED
      BY <3>1
  <2> QED
    BY <2>3
<1>9. h <= H + 3
  <2>1. CASE H + 3 <= Len(b)
    <3>1. H + 3 \in 2..Len(b) /\ H + 2 \in 1..Len(b) /\ H + 3 \in 1..Len(b) /\ H + 3 - 1 = H + 2
      BY SMTT(60), <1>3, <1>7, <2>1
    <3>2. H + 2 \in 1..Len(A) /\ H + 3 \in 1..Len(A)
      BY SMTT(60), <1>7
    <3>3. b[H + 2] = A[H + 2] /\ b[H + 3] = A[H + 3]
      BY <1>3, <1>8, <3>1, <3>2
    <3> QED
      BY <1>4, <1>7, <3>1, <3>3
  <2>2. CASE ~(H + 3 <= Len(b))
    BY <1>3, <1>4, <1>7, <2>2
  <2> QED
    BY <2>1, <2>2
<1>10. n \in Nat /\ n <= r.body
  <2>1. r.length \in {r.body, NotANumber}
    BY <1>6, HTTPAssumption
  <2>2. n = 0 \/ n = r.body \/ n = NotANumber
    BY <1>2, <2>1
  <2>3. n \in 0..Len(b) - h
    BY <1>2
  <2>4. n \in Nat
    BY <2>3
  <2>5. r.body \in Nat
    BY <1>7
  <2> HIDE DEF r
  <2> QED
    BY <2>2, <2>4, <2>5 DEF NotANumber
<1>11. AfterHeader(b) \in Seq(AtomSet) /\ Len(AfterHeader(b)) = Len(b) - h
       /\ \A j \in 1..Len(b) - h : AfterHeader(b)[j] = b[j + h]
  <2>1. h \in 0..Len(b)
    BY <1>3, <1>4
  <2> QED
    BY <2>1, Suffix DEF AfterHeader, h
<1>12. Len(c) = n /\ \A j \in 1..n : c[j] = AfterHeader(b)[j]
  <2>1. n \in 0..Len(AfterHeader(b))
    BY <1>2, <1>11
  <2> QED
    BY <1>2, <1>11, <2>1, Prefix
<1>13. SUFFICES ASSUME NEW j \in 1..n PROVE c[j].of = i
  BY <1>12
<1>14. j \in 1..Len(b) - h /\ j + h \in 1..Len(b) /\ j + h \in 1..Len(A)
  <2>1. n \in 0..Len(b) - h /\ h \in 1..Len(b) /\ j \in 1..n
    BY <1>2, <1>4
  <2>2. j \in 1..Len(b) - h /\ j + h \in 1..Len(b)
    BY <1>3, <1>10, <2>1
  <2>3. r.body \in Nat /\ j <= r.body /\ h \in Nat /\ H \in Nat /\ j \in Nat /\ j >= 1
    BY SMTT(60), <1>3, <1>7, <1>10, <2>1
  <2>4. Len(A) = H + 3 + r.body
    BY <1>7
  <2> HIDE DEF r
  <2>5. j + h <= H + 3 + r.body
    BY <1>9, <2>3
  <2> QED
    BY <2>2, <2>3, <2>4, <2>5
<1>15. c[j] = A[j + h]
  BY <1>3, <1>8, <1>11, <1>12, <1>14
<1>16. A[j + h] \in [kind : Kinds \ {"last"}, of : {i}]
  BY <1>7, <1>14, ElementOfSeq
<1> QED
  BY <1>15, <1>16

-------------------------------------------------------------------------------
(* The invariant.                                                          *)

(* The domain of a sequence is written in two ways.                        *)
LEMMA Domains ==
  ASSUME IInv
  PROVE  /\ sent \in Seq(Requests) /\ Len(sent) \in 0..MaxRequests /\ MaxRequests \in Nat
         /\ DOMAIN sent = 1..Len(sent)
         /\ wire \in Seq(AtomSet) /\ buf \in Seq(AtomSet)
         /\ Stream \in Seq(AtomSet) /\ Len(Stream) \in Nat
         /\ calls \in Seq(CallSet) /\ DOMAIN calls = 1..Len(calls) /\ Len(calls) \in Nat
         /\ out \in Seq(OutSet) /\ DOMAIN out = 1..Len(out) /\ Len(out) \in Nat
         /\ crashed \in BOOLEAN /\ state \in {"connected", "disconnecting"}
<1>1. sent \in Seq(Requests) /\ Len(sent) \in Bound /\ crashed \in BOOLEAN
      /\ state \in {"connected", "disconnecting"}
      /\ wire \in Seq(AtomSet) /\ buf \in Seq(AtomSet)
  BY DEF IInv, TypeOK, AtomSet
<1>2. calls \in Seq(CallSet) /\ out \in Seq(OutSet)
  BY DEF IInv, Histories
<1>3. Stream \in Seq(AtomSet)
  BY <1>1, ConcatProperties DEF Stream
<1> QED
  BY <1>1, <1>2, <1>3, LenProperties, HTTPAssumption DEF Bound

(* The connection begins in it.                                            *)
LEMMA InitInv == Init => IInv
<1> SUFFICES ASSUME Init PROVE IInv
  OBVIOUS
<1>1. \A S : <<>> \in Seq(S)
  BY EmptySeq
<1>2. Len(<<>>) = 0 /\ <<>> \o <<>> = <<>>
  BY EmptySeq, ConcatEmptySeq
<1>3. /\ sent = <<>> /\ wire = <<>> /\ buf = <<>> /\ calls = <<>> /\ out = <<>>
      /\ state = "connected" /\ crashed = FALSE /\ Stream = <<>>
  BY <1>2 DEF Init, Stream
<1>4. \A j \in 1..0 : FALSE
  OBVIOUS
<1>5. DOMAIN calls = 1..0 /\ DOMAIN out = 1..0
  BY <1>2, <1>3
<1>6. 0 \in 0..MaxRequests
  BY HTTPAssumption
<1>7. TypeOK
  BY <1>1, <1>2, <1>3, <1>4, <1>5, <1>6 DEF TypeOK, Bound
<1>8. Histories
  BY <1>1, <1>3 DEF Histories
<1>9. Announced /\ LinesGrow /\ Closing
  BY <1>2, <1>3, <1>4 DEF Announced, LinesGrow, Closing
<1>10. Whole(Stream)
  BY <1>2, <1>3, <1>4 DEF Whole
<1>11. SilentAfterClose /\ HandledInOrder /\ OwnBodyOnly
  BY <1>4, <1>5 DEF SilentAfterClose, HandledInOrder, OwnBodyOnly
<1> QED
  BY <1>7, <1>8, <1>9, <1>10, <1>11 DEF IInv

(* The client adds a request, of a number of its own, to the stream's end. *)
LEMMA SendInv ==
  ASSUME IInv, NEW r \in Requests, Send(r)
  PROVE  IInv'
<1> DEFINE i == Len(sent) + 1
<1> DEFINE A == Atoms(i, r)
<1> DEFINE n == Len(Stream)
<1>1. /\ Len(sent) < MaxRequests
      /\ sent' = Append(sent, r) /\ wire' = wire \o A
      /\ UNCHANGED <<buf, state, calls, out, crashed>>
  BY DEF Send
<1>2. /\ sent \in Seq(Requests) /\ Len(sent) \in 0..MaxRequests /\ MaxRequests \in Nat
      /\ DOMAIN sent = 1..Len(sent)
      /\ wire \in Seq(AtomSet) /\ buf \in Seq(AtomSet)
      /\ Stream \in Seq(AtomSet) /\ n \in Nat
      /\ calls \in Seq(CallSet) /\ DOMAIN calls = 1..Len(calls)
      /\ DOMAIN out = 1..Len(out)
  BY Domains
<1>3. TypeOK /\ Histories /\ Announced /\ LinesGrow /\ Whole(Stream)
      /\ Closing /\ SilentAfterClose /\ HandledInOrder /\ OwnBodyOnly
  BY DEF IInv
<1>4. /\ sent' \in Seq(Requests) /\ Len(sent') = i
      /\ sent'[i] = r /\ \A k \in 1..Len(sent) : sent'[k] = sent[k]
  BY <1>1, <1>2, AppendProperties
<1>5. DOMAIN sent' = 1..i /\ i \in 1..MaxRequests /\ i \in Nat
  BY <1>1, <1>2, <1>4, LenProperties
<1>6. A \in Seq([kind : Kinds \ {"last"}, of : {i}])
      /\ A[1].kind = "request" /\ \A q \in 2..Len(A) : A[q].kind # "request"
  BY <1>5, AtomsFacts DEF IsRequest
<1>7. A \in Seq(AtomSet) /\ Len(A) \in Nat
      /\ \A q \in 1..Len(A) : A[q] \in AtomSet /\ A[q].of = i
  <2>1. Len(A) \in Nat /\ \A q \in 1..Len(A) : A[q] \in [kind : Kinds \ {"last"}, of : {i}]
    BY <1>6, LenProperties, ElementOfSeq
  <2>2. i \in Bound \ {0}
    BY <1>5 DEF Bound
  <2> HIDE DEF A, i
  <2>3. \A q \in 1..Len(A) : A[q] \in AtomSet /\ A[q].of = i
    BY <2>1, <2>2 DEF AtomSet
  <2>4. DOMAIN A = 1..Len(A) /\ A = [q \in 1..Len(A) |-> A[q]]
    BY <1>6, LenProperties, SeqDef
  <2>5. A \in [1..Len(A) -> AtomSet]
    BY <2>3, <2>4
  <2> QED
    BY <2>1, <2>3, <2>5, FunctionSeq
<1> HIDE DEF A
<1>8. wire' \in Seq(AtomSet)
  BY <1>1, <1>2, <1>7, ConcatProperties
<1>9. Stream' = Stream \o A
  <2>1. Stream' = buf \o (wire \o A)
    BY <1>1 DEF Stream
  <2>2. buf \in Seq(AtomSet) /\ wire \in Seq(AtomSet) /\ A \in Seq(AtomSet)
    BY <1>2, <1>7
  <2>3. (buf \o wire) \o A = buf \o (wire \o A)
    BY SMTT(60), <2>2, Associative
  <2> QED
    BY <2>1, <2>3 DEF Stream
<1>10. /\ Stream' \in Seq(AtomSet) /\ Len(Stream') = n + Len(A)
       /\ \A q \in 1..n : Stream'[q] = Stream[q]
       /\ \A q \in 1..Len(A) : Stream'[q + n] = A[q]
  BY <1>2, <1>7, <1>9, Concatenation
<1> DEFINE m == Len(A)
<1> HIDE DEF n, m, i
<1>11. \A j \in 1..n + m : j \in 1..n \/ (j - n \in 1..m /\ j = j - n + n)
  BY <1>2, <1>7 DEF m
<1>12. Len(Stream') = n + m
  BY <1>10 DEF m
<1>13. \A j \in 1..n : Stream'[j] = Stream[j] /\ Stream[j].of \in 1..Len(sent) /\ Stream[j].of # i
  <2>1. \A j \in 1..n : Stream[j].of \in 1..Len(sent)
    BY <1>3 DEF Announced, n
  <2>2. \A k \in 1..Len(sent) : k # i
    BY <1>2 DEF i
  <2> QED
    BY <1>10, <2>1, <2>2
<1>14. ASSUME NEW j \in 1..n + m, ~(j \in 1..n)
       PROVE  /\ j - n \in 1..m /\ Stream'[j] = A[j - n] /\ Stream'[j].of = i
              /\ (Stream'[j].kind = "request" => j = n + 1)
  <2>1. j - n \in 1..m /\ j = j - n + n
    BY <1>11, <1>14
  <2>2. Stream'[j] = A[j - n]
    <3>1. Stream'[j - n + n] = A[j - n]
      BY <1>10, <2>1 DEF m
    <3> QED
      BY <2>1, <3>1
  <2>3. A[j - n].of = i
    BY <1>7, <2>1 DEF m
  <2>4. A[j - n].kind = "request" => j - n = 1
    <3>1. j - n = 1 \/ j - n \in 2..m
      BY <1>2, <2>1
    <3> QED
      BY <1>6, <3>1 DEF m
  <2> QED
    BY <1>2, <2>1, <2>2, <2>3, <2>4
<1>15. Announced'
  <2>1. \A k \in 1..Len(sent) : k \in 1..Len(sent')
    BY <1>2, <1>4 DEF i
  <2>2. i \in 1..Len(sent')
    BY <1>4, <1>5
  <2>3. \A j \in 1..n + m : Stream'[j].of \in 1..Len(sent')
    BY <1>13, <1>14, <2>1, <2>2
  <2> QED
    BY <1>12, <2>3 DEF Announced
<1>16. LinesGrow'
  <2>1. ASSUME NEW p \in 1..n + m, NEW q \in 1..n + m, p < q,
               Stream'[p].kind = "request", Stream'[q].kind = "request"
        PROVE  Stream'[p].of < Stream'[q].of
    <3>1. CASE q \in 1..n
      <4>1. p \in 1..n
        BY <1>2, <2>1, <3>1
      <4>2. Stream[p].of < Stream[q].of
        BY <1>3, <1>13, <2>1, <3>1, <4>1 DEF LinesGrow, n
      <4> QED
        BY <1>13, <3>1, <4>1, <4>2
    <3>2. CASE ~(q \in 1..n)
      <4>1. q = n + 1 /\ Stream'[q].of = i
        BY <1>14, <2>1, <3>2
      <4>2. p \in 1..n
        BY <1>2, <2>1, <4>1
      <4>3. Stream'[p].of \in 1..Len(sent)
        BY <1>13, <4>2
      <4>4. \A k \in 1..Len(sent) : k < i
        BY <1>2 DEF i
      <4> QED
        BY <4>1, <4>3, <4>4
    <3> QED
      BY <3>1, <3>2
  <2>2. ASSUME NEW j \in 1..n + m, NEW k \in 1..Len(calls), Stream'[j].kind = "request"
        PROVE  calls[k].of < Stream'[j].of
    <3>1. CASE j \in 1..n
      BY <1>3, <1>13, <2>2, <3>1 DEF LinesGrow, n
    <3>2. CASE ~(j \in 1..n)
      <4>1. Stream'[j].of = i
        BY <1>14, <3>2
      <4>2. calls[k].of \in 1..Len(sent)
        BY <1>2, <1>3 DEF TypeOK
      <4>3. \A x \in 1..Len(sent) : x < i
        BY <1>2 DEF i
      <4> QED
        BY <4>1, <4>2, <4>3
    <3> QED
      BY <3>1, <3>2
  <2> QED
    BY <1>1, <1>12, <2>1, <2>2 DEF LinesGrow
<1>17. Whole(Stream)'
  <2> SUFFICES ASSUME NEW p \in 1..n + m, Stream'[p].kind = "request",
                      NEW q \in 1..Len(Atoms(Stream'[p].of, sent'[Stream'[p].of]))
               PROVE  /\ p + q - 1 <= n + m
                      /\ Stream'[p + q - 1] = Atoms(Stream'[p].of, sent'[Stream'[p].of])[q]
    BY <1>12 DEF Whole, Atoms
  <2>1. CASE p \in 1..n
    <3>1. Stream'[p] = Stream[p] /\ sent'[Stream[p].of] = sent[Stream[p].of]
      BY <1>4, <1>13, <2>1
    <3>2. /\ q \in 1..Len(Atoms(Stream[p].of, sent[Stream[p].of]))
          /\ Stream[p].kind = "request"
      BY <3>1
    <3>3. /\ p + q - 1 <= n
          /\ Stream[p + q - 1] = Atoms(Stream[p].of, sent[Stream[p].of])[q]
      BY <1>3, <2>1, <3>2 DEF Whole, n
    <3>4. q \in Nat /\ q >= 1
      OBVIOUS
    <3>5. p + q - 1 \in 1..n /\ m \in Nat
      BY <1>2, <1>7, <2>1, <3>3, <3>4 DEF m
    <3>6. Stream'[p + q - 1] = Stream[p + q - 1]
      BY <1>13, <3>5
    <3>7. p + q - 1 <= n + m
      BY <1>2, <3>5
    <3> QED
      BY <3>1, <3>3, <3>6, <3>7
  <2>2. CASE ~(p \in 1..n)
    <3>1. p = n + 1 /\ Stream'[p].of = i
      BY <1>14, <2>2
    <3>2. Atoms(Stream'[p].of, sent'[Stream'[p].of]) = A
      BY <1>4, <3>1 DEF A, i
    <3>3. q \in 1..m
      BY <3>2 DEF m
    <3>4. p + q - 1 = q + n /\ q + n <= n + m
      BY <1>2, <1>7, <3>1, <3>3 DEF m
    <3>5. Stream'[q + n] = A[q]
      BY <1>10, <3>3 DEF m
    <3> QED
      BY <3>2, <3>4, <3>5
  <2> QED
    BY <2>1, <2>2
<1>18. TypeOK'
  <2>1. sent' \in Seq(Requests) /\ Len(sent') \in Bound
    BY <1>4, <1>5 DEF Bound
  <2>2. DOMAIN sent \subseteq DOMAIN sent'
    BY <1>2, <1>5 DEF i
  <2>3. \A k \in DOMAIN calls :
          calls[k].of \in DOMAIN sent' /\ Len(calls[k].body) \in {0, sent'[calls[k].of].length}
    <3> SUFFICES ASSUME NEW k \in DOMAIN calls
                 PROVE  calls[k].of \in DOMAIN sent'
                        /\ Len(calls[k].body) \in {0, sent'[calls[k].of].length}
      OBVIOUS
    <3>1. calls[k].of \in DOMAIN sent /\ Len(calls[k].body) \in {0, sent[calls[k].of].length}
      BY <1>3 DEF TypeOK
    <3>2. sent'[calls[k].of] = sent[calls[k].of]
      BY <1>2, <1>4, <3>1
    <3> QED
      BY <2>2, <3>1, <3>2
  <2>4. \A k \in DOMAIN out : out[k] \in [of : DOMAIN sent', status : StatusCodes, close : BOOLEAN]
    <3> SUFFICES ASSUME NEW k \in DOMAIN out
                 PROVE  out[k] \in [of : DOMAIN sent', status : StatusCodes, close : BOOLEAN]
      OBVIOUS
    <3>1. out[k] \in [of : DOMAIN sent, status : StatusCodes, close : BOOLEAN]
      BY <1>3 DEF TypeOK
    <3> QED
      BY <2>2, <3>1
  <2>5. state \in {"connected", "disconnecting"} /\ crashed \in BOOLEAN
    BY <1>3 DEF TypeOK
  <2> QED
    BY <1>1, <1>2, <1>8, <2>1, <2>3, <2>4, <2>5 DEF TypeOK, AtomSet
<1>19. (Histories /\ Closing /\ SilentAfterClose /\ HandledInOrder /\ OwnBodyOnly)'
  BY <1>1, <1>3 DEF Histories, Closing, SilentAfterClose, HandledInOrder, OwnBodyOnly
<1> QED
  BY <1>15, <1>16, <1>17, <1>18, <1>19 DEF IInv

(* An answer is sent only while the connection is open, and the closing    *)
(* one shuts it down.                                                      *)
LEMMA AnswersInv ==
  ASSUME sent \in Seq(Requests), DOMAIN sent = 1..Len(sent),
         Len(sent) \in 0..MaxRequests, MaxRequests \in Nat,
         out \in Seq(OutSet), DOMAIN out = 1..Len(out), Len(out) \in Nat,
         state \in {"connected", "disconnecting"},
         TypeOK, Closing, SilentAfterClose,
         Answers \/ UNCHANGED <<out, state>>
  PROVE  /\ out' \in Seq(OutSet) /\ state' \in {"connected", "disconnecting"}
         /\ \A k \in DOMAIN out' :
              out'[k] \in [of : DOMAIN sent, status : StatusCodes, close : BOOLEAN]
         /\ Closing' /\ SilentAfterClose'
<1>1. \A k \in DOMAIN out : out[k] \in [of : DOMAIN sent, status : StatusCodes, close : BOOLEAN]
  BY DEF TypeOK
<1>2. CASE UNCHANGED <<out, state>>
  BY <1>1, <1>2 DEF Closing, SilentAfterClose
<1>3. CASE Answers
  <2>1. PICK i \in 1..Len(sent), status \in StatusCodes, close \in BOOLEAN, stop \in BOOLEAN :
          (close => stop) /\ Respond(i, status, close, stop)
    BY <1>3 DEF Answers
  <2> DEFINE answer == [of |-> i, status |-> status, close |-> close]
  <2>2. /\ out' = IF state = "connected" THEN Append(out, answer) ELSE out
        /\ state' = IF stop THEN "disconnecting" ELSE state
    BY <2>1 DEF Respond, Stops
  <2>3. answer \in OutSet /\ answer \in [of : DOMAIN sent, status : StatusCodes, close : BOOLEAN]
    <3>1. i \in Bound \ {0}
      BY DEF Bound
    <3> QED
      BY <3>1 DEF OutSet
  <2>4. answer.close => state' = "disconnecting"
    BY <2>1, <2>2
  <2> HIDE DEF answer
  <2>5. CASE state # "connected"
    <3>1. out' = out /\ state' = "disconnecting"
      BY <2>2, <2>5
    <3> QED
      BY <1>1, <3>1 DEF Closing, SilentAfterClose
  <2>6. CASE state = "connected"
    <3>1. out' = Append(out, answer) /\ state' \in {"connected", "disconnecting"}
      BY <2>2, <2>6
    <3>2. /\ out' \in Seq(OutSet) /\ Len(out') = Len(out) + 1
          /\ out'[Len(out) + 1] = answer
          /\ \A k \in 1..Len(out) : out'[k] = out[k]
      <4>1. out \in Seq(OutSet) /\ answer \in OutSet
        BY <2>3
      <4>2. /\ Append(out, answer) \in Seq(OutSet)
            /\ Len(Append(out, answer)) = Len(out) + 1
            /\ Append(out, answer)[Len(out) + 1] = answer
        BY <4>1, AppendedTo
      <4>3. \A k \in 1..Len(out) : Append(out, answer)[k] = out[k]
        BY <4>1, AppendedTo
      <4> QED
        BY <3>1, <4>2, <4>3
    <3>3. DOMAIN out' = 1..Len(out) + 1
      BY <3>2, LenProperties
    <3>4. \A k \in 1..Len(out) + 1 : k \in 1..Len(out) \/ k = Len(out) + 1
      OBVIOUS
    <3>5. \A k \in 1..Len(out) : ~out'[k].close
      BY <2>6, <3>2 DEF Closing
    <3>6. \A k \in 1..Len(out) + 1 :
            out'[k] \in [of : DOMAIN sent, status : StatusCodes, close : BOOLEAN]
      BY <1>1, <2>3, <3>2, <3>4
    <3>7. Closing'
      BY <2>4, <3>2, <3>4, <3>5 DEF Closing
    <3>8. SilentAfterClose'
      BY <3>2, <3>3, <3>4, <3>5 DEF SilentAfterClose
    <3> QED
      BY <3>1, <3>2, <3>3, <3>6, <3>7, <3>8
  <2> QED
    BY <2>5, <2>6
<1> QED
  BY <1>2, <1>3

(* A piece arrives: the stream loses its front, at most one handler is     *)
(* called, at most one answer sent.                                        *)
LEMMA ReceiveInv ==
  ASSUME IInv, NEW n \in DOMAIN wire, Receive(n)
  PROVE  IInv'
<1> DEFINE b == buf \o SubSeq(wire, 1, n)
<1>1. /\ sent \in Seq(Requests) /\ DOMAIN sent = 1..Len(sent)
      /\ Len(sent) \in 0..MaxRequests /\ MaxRequests \in Nat
      /\ wire \in Seq(AtomSet) /\ buf \in Seq(AtomSet)
      /\ Stream \in Seq(AtomSet) /\ Len(Stream) \in Nat
      /\ calls \in Seq(CallSet) /\ DOMAIN calls = 1..Len(calls) /\ Len(calls) \in Nat
      /\ out \in Seq(OutSet) /\ DOMAIN out = 1..Len(out) /\ Len(out) \in Nat
      /\ crashed \in BOOLEAN /\ state \in {"connected", "disconnecting"}
  BY Domains
<1>2. TypeOK /\ Histories /\ Announced /\ LinesGrow /\ Whole(Stream)
      /\ Closing /\ SilentAfterClose /\ HandledInOrder /\ OwnBodyOnly
  BY DEF IInv
<1>3. n \in 1..Len(wire) /\ n \in 0..Len(wire) /\ Len(wire) \in Nat
  BY <1>1, LenProperties
<1>4. OnMessage(b) /\ sent' = sent /\ wire' = SubSeq(wire, n + 1, Len(wire))
  BY DEF Receive
<1>5. b \in Seq(AtomSet)
  <2>1. SubSeq(wire, 1, n) \in Seq(AtomSet)
    BY <1>1, <1>3, Prefix
  <2> QED
    BY <1>1, <2>1, ConcatProperties
<1>6. 0 \in 0..Len(b) /\ Len(b) \in Nat
  BY <1>5, LenProperties
<1>7. Len(b) <= Len(Stream) /\ \A j \in 1..Len(b) : b[j] = Stream[j]
  <2>1. buf \in Seq(AtomSet) /\ wire \in Seq(AtomSet) /\ n \in 1..Len(wire)
    BY <1>1, <1>3
  <2>2. Begins(b, Stream)
    BY <1>6, <2>1, Moved DEF Stream
  <2> QED
    BY <2>2 DEF Begins
<1>8. \A j \in 1..Len(Stream) : Stream[j].of \in 1..Len(sent)
  BY <1>2 DEF Announced
<1>9. \A j \in 1..Len(b) : b[j].of \in 1..Len(sent)
  <2>1. \A j \in 1..Len(b) : j \in 1..Len(Stream)
    BY <1>1, <1>6, <1>7
  <2> QED
    BY <1>7, <1>8, <2>1
<1>10. /\ \E d \in 0..Len(b), c \in Seq(AtomSet) :
            /\ buf' = SubSeq(b, d + 1, Len(b))
            /\ calls' = calls \/ (Handles(b, d, c)
                                   /\ calls' = Append(calls, [of |-> b[1].of, body |-> c]))
       /\ Answers \/ UNCHANGED <<out, state>>
       /\ crashed' \in BOOLEAN
  BY <1>1, <1>4, <1>5, <1>9, OnMessageEffect
<1>11. PICK d \in 0..Len(b), c \in Seq(AtomSet) :
            /\ buf' = SubSeq(b, d + 1, Len(b))
            /\ calls' = calls \/ (Handles(b, d, c)
                                   /\ calls' = Append(calls, [of |-> b[1].of, body |-> c]))
  BY <1>10
<1>12. /\ Stream' = SubSeq(b, d + 1, Len(b)) \o SubSeq(wire, n + 1, Len(wire))
       /\ buf' \in Seq(AtomSet) /\ wire' \in Seq(AtomSet)
  <2>1. buf' \in Seq(AtomSet)
    BY <1>5, <1>11, Suffix
  <2>2. wire' \in Seq(AtomSet)
    BY <1>1, <1>3, <1>4, Suffix
  <2> QED
    BY <1>4, <1>11, <2>1, <2>2 DEF Stream
<1>13. /\ Len(Stream') = Len(Stream) - d
       /\ \A j \in 1..Len(Stream') : Stream'[j] = Stream[j + d]
  <2>1. buf \in Seq(AtomSet) /\ wire \in Seq(AtomSet) /\ n \in 1..Len(wire)
    BY <1>1, <1>3
  <2>2. IsRest(SubSeq(b, d + 1, Len(b)) \o SubSeq(wire, n + 1, Len(wire)), Stream, d)
    BY <2>1, Moved DEF Stream
  <2>3. IsRest(Stream', Stream, d)
    BY <1>12, <2>2
  <2> QED
    BY <2>3 DEF IsRest
<1> DEFINE m == Len(Stream)
<1> DEFINE i == b[1].of
<1> HIDE DEF m, b
<1>14. d \in Nat /\ d <= m /\ m \in Nat
  BY <1>1, <1>6, <1>7 DEF m
<1>15. Len(Stream') = m - d /\ \A j \in 1..m - d : Stream'[j] = Stream[j + d] /\ j + d \in 1..m
  BY <1>13, <1>14 DEF m
<1>16. ASSUME Handles(b, d, c), calls' = Append(calls, [of |-> i, body |-> c])
       PROVE  /\ calls' \in Seq(CallSet) /\ Len(calls') = Len(calls) + 1
              /\ calls'[Len(calls) + 1] = [of |-> i, body |-> c]
              /\ \A k \in 1..Len(calls) : calls'[k] = calls[k]
              /\ DOMAIN calls' = 1..Len(calls) + 1
              /\ i \in 1..Len(sent) /\ Stream[1] = b[1] /\ d >= 1 /\ 1 \in 1..m
              /\ Stream[1].kind = "request"
              /\ \A k \in 1..Len(calls) : calls[k].of < i
              /\ \A j \in 1..Len(c) : c[j].of = i
              /\ Len(c) \in {0, sent[i].length}
  <2>1. b[1].kind = "request" /\ CRLFs(b) # {} /\ d >= 1
    BY <1>16 DEF Handles
  <2>2. 1 \in 1..Len(b) /\ 1 \in 1..m
    BY <1>6, <1>7, <1>14, <2>1 DEF m
  <2>3. Stream[1] = b[1] /\ i \in 1..Len(sent)
    BY <1>7, <1>9, <2>2
  <2>4. \A k \in 1..Len(calls) : calls[k].of < i
    BY <1>2, <2>1, <2>2, <2>3 DEF LinesGrow, m
  <2>5. \A j \in 1..Len(c) : c[j].of = i
    <3>1. /\ sent \in Seq(Requests) /\ Stream \in Seq(AtomSet) /\ Whole(Stream)
          /\ \A j \in 1..Len(Stream) : Stream[j].of \in 1..Len(sent)
          /\ b \in Seq(AtomSet) /\ Begins(b, Stream) /\ Handles(b, d, c)
      BY <1>1, <1>2, <1>5, <1>7, <1>8, <1>16 DEF Begins
    <3> QED
      BY <3>1, BodyOfRequest
  <2>6. [of |-> i, body |-> c] \in CallSet
    <3>1. i \in Bound \ {0}
      BY <1>1, <2>3 DEF Bound
    <3> QED
      BY <3>1 DEF CallSet
  <2>7. /\ calls' \in Seq(CallSet) /\ Len(calls') = Len(calls) + 1
        /\ calls'[Len(calls) + 1] = [of |-> i, body |-> c]
        /\ \A k \in 1..Len(calls) : calls'[k] = calls[k]
    BY <1>1, <1>16, <2>6, AppendProperties
  <2>8. DOMAIN calls' = 1..Len(calls) + 1
    BY <2>7, LenProperties
  <2>9. Len(c) \in {0, sent[i].length}
    <3>1. PICK len \in {0, sent[i].length} :
            len \in 0..Len(b) - HeaderEnd(b) /\ c = SubSeq(AfterHeader(b), 1, len)
      BY <1>16 DEF Handles
    <3>2. HeaderEnd(b) \in 0..Len(b)
      <4>1. Min(CRLFs(b)) \in 1..Len(b) /\ HeaderEnd(b) \in Min(CRLFs(b))..Len(b)
        BY <1>5, <2>1, Lines
      <4> QED
        BY <1>6, <4>1
    <3>3. AfterHeader(b) \in Seq(AtomSet) /\ Len(AfterHeader(b)) = Len(b) - HeaderEnd(b)
      BY <1>5, <3>2, Suffix DEF AfterHeader
    <3>4. Len(c) = len
      BY <3>1, <3>3, Prefix
    <3> QED
      BY <3>1, <3>4
  <2> QED
    BY <2>1, <2>2, <2>3, <2>4, <2>5, <2>7, <2>8, <2>9
<1> HIDE DEF i
<1>17. calls' = calls \/ (Handles(b, d, c) /\ calls' = Append(calls, [of |-> i, body |-> c]))
  BY <1>11 DEF i
<1>18. Announced'
  <2>1. \A j \in 1..m - d : Stream'[j].of \in 1..Len(sent)
    BY <1>8, <1>15 DEF m
  <2> QED
    BY <1>4, <1>15, <2>1 DEF Announced
<1>19. LinesGrow'
  <2>1. ASSUME NEW p \in 1..m - d, NEW q \in 1..m - d, p < q,
               Stream'[p].kind = "request", Stream'[q].kind = "request"
        PROVE  Stream'[p].of < Stream'[q].of
    <3>1. p + d \in 1..m /\ q + d \in 1..m /\ p + d < q + d
      BY <1>14, <2>1
    <3>2. Stream'[p] = Stream[p + d] /\ Stream'[q] = Stream[q + d]
      BY <1>15
    <3> QED
      BY <1>2, <2>1, <3>1, <3>2 DEF LinesGrow, m
  <2>2. ASSUME NEW j \in 1..m - d, NEW k \in 1..Len(calls), Stream'[j].kind = "request"
        PROVE  calls[k].of < Stream'[j].of
    BY <1>2, <1>15, <2>2 DEF LinesGrow, m
  <2>3. CASE calls' = calls
    BY <1>15, <2>1, <2>2, <2>3 DEF LinesGrow
  <2>4. CASE Handles(b, d, c) /\ calls' = Append(calls, [of |-> i, body |-> c])
    <3>1. ASSUME NEW j \in 1..m - d, Stream'[j].kind = "request" PROVE i < Stream'[j].of
      <4>1. 1 \in 1..m /\ j + d \in 1..m /\ 1 < j + d /\ Stream'[j] = Stream[j + d]
        BY <1>14, <1>15, <1>16, <2>4
      <4>2. Stream[1].kind = "request" /\ Stream[1].of = i
        BY <1>16, <2>4 DEF i
      <4> QED
        BY <1>2, <3>1, <4>1, <4>2 DEF LinesGrow, m
    <3>2. ASSUME NEW j \in 1..m - d, NEW k \in 1..Len(calls'), Stream'[j].kind = "request"
          PROVE  calls'[k].of < Stream'[j].of
      <4>1. CASE k \in 1..Len(calls)
        BY <1>16, <2>2, <2>4, <3>2, <4>1
      <4>2. CASE k = Len(calls) + 1
        BY <1>16, <2>4, <3>1, <3>2, <4>2
      <4>3. k \in 1..Len(calls) \/ k = Len(calls) + 1
        BY SMTT(60), <1>1, <1>16, <2>4
      <4> QED
        BY <4>1, <4>2, <4>3
    <3> QED
      BY <1>15, <2>1, <3>2 DEF LinesGrow
  <2> QED
    BY <1>17, <2>3, <2>4
<1>20. Whole(Stream)'
  <2> SUFFICES ASSUME NEW p \in 1..m - d, Stream'[p].kind = "request",
                      NEW q \in 1..Len(Atoms(Stream'[p].of, sent'[Stream'[p].of]))
               PROVE  /\ p + q - 1 <= m - d
                      /\ Stream'[p + q - 1] = Atoms(Stream'[p].of, sent'[Stream'[p].of])[q]
    BY <1>15 DEF Whole, Atoms
  <2>1. Stream'[p] = Stream[p + d] /\ p + d \in 1..m
    BY <1>15
  <2>2. /\ p + d + q - 1 <= m
        /\ Stream[p + d + q - 1] = Atoms(Stream'[p].of, sent'[Stream'[p].of])[q]
    BY <1>2, <1>4, <2>1 DEF Whole, m
  <2>3. q \in Nat /\ q >= 1
    OBVIOUS
  <2>4. p + q - 1 \in 1..m - d /\ p + q - 1 + d = p + d + q - 1
    BY <1>14, <2>2, <2>3
  <2>5. Stream'[p + q - 1] = Stream[p + q - 1 + d]
    BY <1>15, <2>4
  <2> QED
    BY <1>14, <2>2, <2>4, <2>5
<1>21. HandledInOrder'
  <2>1. CASE calls' = calls
    BY <1>2, <2>1 DEF HandledInOrder
  <2>2. CASE Handles(b, d, c) /\ calls' = Append(calls, [of |-> i, body |-> c])
    <3> SUFFICES ASSUME NEW j \in 1..Len(calls) + 1, NEW k \in 1..Len(calls) + 1, j < k
                 PROVE  calls'[j].of < calls'[k].of
      BY <1>16, <2>2 DEF HandledInOrder
    <3>1. j \in 1..Len(calls)
      BY <1>1
    <3>2. CASE k \in 1..Len(calls)
      BY <1>1, <1>2, <1>16, <2>2, <3>1, <3>2 DEF HandledInOrder
    <3>3. CASE k = Len(calls) + 1
      BY <1>16, <2>2, <3>1, <3>3
    <3>4. k \in 1..Len(calls) \/ k = Len(calls) + 1
      <4>1. Len(calls) \in Nat
        BY <1>1
      <4> QED
        BY <4>1
    <3> QED
      BY <3>2, <3>3, <3>4
  <2> QED
    BY <1>17, <2>1, <2>2
<1>22. OwnBodyOnly'
  <2>1. CASE calls' = calls
    BY <1>2, <2>1 DEF OwnBodyOnly
  <2>2. CASE Handles(b, d, c) /\ calls' = Append(calls, [of |-> i, body |-> c])
    <3> SUFFICES ASSUME NEW k \in 1..Len(calls) + 1, NEW j \in DOMAIN calls'[k].body
                 PROVE  calls'[k].body[j].of = calls'[k].of
      BY <1>16, <2>2 DEF OwnBodyOnly
    <3>1. CASE k \in 1..Len(calls)
      BY ZenonT(60), <1>1, <1>2, <1>16, <2>2, <3>1 DEF OwnBodyOnly
    <3>2. CASE k = Len(calls) + 1
      <4>1. calls'[k].body = c /\ calls'[k].of = i
        BY <1>16, <2>2, <3>2
      <4>2. DOMAIN c = 1..Len(c)
        BY LenProperties
      <4> QED
        BY <1>16, <2>2, <4>1, <4>2
    <3>3. k \in 1..Len(calls) \/ k = Len(calls) + 1
      BY SMTT(60), <1>1
    <3> QED
      BY <3>1, <3>2, <3>3
  <2> QED
    BY <1>17, <2>1, <2>2
<1>23. /\ calls' \in Seq(CallSet)
       /\ \A k \in DOMAIN calls' :
            calls'[k].of \in DOMAIN sent' /\ Len(calls'[k].body) \in {0, sent'[calls'[k].of].length}
  <2>1. CASE calls' = calls
    BY <1>1, <1>2, <1>4, <2>1 DEF TypeOK
  <2>2. CASE Handles(b, d, c) /\ calls' = Append(calls, [of |-> i, body |-> c])
    <3>1. ASSUME NEW k \in 1..Len(calls) + 1
          PROVE  /\ calls'[k].of \in 1..Len(sent)
                 /\ Len(calls'[k].body) \in {0, sent[calls'[k].of].length}
      <4>1. CASE k \in 1..Len(calls)
        BY <1>1, <1>2, <1>16, <2>2, <4>1 DEF TypeOK
      <4>2. CASE k = Len(calls) + 1
        BY <1>16, <2>2, <4>2
      <4>3. k \in 1..Len(calls) \/ k = Len(calls) + 1
        BY <1>1
      <4> QED
        BY <4>1, <4>2, <4>3
    <3> QED
      BY <1>1, <1>4, <1>16, <2>2, <3>1
  <2> QED
    BY <1>17, <2>1, <2>2
<1>24. /\ out' \in Seq(OutSet) /\ state' \in {"connected", "disconnecting"}
       /\ \A k \in DOMAIN out' : out'[k] \in [of : DOMAIN sent, status : StatusCodes, close : BOOLEAN]
       /\ Closing' /\ SilentAfterClose'
  BY <1>10, <1>1, <1>2, AnswersInv
<1>25. TypeOK' /\ Histories'
  BY <1>1, <1>2, <1>4, <1>10, <1>12, <1>23, <1>24 DEF TypeOK, Histories, AtomSet
<1> QED
  BY <1>18, <1>19, <1>20, <1>21, <1>22, <1>24, <1>25 DEF IInv

(* Every step of the connection keeps it.                                  *)
LEMMA NextInv == IInv /\ [Next]_vars => IInv'
<1> SUFFICES ASSUME IInv, [Next]_vars PROVE IInv'
  OBVIOUS
<1>1. CASE \E r \in Requests : Send(r)
  BY <1>1, SendInv
<1>2. CASE \E n \in DOMAIN wire : Receive(n)
  BY <1>2, ReceiveInv
<1>3. CASE UNCHANGED vars
  <2>1. UNCHANGED <<sent, wire, buf, state, calls, out, crashed>>
    BY <1>3 DEF vars
  <2>2. TypeOK' /\ Histories'
    BY <2>1 DEF IInv, TypeOK, Histories
  <2>3. Announced' /\ LinesGrow'
    BY ZenonT(60), <2>1 DEF IInv, Announced, LinesGrow, Stream
  <2>4. Whole(Stream)'
    <3>1. Stream' = Stream /\ Whole(Stream)
      BY <2>1 DEF IInv, Stream
    <3> SUFFICES ASSUME NEW p \in 1..Len(Stream'), Stream'[p].kind = "request",
                        NEW q \in 1..Len(Atoms(Stream'[p].of, sent'[Stream'[p].of]))
                 PROVE  /\ p + q - 1 <= Len(Stream')
                        /\ Stream'[p + q - 1] = Atoms(Stream'[p].of, sent'[Stream'[p].of])[q]
      BY DEF Whole, Atoms
    <3> QED
      BY <2>1, <3>1 DEF Whole
  <2>5. (Closing /\ SilentAfterClose /\ HandledInOrder /\ OwnBodyOnly)'
    BY <2>1 DEF IInv, Closing, SilentAfterClose, HandledInOrder, OwnBodyOnly
  <2> QED
    BY <2>2, <2>3, <2>4, <2>5 DEF IInv
<1> QED
  BY <1>1, <1>2, <1>3 DEF Next

-------------------------------------------------------------------------------
(* The theorems.                                                           *)

(* The invariant holds throughout: what onMessage leaves in the buffer     *)
(* with what is still on its way is always an end of the client's stream,  *)
(* and holds no request line from which anything was handled.              *)
THEOREM Invariance == Spec => []IInv
  BY InitInv, NextInv, PTL DEF Spec

(* Every variable keeps its type; every answer is about a request that was *)
(* sent and has a status of HttpResponse::StatusCode.                      *)
THEOREM TypeCorrect == Spec => []TypeOK
<1>1. IInv => TypeOK
  BY DEF IInv
<1> QED
  BY <1>1, Invariance, PTL

(* onMessage never hands a request to a handler twice or after a later     *)
(* one, for any requests and any cut of the stream.                        *)
THEOREM HandledInOrderSafe == Spec => []HandledInOrder
<1>1. IInv => HandledInOrder
  BY DEF IInv
<1> QED
  BY <1>1, Invariance, PTL

(* The body onMessage hands to a handler holds nothing of another request, *)
(* for any requests and any cut of the stream.                             *)
THEOREM OwnBodyOnlySafe == Spec => []OwnBodyOnly
<1>1. IInv => OwnBodyOnly
  BY DEF IInv
<1> QED
  BY <1>1, Invariance, PTL

(* After an answer that closes the connection the server sends no other,   *)
(* although onMessage still runs and handlers are still called.            *)
THEOREM SilentAfterCloseSafe == Spec => []SilentAfterClose
<1>1. IInv => SilentAfterClose
  BY DEF IInv
<1> QED
  BY <1>1, Invariance, PTL
===============================================================================
