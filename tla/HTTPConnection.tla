---------------------------- MODULE HTTPConnection ----------------------------
(***************************************************************************)
(* server::HTTPServer::onMessage and onRequest (src/server/http_server.cpp)*)
(* on one TCP connection: a byte stream that reaches the server in pieces  *)
(* of any size, and a parser that runs once for every piece.               *)
(*                                                                         *)
(* The stream is a sequence of atoms: the text of a request line, the text *)
(* of a header line, a CRLF, one unit of a body.  A piece may end after    *)
(* any atom whose kind is in Cuts; lengths are counted in atoms.  The      *)
(* client is honest: it sends well-formed requests with the body its       *)
(* Content-Length announces (a request with a malformed one has no body),  *)
(* and bodies are compact JSON, without blanks or line ends.               *)
(*                                                                         *)
(* muduo calls onMessage from the event loop's only thread, so a piece is  *)
(* processed in one step.  After shutdown() a connection still receives,   *)
(* and what the server sends is dropped.                                   *)
(***************************************************************************)
EXTENDS Integers, Sequences, FiniteSets, FiniteSetsExt, SequencesExt

CONSTANTS
  Requests,     (* the requests the client may send: records, see TypeOK    *)
  MaxRequests,  (* bound: how many of them it sends                         *)
  Cuts,         (* the kinds of atom a piece of the stream may end with     *)
  Pipelined     (* the client sends a request before the last answer is in  *)

(* The Content-Length of a request on which std::stoul throws.             *)
NotANumber == -1

Kinds == {"request", "connection", "length", "agent", "crlf", "body", "last"}

ASSUME HTTPAssumption ==
  /\ MaxRequests \in Nat
  /\ "last" \in Cuts /\ Cuts \subseteq Kinds
  /\ Pipelined \in BOOLEAN
  /\ \A r \in Requests :
       /\ r.headers \in Seq({"connection", "length", "agent"})
       /\ r.body \in Nat /\ r.length \in {r.body, NotANumber}

VARIABLES
  sent,     (* the requests the client has sent                            *)
  wire,     (* atoms on their way to the server                            *)
  buf,      (* the connection's input Buffer                               *)
  state,    (* muduo's state of the connection                             *)
  calls,    (* what onRequest has handed to handlers, in order             *)
  out,      (* the responses the client gets, in order                     *)
  crashed   (* an exception has left onMessage and ended the process       *)

vars == <<sent, wire, buf, state, calls, out, crashed>>

-------------------------------------------------------------------------------
(* The client's side of the stream.                                        *)

(* Request r, the i-th on this connection, as atoms: request line, header  *)
(* lines, an empty line, body.  The last one is marked: no later piece     *)
(* belongs to the request.                                                 *)
Atoms(i, r) ==
  LET Atom(k) == [kind |-> k, of |-> i]
      header == [j \in 1..2 * Len(r.headers) |->
                   Atom(IF j % 2 = 1 THEN r.headers[(j + 1) \div 2] ELSE "crlf")]
  IN <<Atom("request"), Atom("crlf")>> \o header \o <<Atom("crlf")>>
     \o [j \in 1..r.body |-> Atom("body")]

(* Kind of the n-th atom of w, where the end of a request is a kind of its *)
(* own.                                                                    *)
CutAt(w, n) == IF n = Len(w) \/ w[n].of # w[n + 1].of THEN "last" ELSE w[n].kind

Body(i) == [j \in 1..sent[i].body |-> [kind |-> "body", of |-> i]]

-------------------------------------------------------------------------------
(* What onMessage reads from the buffer.                                   *)

CRLFs(b) == {i \in DOMAIN b : b[i].kind = "crlf"}

(* The text before the first CRLF.                                         *)
FirstLine(b) == SubSeq(b, 1, Min(CRLFs(b)) - 1)

(* iss >> methodStr >> path >> versionStr fails: an empty line, or a       *)
(* header of two words that earlier calls left behind.                     *)
BadLine(l) == {l[j].kind : j \in DOMAIN l} \subseteq {"connection", "length"}

(* A line of three words that is no request line (a long header, or a      *)
(* request line with the rest of a body in front) has no valid method.     *)
Method(l) == IF Len(l) = 1 /\ l[1].kind = "request" THEN sent[l[1].of].method ELSE "kInvalid"
Version(l) == IF Last(l).kind = "request" THEN sent[Last(l).of].version ELSE "kInvalid"

(* Where the header loop stops: at the empty line, or, when none has come  *)
(* yet, after the last complete line.                                      *)
HeaderEnd_KeepsEmptyLine(b) ==
  LET empty == {i \in CRLFs(b) : i - 1 \in CRLFs(b)}
  IN IF empty # {} THEN Min(empty) - 1 ELSE Max(CRLFs(b))
HeaderEnd(b) ==
  LET empty == {i \in CRLFs(b) : i - 1 \in CRLFs(b)}
  IN IF empty # {} THEN Min(empty) ELSE Max(CRLFs(b))

(* The headers of the request that the loop has seen, and the rest.        *)
Header(b) == {b[i].kind : i \in Min(CRLFs(b))..HeaderEnd(b)}
AfterHeader_NotRetrieved(b) == b
AfterHeader(b) == SubSeq(b, HeaderEnd(b) + 1, Len(b))

(* resp.closeConnection_ when the header has been read.                    *)
CloseAfter(l, header) ==
  \/ Version(l) # "kHttp11"
  \/ "connection" \in header /\ sent[Last(l).of].connection = "close"

(* The body is there when enough bytes are; it is that many bytes.         *)
Complete_OneMore(rest, n) == Len(rest) > n
Complete(rest, n) == Len(rest) >= n
BodyIn_Everything(rest, n) == rest
BodyIn(rest, n) == SubSeq(rest, 1, n)

-------------------------------------------------------------------------------
(* What the call does.                                                     *)

(* conn->send(resp) and, when asked to, conn->shutdown().                  *)
Stops_Forgotten(stop) == FALSE
Stops(stop) == stop
Respond(i, status, close, stop) ==
  /\ out' = IF state = "connected" THEN Append(out, [of |-> i, status |-> status, close |-> close])
                                   ELSE out
  /\ state' = IF Stops(stop) THEN "disconnecting" ELSE state

(* handleMethodNotAllowed() sends k400BadRequest.                          *)
MethodNotAllowed == 400

(* The handler parses the body as JSON and does not catch the exception;   *)
(* the login handler does not parse an empty one.                          *)
Throws(i, body) ==
  LET json == body = Body(i) /\ body # <<>>
  IN \/ sent[i].target = "/api/login" /\ body # <<>> /\ ~json
     \/ sent[i].target = "/api/camera/1/lens/params" /\ sent[i].method = "POST" /\ ~json

(* A static file is read into a string of the size tellg() reports.  A     *)
(* directory opens like a file on most file systems, and what it reports   *)
(* is no size: resize() throws.  Where opening or reading it fails, the    *)
(* answer is that of a file that is not there.                             *)
MayThrow(i, body) == Throws(i, body) \/ sent[i].target = "directory"
NotFound(i) == sent[i].target \in {"missing", "directory"}

(* onRequest(): the method, then the exact routes, then the static files.  *)
OnRequest(i, method, body, close) ==
  \/ /\ method \notin {"GET", "POST"}
     /\ Respond(i, MethodNotAllowed, close, close)
     /\ UNCHANGED <<calls, crashed>>
  \/ /\ method \in {"GET", "POST"}
     /\ calls' = Append(calls, [of |-> i, body |-> body])
     /\ \/ /\ MayThrow(i, body)
           /\ crashed' = TRUE
           /\ UNCHANGED <<out, state>>
        \/ /\ ~Throws(i, body)
           /\ Respond(i, IF NotFound(i) THEN 404 ELSE 200, close, close)
           /\ UNCHANGED crashed

(* onMessage() on the buffer b.                                            *)
OnMessage(b) ==
  \/ /\ CRLFs(b) = {}
     /\ buf' = b
     /\ UNCHANGED <<state, calls, out, crashed>>
  \/ /\ CRLFs(b) # {} /\ BadLine(FirstLine(b))
     /\ buf' = b
     /\ Respond(Head(b).of, 400, TRUE, TRUE)
     /\ UNCHANGED <<calls, crashed>>
  \/ /\ CRLFs(b) # {} /\ ~BadLine(FirstLine(b))
     /\ LET l == FirstLine(b)
            i == Last(l).of
            rest == AfterHeader(b)
            close == CloseAfter(l, Header(b))
            n == IF "length" \in Header(b) THEN sent[i].length ELSE 0
        IN \/ /\ n = NotANumber
              /\ buf' = rest
              /\ Respond(i, 400, close, TRUE)
              /\ UNCHANGED <<calls, crashed>>
           \/ /\ n # NotANumber /\ ~Complete(rest, n)
              /\ buf' = rest
              /\ UNCHANGED <<state, calls, out, crashed>>
           \/ /\ n # NotANumber /\ Complete(rest, n)
              /\ buf' = SubSeq(rest, n + 1, Len(rest))
              /\ OnRequest(i, Method(l), BodyIn(rest, n), close)

-------------------------------------------------------------------------------
Init ==
  /\ sent = <<>> /\ wire = <<>> /\ buf = <<>>
  /\ state = "connected"
  /\ calls = <<>> /\ out = <<>>
  /\ crashed = FALSE

(* The client sends a request, as long as no answer has told it that the   *)
(* connection closes, and, unless it pipelines, when it has the answer to  *)
(* the request before.                                                     *)
Send(r) ==
  /\ ~crashed /\ Len(sent) < MaxRequests
  /\ \A k \in DOMAIN out : ~out[k].close
  /\ Pipelined \/ sent = <<>> \/ \E k \in DOMAIN out : out[k].of = Len(sent)
  /\ sent' = Append(sent, r)
  /\ wire' = wire \o Atoms(Len(sent) + 1, r)
  /\ UNCHANGED <<buf, state, calls, out, crashed>>

(* The next n atoms reach the server, and muduo calls onMessage.           *)
Receive(n) ==
  /\ ~crashed
  /\ CutAt(wire, n) \in Cuts
  /\ wire' = SubSeq(wire, n + 1, Len(wire))
  /\ OnMessage(buf \o SubSeq(wire, 1, n))
  /\ UNCHANGED sent

Next ==
  \/ \E r \in Requests : Send(r)
  \/ \E n \in DOMAIN wire : Receive(n)

Spec == Init /\ [][Next]_vars

-------------------------------------------------------------------------------
StatusCodes == {200, 400, 404, 500}

Bound == 0..MaxRequests

(* The type of every variable; a status is one of HttpResponse::StatusCode *)
(* and a body is as long as its Content-Length says, or empty without one. *)
TypeOK ==
  LET AtomSet == [kind : Kinds \ {"last"}, of : Bound \ {0}]
  IN /\ sent \in Seq(Requests) /\ Len(sent) \in Bound
     /\ wire \in Seq(AtomSet) /\ buf \in Seq(AtomSet)
     /\ state \in {"connected", "disconnecting"}
     /\ \A k \in DOMAIN calls :
          /\ calls[k].of \in DOMAIN sent
          /\ Len(calls[k].body) \in {0, sent[calls[k].of].length}
     /\ \A k \in DOMAIN out : out[k] \in [of : DOMAIN sent, status : StatusCodes, close : BOOLEAN]
     /\ crashed \in BOOLEAN

(* However the stream is cut, no request reaches a handler twice or after  *)
(* a later one: what an interrupted call leaves in the buffer never reads  *)
(* as the request again.                                                   *)
HandledInOrder ==
  \A j, k \in DOMAIN calls : j < k => calls[j].of < calls[k].of

(* However the stream is cut and however many requests it carries at once, *)
(* a handler's body holds nothing of another request.                      *)
OwnBodyOnly ==
  \A k \in DOMAIN calls : \A j \in DOMAIN calls[k].body :
    calls[k].body[j].of = calls[k].of

(* After an answer that says the connection closes no other answer comes.  *)
SilentAfterClose == \A k \in DOMAIN out : out[k].close => k = Len(out)

(* A request that arrives whole, or cut before its first CRLF, gives its   *)
(* handler exactly its body.                                               *)
BodiesWhole == \A k \in DOMAIN calls : calls[k].body = Body(calls[k].of)

(* When everything the client sent has arrived and the connection is open, *)
(* every request has its answer: what onMessage leaves in the buffer is no *)
(* request it should have served.                                          *)
NothingStranded ==
  wire = <<>> /\ state = "connected" /\ ~crashed =>
    \A i \in DOMAIN sent : \E k \in DOMAIN out : out[k].of = i

(* One connection is a sequence of questions, each answered once, in order.*)
Client == INSTANCE RequestReply WITH
  asked <- Len(sent),
  answered <- [k \in DOMAIN out |-> out[k].of],
  closed <- state = "disconnecting"

AnswersEachOnce == Client!Spec

-------------------------------------------------------------------------------
(* What two comments say and the code does not bear out.                   *)

(* http_server.cpp:140: an incomplete body waits for more data, so when    *)
(* all of it has arrived the request is served.                            *)
IncompleteBodyWaits == NothingStranded

(* http_server.cpp:36: the connection is short by default, and a parsed    *)
(* keep-alive decides whether it becomes long.                             *)
KeepAliveDecides ==
  \A k \in DOMAIN out :
    LET r == sent[out[k].of]
    IN "connection" \in ToSet(r.headers) /\ r.connection = "keep-alive" => ~out[k].close
===============================================================================
