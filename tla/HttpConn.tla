------------------------------ MODULE HttpConn -------------------------------
(***************************************************************************)
(* One plain TCP connection of the HTTP server: HttpServer::onMessage,     *)
(* HttpContext::parseRequest, HttpServer::onRequest and handleRequest.     *)
(*                                                                         *)
(* The bytes of a message are abstracted to atoms: a line with its CRLF,   *)
(* or one byte of a body.  A line whose CRLF has not arrived is, for the   *)
(* parser, a line that has not arrived: findCRLF fails and nothing moves.  *)
(* The peer's bytes reach onMessage in pieces of any size.  parseRequest   *)
(* is a loop over state_; one iteration is one action, and the IO thread   *)
(* that owns the connection takes no other step until the loop has ended.  *)
(***************************************************************************)
EXTENDS Integers, Sequences

CONSTANTS Messages,       \* the messages a client may send, see Encode
          Statuses,       \* statuses a route handler may answer with
          MaxMessages,    \* bound: messages on one connection
          maxBodyBytes    \* HttpContext::maxBodyBytes_, in body atoms

ASSUME BoundsAssumption == MaxMessages \in Nat /\ maxBodyBytes \in Nat

Absent    == -1      \* no Content-Length line
Malformed == -2      \* a Content-Length that from_chars refuses

Methods == {"GET", "POST", "PUT", "DELETE", "OPTIONS"}   \* setMethod's list
Bodied  == {"POST", "PUT"}
Versions == {"HTTP/1.0", "HTTP/1.1"}

VARIABLES
  toSend,    \* atoms the client has sent and the network has not delivered
  buf,       \* the connection's input Buffer
  state,     \* HttpContext::state_
  request,   \* HttpContext::request_
  status,    \* HttpContext::parseErrorStatus_
  pc,        \* "poll": in the event loop, "parse": in parseRequest,
             \* "onRequest": gotAll() held, "aborted": the process is gone
  link,      \* muduo's TcpConnection state
  sent,      \* every message the client sent
  handled,   \* every request the application was given
  answers    \* the status of every response the client received

vars == <<toSend, buf, state, request, status, pc, link, sent, handled,
          answers>>

-----------------------------------------------------------------------------
(* What a client writes: a message is a record of its method, version,     *)
(* whether a header line lacks its colon, Content-Length (Absent,          *)
(* Malformed or a number), Connection header ("" if none) and body.        *)

ReqLine(m)  == <<[kind |-> "reqline", method |-> m.method, version |-> m.version]>>
Header(n, v) == <<[kind |-> "header", name |-> n, value |-> v]>>

Body(m)      == [i \in DOMAIN m.body |-> [kind |-> "byte", value |-> m.body[i]]]

Encode(m) ==
  ReqLine(m)
  \o (IF m.colonless THEN <<[kind |-> "colonless"]>> ELSE <<>>)
  \o (IF m.length = Absent THEN <<>> ELSE Header("content-length", m.length))
  \o (IF m.connection = "" THEN <<>> ELSE Header("connection", m.connection))
  \o <<[kind |-> "blank"]>>
  \o Body(m)

-----------------------------------------------------------------------------
(* HttpRequest and the Buffer.                                             *)

kInvalid == "kInvalid"

EmptyRequest == [method |-> kInvalid, version |-> "Unknown", length |-> Absent,
                 connection |-> "", contentLength |-> 0, content |-> <<>>]

\* findCRLF.  The clients modelled send the bodies they announce, so body
\* bytes are never followed by a line while the parser looks for one.
HasLine == buf # <<>> /\ Head(buf).kind # "byte"
Line    == Head(buf)

Drop(n) == buf' = SubSeq(buf, n + 1, Len(buf))                    \* retrieve

AddHeader(r, line) ==
  IF line.name = "content-length" THEN [r EXCEPT !.length = line.value]
                                  ELSE [r EXCEPT !.connection = line.value]

-----------------------------------------------------------------------------
Init == /\ toSend = <<>> /\ buf = <<>>
        /\ state = "kExpectRequestLine" /\ request = EmptyRequest /\ status = 400
        /\ pc = "poll" /\ link = "kConnected"
        /\ sent = <<>> /\ handled = <<>> /\ answers = <<>>

connVars   == <<link, answers, handled>>
clientVars == <<toSend, sent>>
ctxVars    == <<state, request, status>>

(* The client and the network.                                             *)

\* The usage the README assumes: one request, its response, the next request.
Send(m) == /\ Len(sent) < MaxMessages
           /\ link = "kConnected" /\ Len(answers) = Len(sent)
           /\ sent' = Append(sent, m)
           /\ toSend' = toSend \o Encode(m)
           /\ UNCHANGED <<buf, ctxVars, pc, connVars>>

\* muduo reads the socket and calls onMessage, also after a shutdown(), which
\* closes the sending direction only.
Receive == /\ pc = "poll" /\ link # "kDisconnected"
           /\ \E n \in 1..Len(toSend) :
                /\ buf' = buf \o SubSeq(toSend, 1, n)
                /\ toSend' = SubSeq(toSend, n + 1, Len(toSend))
           /\ status' = 400
           /\ pc' = "parse"
           /\ UNCHANGED <<state, request, connVars, sent>>

\* The client closes: onConnection runs once more and the context is gone.
Disconnect == /\ pc = "poll" /\ link # "kDisconnected"
              /\ link' = "kDisconnected"
              /\ UNCHANGED <<toSend, buf, ctxVars, pc, sent, answers, handled>>

-----------------------------------------------------------------------------
(* The parse loop.                                                         *)

\* sendToClient: muduo drops what is sent after shutdown().
Respond(code) == answers' = IF link = "kConnected" THEN Append(answers, code) ELSE answers

\* Variant: the refusal without the shutdown().
FailOpen(code) == /\ Respond(code)
                  /\ pc' = "poll"
                  /\ UNCHANGED <<link, handled>>

\* parseRequest returned false: a canned 400 or 413, then shutdown().
Fail(code) == /\ Respond(code)
              /\ link' = IF link = "kConnected" THEN "kDisconnecting" ELSE link
              /\ pc' = "poll"
              /\ UNCHANGED handled

At(s) == pc = "parse" /\ state = s

\* processRequestLine: setMethod comes first and its result stays when the
\* version fails; the refused line stays in the buffer.
AtRequestLine == At("kExpectRequestLine") /\ HasLine /\ request.method = kInvalid

RequestLineOk ==
  /\ AtRequestLine /\ Line.method \in Methods /\ Line.version \in Versions
  /\ request' = [request EXCEPT !.method = Line.method, !.version = Line.version]
  /\ Drop(1)
  /\ state' = "kExpectHeaders"
  /\ UNCHANGED <<status, pc, connVars, clientVars>>

RequestLineBad ==
  /\ AtRequestLine
  /\ \/ Line.method \notin Methods /\ UNCHANGED request
     \/ /\ Line.method \in Methods /\ Line.version \notin Versions
        /\ request' = [request EXCEPT !.method = Line.method]
  /\ Fail(status)
  /\ UNCHANGED <<buf, state, status, clientVars>>

\* setMethod's assert(method_ == kInvalid) aborts the process; the build files
\* define no NDEBUG.
AssertFails ==
  /\ At("kExpectRequestLine") /\ HasLine /\ request.method # kInvalid
  /\ pc' = "aborted"
  /\ UNCHANGED <<buf, ctxVars, connVars, clientVars>>

HeaderLine ==
  /\ At("kExpectHeaders") /\ HasLine /\ Line.kind = "header"
  /\ request' = AddHeader(request, Line)
  /\ Drop(1)
  /\ UNCHANGED <<state, status, pc, connVars, clientVars>>

\* No colon and not empty: refused, but the line is taken off the buffer and
\* the context keeps waiting for header lines.
HeaderLineBad ==
  /\ At("kExpectHeaders") /\ HasLine /\ Line.kind \notin {"header", "blank"}
  /\ Fail(status)
  /\ Drop(1)
  /\ UNCHANGED <<ctxVars, clientVars>>

AtBlank == At("kExpectHeaders") /\ HasLine /\ Line.kind = "blank"

BlankNoBody ==
  /\ AtBlank
  /\ \/ request.method \notin Bodied /\ UNCHANGED request
     \/ request.method \in Bodied /\ request.length = 0
        /\ request' = [request EXCEPT !.contentLength = 0]
  /\ state' = "kGotAll"
  /\ pc' = "onRequest"
  /\ Drop(1)
  /\ UNCHANGED <<status, connVars, clientVars>>

\* Variant: a body of any length is accepted.
BlankThenAnyBody ==
  /\ AtBlank /\ request.method \in Bodied
  /\ request.length > 0
  /\ request' = [request EXCEPT !.contentLength = request.length]
  /\ state' = "kExpectBody"
  /\ Drop(1)
  /\ UNCHANGED <<status, pc, connVars, clientVars>>

BlankThenBody ==
  /\ AtBlank /\ request.method \in Bodied
  /\ request.length \in 1..maxBodyBytes
  /\ request' = [request EXCEPT !.contentLength = request.length]
  /\ state' = "kExpectBody"
  /\ Drop(1)
  /\ UNCHANGED <<status, pc, connVars, clientVars>>

BlankRefused ==
  /\ AtBlank /\ request.method \in Bodied
  /\ request.length \in {Absent, Malformed} \/ request.length > maxBodyBytes
  /\ status' = IF request.length > maxBodyBytes THEN 413 ELSE status
  /\ Fail(status')
  /\ Drop(1)
  /\ UNCHANGED <<state, request, clientVars>>

\* Variant: > for >= in the test for a complete body.
BodyMoreThanComplete ==
  /\ At("kExpectBody") /\ Len(buf) > request.contentLength
  /\ request' = [request EXCEPT !.content = SubSeq(buf, 1, request.contentLength)]
  /\ Drop(request.contentLength)
  /\ state' = "kGotAll"
  /\ pc' = "onRequest"
  /\ UNCHANGED <<status, connVars, clientVars>>

BodyComplete ==
  /\ At("kExpectBody") /\ Len(buf) >= request.contentLength
  /\ request' = [request EXCEPT !.content = SubSeq(buf, 1, request.contentLength)]
  /\ Drop(request.contentLength)
  /\ state' = "kGotAll"
  /\ pc' = "onRequest"
  /\ UNCHANGED <<status, connVars, clientVars>>

\* No CRLF, or too few body bytes: parseRequest returns true, gotAll() fails.
NeedMore ==
  /\ \/ (At("kExpectRequestLine") \/ At("kExpectHeaders")) /\ ~HasLine
     \/ At("kExpectBody") /\ Len(buf) < request.contentLength
  /\ pc' = "poll"
  /\ UNCHANGED <<buf, ctxVars, connVars, clientVars>>

-----------------------------------------------------------------------------
(* onRequest, handleRequest and the reset of the context.                  *)

\* The ways handleRequest fills the response.  A route handler may override
\* the closeConnection_ that onRequest took from the request.  A 404 closes; a
\* 500 keeps what the handler did before it threw.  CorsMiddleware answers
\* OPTIONS by throwing a response of its own, which replaces everything.
Outcomes ==
  IF request.method = "OPTIONS"
  THEN [code : {204, 403}, close : {TRUE}]
  ELSE [code : Statuses \union {500}, close : BOOLEAN] \union {[code |-> 404, close |-> TRUE]}

\* Variant: no context->reset() after onRequest.
HandleNoReset ==
  /\ pc = "onRequest"
  /\ handled' = Append(handled, request)
  /\ \E r \in Outcomes :
       /\ Respond(r.code)
       /\ link' = IF link = "kConnected" /\ r.close THEN "kDisconnecting" ELSE link
  /\ pc' = "poll"
  /\ UNCHANGED <<buf, ctxVars, clientVars>>

\* onRequest, then context->reset().
Handle ==
  /\ pc = "onRequest"
  /\ handled' = Append(handled, request)
  /\ \E r \in Outcomes :
       /\ Respond(r.code)
       /\ link' = IF link = "kConnected" /\ r.close THEN "kDisconnecting" ELSE link
  /\ state' = "kExpectRequestLine" /\ request' = EmptyRequest /\ status' = 400
  /\ pc' = "poll"
  /\ UNCHANGED <<buf, clientVars>>

-----------------------------------------------------------------------------
Parse == \/ RequestLineOk \/ RequestLineBad \/ AssertFails
         \/ HeaderLine \/ HeaderLineBad
         \/ BlankNoBody \/ BlankThenBody \/ BlankRefused
         \/ BodyComplete \/ NeedMore

Next == Receive \/ Parse \/ Handle \/ Disconnect \/ \E m \in Messages : Send(m)

Spec == Init /\ [][Next]_vars

\* TCP delivers what was sent; the IO thread runs its callbacks to their end.
\* Nothing makes a client send a message or close.
FairSpec == Spec /\ WF_vars(Receive) /\ WF_vars(Parse \/ Handle)

-----------------------------------------------------------------------------
(* What a message means, said of the whole message at once.                *)

WellFormed(m) == /\ m.method \in Methods /\ m.version \in Versions
                 /\ ~m.colonless
                 /\ m.method \in Bodied => m.length \in 0..maxBodyBytes

\* What the clients send: the fields hold what a client can write there, and the
\* body of a message that announces one is as long as announced.
ASSUME MessagesAssumption ==
  /\ Messages \subseteq [method : STRING, version : STRING, colonless : BOOLEAN,
                         length : Int, connection : STRING, body : Seq(STRING)]
  /\ \A m \in Messages :
       WellFormed(m) => Len(m.body) = IF m.method \in Bodied THEN m.length ELSE 0

Meaning(m) ==
  [method |-> m.method, version |-> m.version, length |-> m.length,
   connection |-> m.connection,
   contentLength |-> IF m.method \in Bodied THEN m.length ELSE 0,
   content       |-> IF m.method \in Bodied THEN Body(m) ELSE <<>>]

Refusal(m) == IF /\ m.method \in Bodied /\ m.version \in Versions
                 /\ ~m.colonless /\ m.length > maxBodyBytes
              THEN 413 ELSE 400

-----------------------------------------------------------------------------
ReqStates == {"kExpectRequestLine", "kExpectHeaders", "kExpectBody", "kGotAll"}

\* The values of the variables, and how the thread's position, the parser's
\* state and the fields it has filled in fit together.
TypeOK ==
  /\ state \in ReqStates
  /\ request.method \in Methods \union {kInvalid}
  /\ request.version \in Versions \union {"Unknown"}
  /\ request.contentLength \in 0..maxBodyBytes
  /\ Len(request.content) \in {0, request.contentLength}
  /\ status \in {400, 413}
  /\ pc \in {"poll", "parse", "onRequest", "aborted"}
  /\ link \in {"kConnected", "kDisconnecting", "kDisconnected"}
  /\ Len(sent) \in 0..MaxMessages
  /\ state \in {"kExpectHeaders", "kExpectBody", "kGotAll"} => request.method # kInvalid

\* parseRequest is never entered or continued with state_ = kGotAll: its loop has
\* no branch for that state and would spin in the IO thread for ever.  It rests
\* on onMessage resetting the context after every request that got through.
NeverSpins == pc = "parse" => state # "kGotAll"

\* Whatever the pieces: a message gets one answer at most, in its turn; the
\* answer is the refusal it deserves exactly if it is malformed, and a refusal
\* is the last thing the client hears.
AnswersMatch ==
  /\ Len(answers) <= Len(sent) /\ Len(sent) <= Len(answers) + 1
  /\ \A i \in DOMAIN answers :
       ~WellFormed(sent[i]) => answers[i] = Refusal(sent[i]) /\ i = Len(sent)
  /\ \A i \in DOMAIN answers : answers[i] \in {400, 413} \ Statuses => ~WellFormed(sent[i])

\* A line before the last one is refused, and the rest of the message follows.
Midway(m) == m.colonless \/ (m.method \in Methods /\ m.version \notin Versions)

\* The connection implements the exchange of HttpExchange: each message is
\* answered once, the application is handed what the client wrote whatever the
\* pieces it came in, and nothing of a malformed message.
Exchange == INSTANCE HttpExchange WITH asked <- sent, over <- (link # "kConnected"),
              Statuses <- Statuses \union {204, 403, 404, 500}
ExchangeSpec == Exchange!Spec

\* A message is answered, also when its last byte arrives alone, unless the
\* client goes away or the process aborts.
EveryMessageAnswered ==
  \A i \in 1..MaxMessages :
    Len(sent) >= i ~> (Len(answers) >= i \/ link = "kDisconnected" \/ pc = "aborted")

\* parseRequest returns.
ParseEnds == pc = "parse" ~> pc # "parse"

\* The assertion of setMethod, HttpRequest.cpp:28: the method is set while
\* method_ is kInvalid only.
MethodSetOnce == pc # "aborted"
=============================================================================
