--------------------------- MODULE HttpConn_proofs ---------------------------
(***************************************************************************)
(* Proofs about HttpConn, for any messages, any statuses of the handlers,  *)
(* any limit on a body and any number of messages: its type invariant,     *)
(* that the parser cannot spin, that the answers match the messages, and   *)
(* that the connection implements the exchange of HttpExchange.            *)
(***************************************************************************)
EXTENDS HttpConn, TLAPS, SequenceTheorems

Atoms == [kind : {"reqline"}, method : STRING, version : STRING]
         \union [kind : {"colonless", "blank"}]
         \union [kind : {"header"}, name : {"content-length"}, value : Int]
         \union [kind : {"header"}, name : {"connection"}, value : STRING]
         \union [kind : {"byte"}, value : STRING]

Requests == [method : Methods \union {kInvalid}, version : Versions \union {"Unknown"},
             length : Int, connection : STRING \union {""}, contentLength : 0..maxBodyBytes,
             content : Seq(Atoms)]

\* The statuses of answers: those of the application, and the parser's refusals.
AppStatuses == Statuses \union {204, 403, 404, 500}
Codes  == AppStatuses \union {400, 413}

\* What the parser has filled in where it is.
Filled == /\ state \in {"kExpectRequestLine", "kExpectHeaders"} =>
               request.contentLength = 0 /\ request.content = <<>>
          /\ state = "kExpectBody" => request.content = <<>>
          /\ Len(request.content) \in {0, request.contentLength}
          /\ state # "kExpectRequestLine" => request.method # kInvalid
          /\ state = "kGotAll" <=> pc = "onRequest"
          /\ pc = "aborted" => state = "kExpectRequestLine"

TInv == /\ toSend \in Seq(Atoms) /\ buf \in Seq(Atoms)
        /\ request \in Requests
        /\ state \in ReqStates
        /\ status \in {400, 413}
        /\ pc \in {"poll", "parse", "onRequest", "aborted"}
        /\ link \in {"kConnected", "kDisconnecting", "kDisconnected"}
        /\ sent \in Seq(Messages) /\ Len(sent) <= MaxMessages
        /\ handled \in Seq(Requests)
        /\ answers \in Seq(Codes)
        /\ Filled

-----------------------------------------------------------------------------
(* What is left of a message after each of its lines.                      *)

Maybe(b, s) == IF b THEN s ELSE <<>>
Colonless == <<[kind |-> "colonless"]>>
Blank     == <<[kind |-> "blank"]>>

AfterConnection(m)  == Blank \o Body(m)
AfterLength(m)      == Maybe(m.connection # "", Header("connection", m.connection))
                       \o AfterConnection(m)
AfterColonless(m)   == Maybe(m.length # Absent, Header("content-length", m.length)) \o AfterLength(m)
AfterRequestLine(m) == Maybe(m.colonless, Colonless) \o AfterColonless(m)

\* The request after its request line and the header lines that gave len and conn.
Got(m, len, conn) == [method |-> m.method, version |-> m.version, length |-> len,
                      connection |-> conn, contentLength |-> 0, content |-> <<>>]

-----------------------------------------------------------------------------
(* The inductive invariant.  While the connection is open, the bytes that  *)
(* are not parsed yet, wherever they are, are exactly what is left of the  *)
(* one message that has no answer, and what the parser has filled in is    *)
(* what it has read of that message.                                       *)

Rest == buf \o toSend

Waiting == /\ Len(answers) = Len(sent) /\ pc = "poll" /\ buf = <<>> /\ toSend = <<>>
           /\ state = "kExpectRequestLine" /\ request = EmptyRequest

AtFirstLine(m) == /\ state = "kExpectRequestLine" /\ request = EmptyRequest
                  /\ Rest = ReqLine(m) \o AfterRequestLine(m)

AtColonless(m)  == m.colonless /\ Rest = Colonless \o AfterColonless(m)
AtLength(m)     == /\ ~m.colonless /\ m.length # Absent /\ request = Got(m, Absent, "")
                   /\ Rest = Header("content-length", m.length) \o AfterLength(m)
AtConnection(m) == /\ ~m.colonless /\ m.connection # "" /\ request = Got(m, m.length, "")
                   /\ Rest = Header("connection", m.connection) \o AfterConnection(m)
AtLastLine(m)   == /\ ~m.colonless /\ request = Got(m, m.length, m.connection)
                   /\ Rest = AfterConnection(m)

InHeaders(m) == /\ state = "kExpectHeaders" /\ m.method \in Methods /\ m.version \in Versions
                /\ AtColonless(m) \/ AtLength(m) \/ AtConnection(m) \/ AtLastLine(m)

InBody(m) == /\ state = "kExpectBody" /\ WellFormed(m) /\ m.method \in Bodied
             /\ request = [Got(m, m.length, m.connection) EXCEPT !.contentLength = m.length]
             /\ Rest = Body(m)

Complete(m) == /\ state = "kGotAll" /\ WellFormed(m) /\ request = Meaning(m)
               /\ buf = <<>> /\ toSend = <<>>

ReadSoFar(m) == AtFirstLine(m) \/ InHeaders(m) \/ InBody(m) \/ Complete(m)

InFlight == Len(sent) = Len(answers) + 1 /\ pc # "aborted" /\ ReadSoFar(sent[Len(sent)])

OpenInv == link = "kConnected" => /\ status = 400
                                  /\ Waiting \/ InFlight
                                  /\ \A i \in 1..Len(answers) : WellFormed(sent[i])

\* A closed connection on which nothing was refused midway hands nothing over any more:
\* no byte comes, or the refused line is met again, or there is no line left.
MetAgain == /\ state = "kExpectRequestLine" /\ request.method = kInvalid
            /\ buf # <<>> /\ Head(buf).kind = "reqline" /\ Head(buf).method \notin Methods
NoLine   == state = "kExpectHeaders" /\ \A i \in 1..Len(Rest) : Rest[i].kind = "byte"
Silent   == pc = "poll" /\ (link = "kDisconnected" \/ toSend = <<>>)

ClosedInv == link # "kConnected" => \/ \E i \in 1..Len(sent) : Midway(sent[i])
                                    \/ MetAgain \/ NoLine \/ Silent

CInv == TInv /\ OpenInv /\ AnswersMatch /\ ClosedInv

-----------------------------------------------------------------------------
(* What a message is encoded to.                                           *)

LEMMA MessageFields ==
  ASSUME NEW m \in Messages
  PROVE  /\ m.method \in STRING /\ m.version \in STRING /\ m.colonless \in BOOLEAN
         /\ m.length \in Int /\ m.connection \in STRING /\ m.body \in Seq(STRING)
         /\ WellFormed(m) => Len(m.body) = IF m.method \in Bodied THEN m.length ELSE 0
BY MessagesAssumption

LEMMA BodySeq ==
  ASSUME NEW m \in Messages
  PROVE  /\ Body(m) \in Seq(Atoms) /\ Len(Body(m)) = Len(m.body)
         /\ \A i \in 1..Len(Body(m)) : Body(m)[i].kind = "byte"
<1>1. m.body \in Seq(STRING) /\ Len(m.body) \in Nat /\ DOMAIN m.body = 1..Len(m.body)
  BY MessageFields
<1>2. \A i \in 1..Len(m.body) : [kind |-> "byte", value |-> m.body[i]] \in Atoms
  BY <1>1 DEF Atoms
<1>3. [i \in 1..Len(m.body) |-> [kind |-> "byte", value |-> m.body[i]]] \in Seq(Atoms)
  BY <1>1, <1>2, IsASeq
<1>4. Body(m) = [i \in 1..Len(m.body) |-> [kind |-> "byte", value |-> m.body[i]]]
  BY <1>1 DEF Body
<1> QED
  BY <1>1, <1>3, <1>4

LEMMA PartsSeq ==
  ASSUME NEW m \in Messages
  PROVE  /\ ReqLine(m) \in Seq(Atoms) /\ Colonless \in Seq(Atoms) /\ Blank \in Seq(Atoms)
         /\ Header("content-length", m.length) \in Seq(Atoms)
         /\ Header("connection", m.connection) \in Seq(Atoms)
         /\ AfterConnection(m) \in Seq(Atoms) /\ AfterLength(m) \in Seq(Atoms)
         /\ AfterColonless(m) \in Seq(Atoms) /\ AfterRequestLine(m) \in Seq(Atoms)
<1>1. /\ ReqLine(m) \in Seq(Atoms) /\ Colonless \in Seq(Atoms) /\ Blank \in Seq(Atoms)
      /\ Header("content-length", m.length) \in Seq(Atoms)
      /\ Header("connection", m.connection) \in Seq(Atoms)
  BY MessageFields DEF Atoms, ReqLine, Colonless, Blank, Header
<1>2. AfterConnection(m) \in Seq(Atoms)
  BY <1>1, BodySeq, ConcatProperties DEF AfterConnection
<1>3. \A s \in Seq(Atoms), b \in BOOLEAN : Maybe(b, s) \in Seq(Atoms)
  BY DEF Maybe
<1>4. AfterLength(m) \in Seq(Atoms)
  BY <1>1, <1>2, <1>3, ConcatProperties DEF AfterLength
<1>5. AfterColonless(m) \in Seq(Atoms)
  BY <1>1, <1>4, <1>3, ConcatProperties DEF AfterColonless
<1>6. AfterRequestLine(m) \in Seq(Atoms)
  BY <1>1, <1>5, <1>3, MessageFields, ConcatProperties DEF AfterRequestLine
<1> QED
  BY <1>1, <1>2, <1>4, <1>5, <1>6

ThreeSeqs(s, t, u) == s \in Seq(Atoms) /\ t \in Seq(Atoms) /\ u \in Seq(Atoms)
LeftConcat(s, t, u)  == (s \o t) \o u
RightConcat(s, t, u) == s \o (t \o u)

LEMMA ConcatBoth ==
  ASSUME NEW s, NEW t, NEW u
  PROVE  ThreeSeqs(s, t, u) => LeftConcat(s, t, u) = RightConcat(s, t, u)
BY DEF ThreeSeqs, LeftConcat, RightConcat

SixSeqs(A, B, C, D, F, G) == /\ A \in Seq(Atoms) /\ B \in Seq(Atoms) /\ C \in Seq(Atoms)
                             /\ D \in Seq(Atoms) /\ F \in Seq(Atoms) /\ G \in Seq(Atoms)

LeftNested(A, B, C, D, F, G)  == ((((A \o B) \o C) \o D) \o F) \o G
RightNested(A, B, C, D, F, G) == A \o (B \o (C \o (D \o (F \o G))))

LEMMA ConcatRightNested ==
  ASSUME NEW A, NEW B, NEW C, NEW D, NEW F, NEW G
  PROVE  SixSeqs(A, B, C, D, F, G) => LeftNested(A, B, C, D, F, G) = RightNested(A, B, C, D, F, G)
<1> HAVE SixSeqs(A, B, C, D, F, G)
<1>1. /\ A \in Seq(Atoms) /\ B \in Seq(Atoms) /\ C \in Seq(Atoms)
      /\ D \in Seq(Atoms) /\ F \in Seq(Atoms) /\ G \in Seq(Atoms)
  BY DEF SixSeqs
<1>2. (A \o B) \in Seq(Atoms)
  BY <1>1
<1>3. (A \o B) \o C \in Seq(Atoms)
  BY <1>1, <1>2
<1>4. ((A \o B) \o C) \o D \in Seq(Atoms)
  BY <1>1, <1>3
<1>5. ((((A \o B) \o C) \o D) \o F) \o G = (((A \o B) \o C) \o D) \o (F \o G)
  <2>1. ThreeSeqs(((A \o B) \o C) \o D, F, G)
    BY <1>1, <1>4 DEF ThreeSeqs
  <2>2. LeftConcat(((A \o B) \o C) \o D, F, G)
          = RightConcat(((A \o B) \o C) \o D, F, G)
    BY <2>1, ConcatBoth
  <2> QED
    BY <2>2 DEF LeftConcat, RightConcat
<1>6. F \o G \in Seq(Atoms)
  BY <1>1
<1>7. (((A \o B) \o C) \o D) \o (F \o G) = ((A \o B) \o C) \o (D \o (F \o G))
  <2>1. ThreeSeqs((A \o B) \o C, D, F \o G)
    BY <1>1, <1>3, <1>6 DEF ThreeSeqs
  <2>2. LeftConcat((A \o B) \o C, D, F \o G)
          = RightConcat((A \o B) \o C, D, F \o G)
    BY <2>1, ConcatBoth
  <2> QED
    BY <2>2 DEF LeftConcat, RightConcat
<1>8. D \o (F \o G) \in Seq(Atoms)
  BY <1>1, <1>6
<1>9. ((A \o B) \o C) \o (D \o (F \o G)) = (A \o B) \o (C \o (D \o (F \o G)))
  <2>1. ThreeSeqs(A \o B, C, D \o (F \o G))
    BY <1>1, <1>2, <1>8 DEF ThreeSeqs
  <2>2. LeftConcat(A \o B, C, D \o (F \o G))
          = RightConcat(A \o B, C, D \o (F \o G))
    BY <2>1, ConcatBoth
  <2> QED
    BY <2>2 DEF LeftConcat, RightConcat
<1>10. C \o (D \o (F \o G)) \in Seq(Atoms)
  BY <1>1, <1>8
<1>11. (A \o B) \o (C \o (D \o (F \o G))) = A \o (B \o (C \o (D \o (F \o G))))
  <2>1. ThreeSeqs(A, B, C \o (D \o (F \o G)))
    BY <1>1, <1>10 DEF ThreeSeqs
  <2>2. LeftConcat(A, B, C \o (D \o (F \o G)))
          = RightConcat(A, B, C \o (D \o (F \o G)))
    BY <2>1, ConcatBoth
  <2> QED
    BY <2>2 DEF LeftConcat, RightConcat
<1> QED
  BY <1>5, <1>7, <1>9, <1>11 DEF LeftNested, RightNested

LEMMA EncodeSeq ==
  ASSUME NEW m \in Messages
  PROVE  Encode(m) = ReqLine(m) \o AfterRequestLine(m) /\ Encode(m) \in Seq(Atoms)
<1> DEFINE A == ReqLine(m)
           B == Maybe(m.colonless, Colonless)
           C == Maybe(m.length # Absent, Header("content-length", m.length))
           D == Maybe(m.connection # "", Header("connection", m.connection))
           F == Body(m)
<1>1. /\ A \in Seq(Atoms) /\ B \in Seq(Atoms) /\ C \in Seq(Atoms) /\ D \in Seq(Atoms)
      /\ Blank \in Seq(Atoms) /\ F \in Seq(Atoms)
  <2>1. \A s \in Seq(Atoms) : \A b : Maybe(b, s) \in Seq(Atoms)
    BY DEF Maybe
  <2> QED
    BY <2>1, PartsSeq, BodySeq
<1>2. Encode(m) = LeftNested(A, B, C, D, Blank, F)
  BY MessageFields DEF Encode, Maybe, Blank, Colonless, LeftNested
<1>3. A \o AfterRequestLine(m) = RightNested(A, B, C, D, Blank, F)
  BY DEF AfterRequestLine, AfterColonless, AfterLength, AfterConnection, RightNested
<1> HIDE DEF A, B, C, D, F
<1>4. Encode(m) = A \o AfterRequestLine(m)
  <2>1. SixSeqs(A, B, C, D, Blank, F)
    BY <1>1 DEF SixSeqs
  <2> QED
    BY <1>2, <1>3, <2>1, ConcatRightNested
<1>5. A \o AfterRequestLine(m) \in Seq(Atoms)
  BY <1>1, PartsSeq, ConcatProperties
<1> QED
  BY <1>4, <1>5 DEF A

-----------------------------------------------------------------------------
(* The type invariant.                                                     *)

LEMMA DropSeq ==
  ASSUME TInv, NEW n \in Nat, Drop(n)
  PROVE  buf' \in Seq(Atoms)
<1>1. buf \in Seq(Atoms) /\ Len(buf) \in Nat
  BY DEF TInv
<1>2. \A i \in (n + 1)..Len(buf) : buf[i] \in Atoms
  BY <1>1, ElementOfSeq
<1> QED
  BY <1>1, <1>2, SubSeqProperties DEF Drop

LEMMA LineAtom ==
  ASSUME TInv, HasLine
  PROVE  Line \in Atoms /\ Line = buf[1] /\ buf # <<>> /\ Len(buf) > 0
BY HeadTailProperties, EmptySeq DEF TInv, HasLine, Line

LEMMA ReceiveSplits ==
  ASSUME TInv, Receive
  PROVE  /\ buf' \in Seq(Atoms) /\ toSend' \in Seq(Atoms)
         /\ buf' \o toSend' = buf \o toSend
         /\ buf # <<>> => buf' # <<>> /\ Head(buf') = Head(buf)
         /\ toSend # <<>> /\ pc = "poll" /\ link # "kDisconnected"
<1>1. buf \in Seq(Atoms) /\ toSend \in Seq(Atoms)
  BY DEF TInv
<1>2. PICK n \in 1..Len(toSend) : /\ buf' = buf \o SubSeq(toSend, 1, n)
                                  /\ toSend' = SubSeq(toSend, n + 1, Len(toSend))
  BY DEF Receive
<1> DEFINE X == SubSeq(toSend, 1, n)
           Y == SubSeq(toSend, n + 1, Len(toSend))
<1>3. \A i \in 1..Len(toSend) : toSend[i] \in Atoms
  BY <1>1, ElementOfSeq
<1>4. X \in Seq(Atoms) /\ Y \in Seq(Atoms)
  BY <1>1, <1>3, SubSeqProperties
<1>5. X \o Y = SubSeq(toSend, 1, Len(toSend))
  BY <1>1, ConcatAdjacentSubSeq
<1>6. X \o Y = toSend
  BY <1>1, <1>5, SubSeqFull
<1> HIDE DEF X, Y
<1>7. (buf \o X) \o Y = buf \o toSend
  <2>1. ThreeSeqs(buf, X, Y)
    BY <1>1, <1>4 DEF ThreeSeqs
  <2>2. LeftConcat(buf, X, Y) = RightConcat(buf, X, Y)
    BY <2>1, ConcatBoth
  <2> QED
    BY <2>2, <1>6 DEF LeftConcat, RightConcat
<1>8. buf' \in Seq(Atoms) /\ toSend' \in Seq(Atoms) /\ buf' \o toSend' = buf \o toSend
  BY <1>1, <1>2, <1>4, <1>7, ConcatProperties DEF X, Y
<1>9. buf # <<>> => buf' # <<>> /\ Head(buf') = Head(buf)
  BY <1>1, <1>2, <1>4, ConcatProperties DEF X
<1>10. toSend # <<>>
  BY <1>1, <1>2
<1> QED
  BY <1>8, <1>9, <1>10 DEF Receive

LEMMA EmptyRequestShape == EmptyRequest \in Requests
<1>1. <<>> \in Seq(Atoms) /\ 0 \in 0..maxBodyBytes /\ Absent \in Int
  BY EmptySeq, BoundsAssumption DEF Absent
<1>2. "Unknown" \in Versions \union {"Unknown"} /\ kInvalid \in Methods \union {kInvalid}
  OBVIOUS
<1> QED
  BY <1>1, <1>2 DEF EmptyRequest, Requests

LEMMA InitTInv == Init => TInv
<1> SUFFICES ASSUME Init PROVE TInv
  OBVIOUS
<1>1. request \in Requests
  BY EmptyRequestShape DEF Init
<1>2. Filled
  BY DEF Init, Filled, EmptyRequest
<1> QED
  BY <1>1, <1>2, BoundsAssumption DEF Init, TInv, ReqStates

LEMMA HeaderShape ==
  ASSUME TInv, HasLine, Line.kind = "header"
  PROVE  /\ AddHeader(request, Line) \in Requests
         /\ AddHeader(request, Line).method = request.method
         /\ AddHeader(request, Line).contentLength = request.contentLength
         /\ AddHeader(request, Line).content = request.content
<1>1. /\ Line.name \in {"content-length", "connection"}
      /\ Line.name = "content-length" => Line.value \in Int
      /\ Line.name = "connection" => Line.value \in STRING
  BY LineAtom DEF Atoms
<1>2. request \in Requests
  BY DEF TInv
<1> QED
  BY <1>1, <1>2 DEF AddHeader, Requests

LEMMA RespondSeq ==
  ASSUME TInv, NEW code \in Codes, Respond(code)
  PROVE  answers' \in Seq(Codes)
BY AppendProperties DEF TInv, Respond

LEMMA FailTInv ==
  ASSUME TInv, NEW code \in {400, 413}, Fail(code)
  PROVE  /\ answers' \in Seq(Codes) /\ pc' = "poll" /\ handled' = handled
         /\ link' \in {"kConnected", "kDisconnecting", "kDisconnected"}
BY RespondSeq DEF TInv, Fail, Codes

LEMMA ReceiveTInv ==
  ASSUME TInv, Receive
  PROVE  TInv'
BY ReceiveSplits DEF TInv, Filled, Receive, connVars

LEMMA SendTInv ==
  ASSUME TInv, NEW m \in Messages, Send(m)
  PROVE  TInv'
<1>1. toSend' \in Seq(Atoms)
  BY EncodeSeq, ConcatProperties DEF TInv, Send
<1>2. sent' \in Seq(Messages) /\ Len(sent') <= MaxMessages
  BY AppendProperties, BoundsAssumption DEF TInv, Send
<1> QED
  BY <1>1, <1>2 DEF TInv, Filled, Send, connVars, ctxVars

LEMMA MethodSet ==
  ASSUME request \in Requests, NEW x \in Methods \union {kInvalid},
         request' = [request EXCEPT !.method = x]
  PROVE  /\ request' \in Requests /\ request'.contentLength = request.contentLength
         /\ request'.content = request.content /\ request'.method = x
BY DEF Requests

LEMMA LengthSet ==
  ASSUME request \in Requests, NEW x \in 0..maxBodyBytes,
         request' = [request EXCEPT !.contentLength = x]
  PROVE  /\ request' \in Requests /\ request'.contentLength = x
         /\ request'.content = request.content /\ request'.method = request.method
BY DEF Requests

LEMMA RequestLineTInv ==
  ASSUME TInv, RequestLineOk \/ RequestLineBad \/ AssertFails
  PROVE  TInv'
<1>1. request \in Requests /\ status \in {400, 413}
  BY DEF TInv
<1>2. CASE RequestLineOk
  <2>1. buf' \in Seq(Atoms)
    BY <1>2, DropSeq DEF RequestLineOk
  <2>2. /\ request' \in Requests /\ request'.contentLength = request.contentLength
        /\ request'.content = request.content /\ request'.method = Line.method
    BY <1>1, <1>2 DEF RequestLineOk, Requests
  <2>3. Line.method # kInvalid
    BY <1>2 DEF RequestLineOk, Methods, kInvalid
  <2> QED
    BY <1>2, <2>1, <2>2, <2>3
    DEF TInv, Filled, RequestLineOk, AtRequestLine, At, connVars, clientVars, ReqStates
<1>3. CASE RequestLineBad
  <2>1. /\ request' \in Requests /\ request'.contentLength = request.contentLength
        /\ request'.content = request.content
    BY <1>1, <1>3, MethodSet DEF RequestLineBad
  <2>2. Fail(status)
    BY <1>3 DEF RequestLineBad
  <2> QED
    BY <1>1, <1>3, <2>1, <2>2, FailTInv
    DEF TInv, Filled, RequestLineBad, AtRequestLine, At, clientVars
<1>4. CASE AssertFails
  BY <1>4 DEF TInv, Filled, AssertFails, At, connVars, clientVars, ctxVars
<1> QED
  BY <1>2, <1>3, <1>4

LEMMA HeadersTInv ==
  ASSUME TInv, HeaderLine \/ HeaderLineBad
  PROVE  TInv'
<1>1. buf' \in Seq(Atoms)
  BY DropSeq DEF HeaderLine, HeaderLineBad
<1>2. CASE HeaderLine
  BY <1>1, <1>2, HeaderShape DEF TInv, Filled, HeaderLine, At, connVars, clientVars
<1>3. CASE HeaderLineBad
  <2>1. Fail(status) /\ status \in {400, 413}
    BY <1>3 DEF HeaderLineBad, TInv
  <2> QED
    BY <1>1, <1>3, <2>1, FailTInv DEF TInv, Filled, HeaderLineBad, At, ctxVars, clientVars
<1> QED
  BY <1>2, <1>3

LEMMA BlankTInv ==
  ASSUME TInv, BlankNoBody \/ BlankThenBody \/ BlankRefused
  PROVE  TInv'
<1>1. buf' \in Seq(Atoms)
  BY DropSeq DEF BlankNoBody, BlankThenBody, BlankRefused
<1>2. request \in Requests
  BY DEF TInv
<1>3. CASE BlankNoBody
  <2>1. /\ request' \in Requests /\ request'.content = request.content
        /\ request'.method = request.method
        /\ request'.contentLength \in {0, request.contentLength}
    BY <1>2, <1>3, LengthSet, BoundsAssumption DEF BlankNoBody
  <2> QED
    BY <1>1, <1>3, <2>1 DEF TInv, Filled, BlankNoBody, AtBlank, At, connVars, clientVars, ReqStates
<1>4. CASE BlankThenBody
  <2>1. /\ request' \in Requests /\ request'.content = request.content
        /\ request'.method = request.method
    BY <1>2, <1>4, LengthSet, BoundsAssumption DEF BlankThenBody
  <2> QED
    BY <1>1, <1>4, <2>1 DEF TInv, Filled, BlankThenBody, AtBlank, At, connVars, clientVars, ReqStates
<1>5. CASE BlankRefused
  <2>1. status' \in {400, 413} /\ Fail(status')
    BY <1>5 DEF BlankRefused, TInv
  <2>2. /\ answers' \in Seq(Codes) /\ pc' = "poll" /\ handled' = handled
        /\ link' \in {"kConnected", "kDisconnecting", "kDisconnected"}
    BY <2>1, FailTInv
  <2> QED
    BY <1>1, <1>5, <2>1, <2>2 DEF TInv, Filled, BlankRefused, AtBlank, At, clientVars
<1> QED
  BY <1>3, <1>4, <1>5

LEMMA BodyTInv ==
  ASSUME TInv, BodyComplete \/ NeedMore
  PROVE  TInv'
<1>1. request \in Requests /\ request.contentLength \in 0..maxBodyBytes /\ buf \in Seq(Atoms)
  BY DEF TInv, Requests
<1>2. CASE BodyComplete
  <2>1. buf' \in Seq(Atoms)
    BY <1>1, <1>2, DropSeq, BoundsAssumption DEF BodyComplete
  <2>2. /\ SubSeq(buf, 1, request.contentLength) \in Seq(Atoms)
        /\ Len(SubSeq(buf, 1, request.contentLength)) = request.contentLength
    <3>1. \A i \in 1..request.contentLength : buf[i] \in Atoms
      BY <1>1, <1>2, ElementOfSeq, BoundsAssumption DEF BodyComplete
    <3> QED
      BY <1>1, <3>1, SubSeqProperties, BoundsAssumption
  <2>3. /\ request' \in Requests /\ request'.contentLength = request.contentLength
        /\ request'.method = request.method
        /\ Len(request'.content) = request.contentLength
    BY <1>1, <1>2, <2>2 DEF BodyComplete, Requests
  <2> QED
    BY <1>2, <2>1, <2>3 DEF TInv, Filled, BodyComplete, At, connVars, clientVars, ReqStates
<1>3. CASE NeedMore
  BY <1>3 DEF TInv, Filled, NeedMore, At, connVars, clientVars, ctxVars
<1> QED
  BY <1>2, <1>3

LEMMA OutcomeCodes ==
  ASSUME NEW r \in Outcomes
  PROVE  r.code \in AppStatuses /\ r.close \in BOOLEAN
<1>1. CASE request.method = "OPTIONS"
  <2>1. r \in [code : {204, 403}, close : {TRUE}]
    BY <1>1 DEF Outcomes
  <2>2. r.code \in {204, 403}
    BY <2>1
  <2>3. r.close \in BOOLEAN
    BY <2>1
  <2> QED
    BY <2>2, <2>3 DEF AppStatuses
<1>2. CASE request.method # "OPTIONS"
  <2>1. \/ r \in [code : Statuses \union {500}, close : BOOLEAN]
        \/ r = [code |-> 404, close |-> TRUE]
    BY <1>2 DEF Outcomes
  <2>2. CASE r \in [code : Statuses \union {500}, close : BOOLEAN]
    BY <2>2 DEF AppStatuses
  <2>3. CASE r = [code |-> 404, close |-> TRUE]
    BY <2>3 DEF AppStatuses
  <2> QED
    BY <2>1, <2>2, <2>3
<1> QED
  BY <1>1, <1>2

LEMMA HandleTInv ==
  ASSUME TInv, Handle
  PROVE  TInv'
<1>1. /\ answers' \in Seq(Codes)
      /\ link' \in {"kConnected", "kDisconnecting", "kDisconnected"}
  <2>1. PICK r \in Outcomes :
          /\ Respond(r.code)
          /\ link' = IF link = "kConnected" /\ r.close THEN "kDisconnecting" ELSE link
    BY DEF Handle
  <2>2. r.code \in Codes
    BY OutcomeCodes DEF Codes
  <2> QED
    BY <2>1, <2>2, RespondSeq DEF TInv
<1>2. request' \in Requests /\ request' = EmptyRequest
  BY EmptyRequestShape DEF Handle
<1>3. handled' \in Seq(Requests)
  BY AppendProperties DEF TInv, Handle
<1>4. Filled'
  <2>1. state' = "kExpectRequestLine" /\ pc' = "poll"
    BY DEF Handle
  <2>2. request'.contentLength = 0 /\ request'.content = <<>> /\ Len(request'.content) = 0
    BY <1>2, EmptySeq DEF EmptyRequest
  <2> QED
    BY <2>1, <2>2 DEF Filled
<1> QED
  BY <1>1, <1>2, <1>3, <1>4 DEF TInv, Handle, clientVars, ReqStates

LEMMA NextTInv == TInv /\ [Next]_vars => TInv'
<1> SUFFICES ASSUME TInv, [Next]_vars PROVE TInv'
  OBVIOUS
<1>1. CASE Disconnect
  BY <1>1 DEF TInv, Filled, Disconnect, ctxVars
<1>2. CASE UNCHANGED vars
  BY <1>2 DEF TInv, Filled, vars
<1> QED
  BY <1>1, <1>2, ReceiveTInv, SendTInv, RequestLineTInv, HeadersTInv, BlankTInv, BodyTInv,
     HandleTInv DEF Next, Parse

(***************************************************************************)
(* The values of the variables, and how the thread's position, the state   *)
(* of the parser and the fields of the request fit together, whatever      *)
(* pieces the bytes arrive in.                                             *)
(***************************************************************************)
THEOREM TypeCorrect == Spec => []TypeOK
<1>1. ASSUME TInv PROVE TypeOK
  <2>1. Len(sent) \in 0..MaxMessages
    BY <1>1, BoundsAssumption DEF TInv
  <2>2. /\ request.method \in Methods \union {kInvalid}
        /\ request.version \in Versions \union {"Unknown"}
        /\ request.contentLength \in 0..maxBodyBytes
    BY <1>1 DEF TInv, Requests
  <2> QED
    BY <1>1, <2>1, <2>2 DEF TInv, Filled, TypeOK, ReqStates
<1> QED
  BY InitTInv, NextTInv, <1>1, PTL DEF Spec

(***************************************************************************)
(* parseRequest is never in its loop with state_ = kGotAll, for which the  *)
(* loop has no branch: onMessage resets the context after every request.   *)
(***************************************************************************)
THEOREM ParserNeverSpins == Spec => []NeverSpins
<1>1. TInv => NeverSpins
  BY DEF TInv, Filled, NeverSpins
<1> QED
  BY InitTInv, NextTInv, <1>1, PTL DEF Spec

-----------------------------------------------------------------------------
(* The parser takes what the client wrote, line by line.                   *)

LEMMA TakeLine ==
  ASSUME TInv, HasLine, Drop(1), toSend' = toSend,
         NEW a \in Atoms, NEW s \in Seq(Atoms), Rest = <<a>> \o s
  PROVE  Line = a /\ Rest' = s /\ buf' = SubSeq(buf, 2, Len(buf))
<1>1. buf \in Seq(Atoms) /\ buf # <<>> /\ Len(buf) > 0 /\ toSend \in Seq(Atoms)
  BY LineAtom DEF TInv
<1>2. buf' = Tail(buf) /\ buf' \in Seq(Atoms)
  BY <1>1, TailIsSubSeq, HeadTailProperties DEF Drop
<1>3. buf = <<Head(buf)>> \o Tail(buf)
  BY <1>1
<1>4. Rest = <<Head(buf)>> \o (Tail(buf) \o toSend)
  <2>1. \A t, u : t \in Seq(Atoms) /\ u \in Seq(Atoms)
                 => (<<Head(buf)>> \o t) \o u = <<Head(buf)>> \o (t \o u)
    OBVIOUS
  <2> QED
    BY <2>1, <1>1, <1>2, <1>3 DEF Rest
<1>5. Tail(buf) \o toSend \in Seq(Atoms)
  BY <1>1, <1>2, ConcatProperties
<1>6. ASSUME NEW h \in Atoms, NEW t \in Seq(Atoms), <<h>> \o t = <<a>> \o s
      PROVE  h = a /\ t = s
  <2>1. (<<h>> \o t)[1] = h /\ (<<a>> \o s)[1] = a
    OBVIOUS
  <2>2. Len(<<h>> \o t) = Len(t) + 1 /\ Len(<<a>> \o s) = Len(s) + 1
    OBVIOUS
  <2>3. \A i \in 1..Len(t) : (<<h>> \o t)[i + 1] = t[i]
    OBVIOUS
  <2>4. \A i \in 1..Len(s) : (<<a>> \o s)[i + 1] = s[i]
    OBVIOUS
  <2>5. Len(t) = Len(s) /\ \A i \in 1..Len(t) : t[i] = s[i]
    BY <1>6, <2>2, <2>3, <2>4
  <2> QED
    BY <1>6, <2>1, <2>5, SeqEqual
<1>7. Head(buf) \in Atoms
  BY <1>1, HeadTailProperties
<1>8. Head(buf) = a /\ Tail(buf) \o toSend = s
  BY <1>4, <1>5, <1>6, <1>7
<1>9. Line = a /\ Rest' = s
  BY <1>2, <1>8 DEF Rest, Line
<1>10. buf' = SubSeq(buf, 2, Len(buf))
  BY <1>1, <1>2, TailIsSubSeq
<1> QED
  BY <1>9, <1>10

LEMMA FirstAtom ==
  ASSUME TInv, buf # <<>>, NEW a, NEW s \in Seq(Atoms), a \in Atoms, Rest = <<a>> \o s
  PROVE  Line = a
<1>1. buf \in Seq(Atoms) /\ toSend \in Seq(Atoms) /\ Len(buf) > 0
  BY EmptySeq DEF TInv
<1>2. (buf \o toSend)[1] = buf[1]
  BY <1>1, ConcatProperties
<1>3. (<<a>> \o s)[1] = a
  OBVIOUS
<1> QED
  BY <1>1, <1>2, <1>3 DEF Rest, Line

LEMMA HeadersReached ==
  ASSUME NEW m \in Messages, NEW rest, rest = AfterRequestLine(m)
  PROVE  \/ m.colonless /\ rest = Colonless \o AfterColonless(m)
         \/ ~m.colonless /\ rest = AfterColonless(m)
<1>1. CASE m.colonless
  BY <1>1 DEF AfterRequestLine, Maybe
<1>2. CASE ~m.colonless
  BY <1>2, PartsSeq, ConcatEmptySeq DEF AfterRequestLine, Maybe
<1> QED
  BY <1>1, <1>2

LEMMA LengthReached ==
  ASSUME NEW m \in Messages, NEW rest, rest = AfterColonless(m)
  PROVE  \/ m.length # Absent /\ rest = Header("content-length", m.length) \o AfterLength(m)
         \/ m.length = Absent /\ rest = AfterLength(m)
<1>1. CASE m.length # Absent
  BY <1>1 DEF AfterColonless, Maybe
<1>2. CASE m.length = Absent
  BY <1>2, PartsSeq, ConcatEmptySeq DEF AfterColonless, Maybe
<1> QED
  BY <1>1, <1>2

LEMMA ConnectionReached ==
  ASSUME NEW m \in Messages, NEW rest, rest = AfterLength(m)
  PROVE  \/ m.connection # "" /\ rest = Header("connection", m.connection) \o AfterConnection(m)
         \/ m.connection = "" /\ rest = AfterConnection(m)
<1>1. CASE m.connection # ""
  BY <1>1 DEF AfterLength, Maybe
<1>2. CASE m.connection = ""
  BY <1>2, PartsSeq, ConcatEmptySeq DEF AfterLength, Maybe
<1> QED
  BY <1>1, <1>2

-----------------------------------------------------------------------------
(* The steps of an open connection.                                        *)

Open == CInv /\ link = "kConnected"

LEMMA OpenFacts ==
  ASSUME Open, pc # "poll" \/ toSend # <<>>
  PROVE  /\ Len(sent) = Len(answers) + 1 /\ Len(answers) \in Nat /\ Len(sent) \in Nat
         /\ sent[Len(sent)] \in Messages /\ ReadSoFar(sent[Len(sent)])
         /\ status = 400 /\ pc # "aborted"
         /\ \A i \in 1..Len(answers) : WellFormed(sent[i])
<1>1. InFlight /\ status = 400 /\ \A i \in 1..Len(answers) : WellFormed(sent[i])
  BY DEF Open, CInv, OpenInv, Waiting
<1>2. Len(answers) \in Nat /\ Len(sent) \in Nat /\ sent \in Seq(Messages)
  BY DEF Open, CInv, TInv
<1>3. sent[Len(sent)] \in Messages
  BY <1>1, <1>2, ElementOfSeq DEF InFlight
<1> QED
  BY <1>1, <1>2, <1>3 DEF InFlight

LEMMA QuietAnswers ==
  ASSUME AnswersMatch, answers' = answers, sent' = sent
  PROVE  AnswersMatch'
BY DEF AnswersMatch

LEMMA ReadOn ==
  ASSUME Open, pc # "poll" \/ toSend # <<>>, ReadSoFar(sent[Len(sent)])',
         link' = link, answers' = answers, sent' = sent, status' = status \/ status' = 400,
         pc' # "aborted"
  PROVE  OpenInv' /\ AnswersMatch'
<1>1. AnswersMatch'
  BY QuietAnswers DEF Open, CInv
<1>2. InFlight' /\ status' = 400 /\ (\A i \in 1..Len(answers) : WellFormed(sent[i]))'
  BY OpenFacts DEF InFlight
<1> QED
  BY <1>1, <1>2 DEF OpenInv

LEMMA Answer ==
  ASSUME Open, pc # "poll" \/ toSend # <<>>, NEW code, answers' = Append(answers, code),
         sent' = sent,
         \/ WellFormed(sent[Len(sent)]) /\ code \in AppStatuses
         \/ ~WellFormed(sent[Len(sent)]) /\ code = Refusal(sent[Len(sent)])
  PROVE  AnswersMatch' /\ Len(answers') = Len(sent')
<1> DEFINE n == Len(answers)
<1>1. n \in Nat /\ Len(sent) = n + 1 /\ answers \in Seq(Codes)
  BY OpenFacts DEF Open, CInv, TInv
<1>2. \A i \in 1..n : WellFormed(sent[i])
  BY OpenFacts
<1>3. /\ DOMAIN answers = 1..n /\ DOMAIN answers' = 1..(n + 1) /\ Len(answers') = n + 1
      /\ answers'[n + 1] = code /\ \A i \in 1..n : answers'[i] = answers[i]
  BY <1>1
<1>4. code \in {400, 413} \ Statuses => ~WellFormed(sent[n + 1])
  BY <1>1 DEF AppStatuses
<1>5. ~WellFormed(sent[n + 1]) => code = Refusal(sent[n + 1])
  BY <1>1
<1>6. \A i \in DOMAIN answers : answers[i] \in {400, 413} \ Statuses => ~WellFormed(sent[i])
  BY DEF Open, CInv, AnswersMatch
<1> HIDE DEF n
<1>7. \A i \in 1..(n + 1) : i = n + 1 \/ i \in 1..n
  BY <1>1
<1> QED
  BY <1>1, <1>2, <1>3, <1>4, <1>5, <1>6, <1>7 DEF AnswersMatch

\* What a refusal does, seen by the client.
Refusing == LET m == sent[Len(sent)]
            IN  /\ Len(sent) = Len(answers) + 1 /\ ~WellFormed(m)
                /\ answers' = Append(answers, Refusal(m)) /\ link' = "kDisconnecting"
                /\ sent' = sent /\ handled' = handled

LEMMA Refused ==
  ASSUME Open, pc # "poll", NEW code, Fail(code), sent' = sent,
         ~WellFormed(sent[Len(sent)]), code = Refusal(sent[Len(sent)])
  PROVE  OpenInv' /\ AnswersMatch' /\ Refusing
<1>1. answers' = Append(answers, code) /\ link' = "kDisconnecting" /\ handled' = handled
  BY DEF Open, Fail, Respond
<1> QED
  BY <1>1, Answer, OpenFacts DEF OpenInv, Refusing

LEMMA AfterLengthEntered ==
  ASSUME NEW m \in Messages, state' = "kExpectHeaders", m.method \in Methods,
         m.version \in Versions, ~m.colonless,
         Rest' = AfterLength(m), request' = Got(m, m.length, "")
  PROVE  InHeaders(m)'
<1>1. CASE m.connection # ""
  BY <1>1, ConnectionReached DEF InHeaders, AtConnection
<1>2. CASE m.connection = ""
  BY <1>2, ConnectionReached DEF InHeaders, AtLastLine
<1> QED
  BY <1>1, <1>2

LEMMA HeadersEntered ==
  ASSUME NEW m \in Messages, state' = "kExpectHeaders", m.method \in Methods,
         m.version \in Versions,
         Rest' = AfterRequestLine(m), request' = Got(m, Absent, "")
  PROVE  InHeaders(m)'
<1>1. CASE m.colonless
  BY <1>1, HeadersReached DEF InHeaders, AtColonless
<1>2. CASE ~m.colonless /\ m.length # Absent
  BY <1>2, HeadersReached, LengthReached DEF InHeaders, AtLength
<1>3. CASE ~m.colonless /\ m.length = Absent
  BY <1>3, HeadersReached, LengthReached, AfterLengthEntered
<1> QED
  BY <1>1, <1>2, <1>3

LEMMA FirstLine ==
  ASSUME Open, AtRequestLine, NEW m, m = sent[Len(sent)]
  PROVE  /\ m \in Messages /\ AtFirstLine(m)
         /\ Line.method = m.method /\ Line.version = m.version /\ Line.kind = "reqline"
         /\ buf # <<>> /\ Line = Head(buf)
<1>1. pc = "parse" /\ state = "kExpectRequestLine" /\ HasLine /\ buf # <<>>
  BY DEF AtRequestLine, At, HasLine
<1>2. m \in Messages /\ AtFirstLine(m)
  BY <1>1, OpenFacts DEF ReadSoFar, InHeaders, InBody, Complete
<1> DEFINE a == [kind |-> "reqline", method |-> m.method, version |-> m.version]
<1>3. a \in Atoms
  BY <1>2, MessageFields DEF Atoms
<1>4. Line = a
  BY <1>1, <1>2, <1>3, FirstAtom, PartsSeq DEF Open, CInv, AtFirstLine, ReqLine
<1> QED
  BY <1>1, <1>2, <1>4 DEF Line

LEMMA RequestLineOkOpen ==
  ASSUME Open, RequestLineOk
  PROVE  OpenInv' /\ AnswersMatch'
<1> PICK m : m = sent[Len(sent)]
  OBVIOUS
<1> DEFINE a == [kind |-> "reqline", method |-> m.method, version |-> m.version]
<1>1. pc = "parse" /\ HasLine /\ Drop(1) /\ toSend' = toSend /\ AtRequestLine
  BY DEF RequestLineOk, AtRequestLine, At, clientVars
<1>2. m \in Messages /\ AtFirstLine(m) /\ Line.method = m.method /\ Line.version = m.version
  BY <1>1, FirstLine
<1>3. a \in Atoms /\ AfterRequestLine(m) \in Seq(Atoms)
  BY <1>2, MessageFields, PartsSeq DEF Atoms
<1>4. Rest' = AfterRequestLine(m)
  BY <1>1, <1>2, <1>3, TakeLine DEF AtFirstLine, ReqLine, Open, CInv
<1>5. request' = Got(m, Absent, "")
  BY <1>2 DEF RequestLineOk, AtFirstLine, EmptyRequest, Got
<1>6. InHeaders(m)'
  BY <1>2, <1>4, <1>5, HeadersEntered DEF RequestLineOk
<1> HIDE DEF a
<1>7. ReadSoFar(sent[Len(sent)])'
  BY <1>6 DEF RequestLineOk, ReadSoFar, clientVars
<1> QED
  BY <1>1, <1>7, ReadOn DEF RequestLineOk, connVars, clientVars

LEMMA RequestLineBadOpen ==
  ASSUME Open, RequestLineBad
  PROVE  /\ OpenInv' /\ AnswersMatch' /\ Refusing
         /\ Midway(sent[Len(sent)]) \/ MetAgain'
<1> DEFINE m == sent[Len(sent)]
<1>1. pc = "parse" /\ AtRequestLine /\ Fail(status) /\ status = 400 /\ sent' = sent
  BY OpenFacts DEF RequestLineBad, AtRequestLine, At, clientVars
<1>2. Line.method = m.method /\ Line.version = m.version
  BY <1>1, FirstLine
<1>3. m.method \notin Methods \/ m.version \notin Versions
  BY <1>2 DEF RequestLineBad
<1>4. ~WellFormed(m) /\ Refusal(m) = 400
  BY <1>3 DEF WellFormed, Refusal, Methods, Bodied
<1>5. CASE m.method \notin Methods
  <2>1. /\ state = "kExpectRequestLine" /\ request.method = kInvalid
        /\ buf # <<>> /\ Head(buf).kind = "reqline" /\ Head(buf).method \notin Methods
    BY <1>1, <1>2, <1>5, FirstLine DEF AtRequestLine, At
  <2>2. state' = state /\ request' = request /\ buf' = buf
    BY <1>2, <1>5 DEF RequestLineBad
  <2>3. MetAgain'
    BY <2>1, <2>2 DEF MetAgain
  <2> QED
    BY <1>1, <1>4, <2>3, Refused
<1>6. CASE m.method \in Methods
  BY <1>1, <1>3, <1>4, <1>6, Refused DEF Midway
<1> QED
  BY <1>5, <1>6

LEMMA AssertFailsOpen ==
  ASSUME Open, AssertFails
  PROVE  FALSE
<1>1. pc = "parse" /\ state = "kExpectRequestLine" /\ request.method # kInvalid
  BY DEF AssertFails, At
<1>2. AtFirstLine(sent[Len(sent)])
  BY <1>1, OpenFacts DEF ReadSoFar, InHeaders, InBody, Complete
<1> QED
  BY <1>1, <1>2 DEF AtFirstLine, EmptyRequest

LEMMA HeaderStage ==
  ASSUME Open, At("kExpectHeaders"), NEW m, m = sent[Len(sent)]
  PROVE  m \in Messages /\ InHeaders(m)
BY OpenFacts DEF At, ReadSoFar, AtFirstLine, InBody, Complete

LEMMA HeaderLines ==
  ASSUME Open, At("kExpectHeaders"), HasLine, NEW m, m = sent[Len(sent)]
  PROVE  /\ AtColonless(m) => Line.kind = "colonless"
         /\ AtLength(m) => Line = [kind |-> "header", name |-> "content-length", value |-> m.length]
         /\ AtConnection(m) =>
              Line = [kind |-> "header", name |-> "connection", value |-> m.connection]
         /\ AtLastLine(m) => Line.kind = "blank"
<1>1. m \in Messages
  BY HeaderStage
<1>2. TInv /\ buf # <<>>
  BY DEF Open, CInv, HasLine
<1>3. /\ [kind |-> "colonless"] \in Atoms /\ [kind |-> "blank"] \in Atoms
      /\ [kind |-> "header", name |-> "content-length", value |-> m.length] \in Atoms
      /\ [kind |-> "header", name |-> "connection", value |-> m.connection] \in Atoms
  BY <1>1, MessageFields DEF Atoms
<1>4. AtColonless(m) => Line = [kind |-> "colonless"]
  BY <1>1, <1>2, <1>3, FirstAtom, PartsSeq DEF AtColonless, Colonless
<1>5. AtLength(m) => Line = [kind |-> "header", name |-> "content-length", value |-> m.length]
  BY <1>1, <1>2, <1>3, FirstAtom, PartsSeq DEF AtLength, Header
<1>6. AtConnection(m) =>
        Line = [kind |-> "header", name |-> "connection", value |-> m.connection]
  BY <1>1, <1>2, <1>3, FirstAtom, PartsSeq DEF AtConnection, Header
<1>7. AtLastLine(m) => Line = [kind |-> "blank"]
  BY <1>1, <1>2, <1>3, FirstAtom, BodySeq DEF AtLastLine, AfterConnection, Blank
<1> QED
  BY <1>4, <1>5, <1>6, <1>7

LEMMA HeaderLineOpen ==
  ASSUME Open, HeaderLine
  PROVE  OpenInv' /\ AnswersMatch'
<1> PICK m : m = sent[Len(sent)]
  OBVIOUS
<1>1. /\ At("kExpectHeaders") /\ HasLine /\ Line.kind = "header" /\ Drop(1)
      /\ state' = "kExpectHeaders" /\ toSend' = toSend /\ sent' = sent
      /\ request' = AddHeader(request, Line) /\ pc' = "parse" /\ pc = "parse"
  BY DEF HeaderLine, clientVars, At
<1>2. /\ m \in Messages /\ InHeaders(m) /\ m.method \in Methods /\ m.version \in Versions
      /\ AtLength(m) \/ AtConnection(m)
  BY <1>1, HeaderStage, HeaderLines DEF InHeaders
<1>3. TInv
  BY DEF Open, CInv
<1>4. ASSUME AtLength(m) PROVE InHeaders(m)'
  <2> DEFINE a == [kind |-> "header", name |-> "content-length", value |-> m.length]
  <2>1. a \in Atoms /\ AfterLength(m) \in Seq(Atoms)
    BY <1>2, MessageFields, PartsSeq DEF Atoms
  <2>2. Rest' = AfterLength(m) /\ Line = a
    BY <1>1, <1>3, <1>4, <2>1, TakeLine DEF AtLength, Header
  <2>3. request' = Got(m, m.length, "")
    BY <1>1, <1>4, <2>2 DEF AtLength, AddHeader, Got
  <2> QED
    BY <1>1, <1>2, <1>4, <2>2, <2>3, AfterLengthEntered DEF AtLength
<1>5. ASSUME AtConnection(m) PROVE InHeaders(m)'
  <2> DEFINE a == [kind |-> "header", name |-> "connection", value |-> m.connection]
  <2>1. a \in Atoms /\ AfterConnection(m) \in Seq(Atoms)
    BY <1>2, MessageFields, PartsSeq DEF Atoms
  <2>2. Rest' = AfterConnection(m) /\ Line = a
    BY <1>1, <1>3, <1>5, <2>1, TakeLine DEF AtConnection, Header
  <2>3. request' = Got(m, m.length, m.connection)
    BY <1>1, <1>5, <2>2 DEF AtConnection, AddHeader, Got
  <2>4. AtLastLine(m)'
    BY <1>5, <2>2, <2>3 DEF AtLastLine, AtConnection
  <2> QED
    BY <1>1, <1>2, <2>4 DEF InHeaders
<1>6. InHeaders(m)'
  BY <1>2, <1>4, <1>5
<1>7. ReadSoFar(sent[Len(sent)])'
  BY <1>1, <1>6 DEF ReadSoFar
<1> QED
  BY <1>1, <1>7, ReadOn DEF HeaderLine, connVars, clientVars

LEMMA HeaderLineBadOpen ==
  ASSUME Open, HeaderLineBad
  PROVE  OpenInv' /\ AnswersMatch' /\ Refusing /\ Midway(sent[Len(sent)])
<1> DEFINE m == sent[Len(sent)]
<1>1. /\ At("kExpectHeaders") /\ HasLine /\ Line.kind \notin {"header", "blank"} /\ pc = "parse"
      /\ Fail(status) /\ status = 400 /\ sent' = sent
  BY OpenFacts DEF HeaderLineBad, At, clientVars
<1>2. m.colonless
  BY <1>1, HeaderStage, HeaderLines DEF InHeaders, AtColonless
<1>3. ~WellFormed(m) /\ Refusal(m) = 400
  BY <1>2 DEF WellFormed, Refusal
<1> QED
  BY <1>1, <1>2, <1>3, Refused DEF Midway

LEMMA BlankLine ==
  ASSUME Open, AtBlank, Drop(1), toSend' = toSend, NEW m, m = sent[Len(sent)]
  PROVE  /\ m \in Messages /\ m.method \in Methods /\ m.version \in Versions /\ ~m.colonless
         /\ request = Got(m, m.length, m.connection) /\ Rest' = Body(m)
<1>1. At("kExpectHeaders") /\ HasLine /\ Line.kind = "blank" /\ TInv
  BY DEF AtBlank, Open, CInv
<1>2. /\ m \in Messages /\ InHeaders(m) /\ AtLastLine(m)
  BY <1>1, HeaderStage, HeaderLines DEF InHeaders
<1>3. [kind |-> "blank"] \in Atoms /\ Body(m) \in Seq(Atoms)
  BY <1>2, BodySeq DEF Atoms
<1>4. Rest' = Body(m)
  BY <1>1, <1>2, <1>3, TakeLine DEF AtLastLine, AfterConnection, Blank
<1> QED
  BY <1>2, <1>4 DEF InHeaders, AtLastLine

LEMMA NothingLeft ==
  ASSUME TInv', Rest' = <<>>
  PROVE  buf' = <<>> /\ toSend' = <<>>
BY ConcatEqualIffEmpty DEF TInv, Rest

LEMMA BlankNoBodyOpen ==
  ASSUME Open, TInv', BlankNoBody
  PROVE  OpenInv' /\ AnswersMatch'
<1> PICK m : m = sent[Len(sent)]
  OBVIOUS
<1>1. /\ AtBlank /\ Drop(1) /\ toSend' = toSend /\ sent' = sent /\ state' = "kGotAll"
      /\ pc = "parse" /\ pc' = "onRequest"
  BY DEF BlankNoBody, AtBlank, At, clientVars
<1>2. /\ m \in Messages /\ m.method \in Methods /\ m.version \in Versions /\ ~m.colonless
      /\ request = Got(m, m.length, m.connection) /\ Rest' = Body(m)
  BY <1>1, BlankLine
<1>3. request.method = m.method /\ request.length = m.length
  BY <1>2 DEF Got
<1>4. WellFormed(m) /\ Len(m.body) = 0
  BY <1>2, <1>3, MessageFields, BoundsAssumption DEF BlankNoBody, WellFormed
<1>5. Body(m) = <<>>
  BY <1>2, <1>4, BodySeq, EmptySeq
<1>6. buf' = <<>> /\ toSend' = <<>>
  BY <1>2, <1>5, NothingLeft
<1>7. request' = Meaning(m)
  <2>1. CASE m.method \notin Bodied
    BY <1>2, <1>3, <2>1 DEF BlankNoBody, Meaning, Got
  <2>2. CASE m.method \in Bodied
    <3>1. m.length = 0 /\ request' = [request EXCEPT !.contentLength = 0]
      BY <1>3, <2>2 DEF BlankNoBody
    <3>2. request' = [method |-> m.method, version |-> m.version, length |-> m.length,
                      connection |-> m.connection, contentLength |-> 0, content |-> <<>>]
      BY <1>2, <3>1 DEF Got
    <3> QED
      BY <2>2, <1>5, <3>1, <3>2 DEF Meaning
  <2> QED
    BY <2>1, <2>2
<1>8. Complete(m)'
  BY <1>1, <1>4, <1>6, <1>7 DEF Complete
<1>9. ReadSoFar(sent[Len(sent)])'
  BY <1>1, <1>8 DEF ReadSoFar
<1> QED
  BY <1>1, <1>9, ReadOn DEF BlankNoBody, connVars

LEMMA BlankThenBodyOpen ==
  ASSUME Open, BlankThenBody
  PROVE  OpenInv' /\ AnswersMatch'
<1> PICK m : m = sent[Len(sent)]
  OBVIOUS
<1>1. /\ AtBlank /\ Drop(1) /\ toSend' = toSend /\ sent' = sent /\ state' = "kExpectBody"
      /\ pc = "parse" /\ pc' = "parse"
  BY DEF BlankThenBody, AtBlank, At, clientVars
<1>2. /\ m \in Messages /\ m.method \in Methods /\ m.version \in Versions /\ ~m.colonless
      /\ request = Got(m, m.length, m.connection) /\ Rest' = Body(m)
  BY <1>1, BlankLine
<1>3. /\ m.method \in Bodied /\ m.length \in 1..maxBodyBytes
      /\ request' = [Got(m, m.length, m.connection) EXCEPT !.contentLength = m.length]
  BY <1>2 DEF BlankThenBody, Got
<1>4. WellFormed(m)
  BY <1>2, <1>3, BoundsAssumption DEF WellFormed
<1>5. InBody(m)'
  BY <1>1, <1>2, <1>3, <1>4 DEF InBody
<1>6. ReadSoFar(sent[Len(sent)])'
  BY <1>1, <1>5 DEF ReadSoFar
<1> QED
  BY <1>1, <1>6, ReadOn DEF BlankThenBody, connVars

LEMMA BlankRefusedOpen ==
  ASSUME Open, BlankRefused
  PROVE  OpenInv' /\ AnswersMatch' /\ Refusing /\ NoLine'
<1> PICK m : m = sent[Len(sent)]
  OBVIOUS
<1>1. /\ AtBlank /\ Drop(1) /\ toSend' = toSend /\ sent' = sent /\ pc = "parse" /\ status = 400
  BY OpenFacts DEF BlankRefused, AtBlank, At, clientVars
<1>2. /\ m \in Messages /\ m.method \in Methods /\ m.version \in Versions /\ ~m.colonless
      /\ request = Got(m, m.length, m.connection) /\ Rest' = Body(m)
  BY <1>1, BlankLine
<1>3. /\ m.method \in Bodied
      /\ m.length \in {Absent, Malformed} \/ m.length > maxBodyBytes
      /\ status' = IF m.length > maxBodyBytes THEN 413 ELSE 400
  BY <1>1, <1>2 DEF BlankRefused, Got
<1>4. ~WellFormed(m) /\ status' = Refusal(m)
  BY <1>2, <1>3, MessageFields, BoundsAssumption DEF WellFormed, Refusal, Absent, Malformed
<1>5. PICK code : code = Refusal(m)
  OBVIOUS
<1>6. Fail(code)
  BY <1>4, <1>5 DEF BlankRefused
<1>7. NoLine'
  <2>1. state' = "kExpectHeaders"
    BY <1>1 DEF BlankRefused, AtBlank, At
  <2>2. \A i \in 1..Len(Rest') : Rest'[i].kind = "byte"
    BY <1>2, BodySeq
  <2> QED
    BY <2>1, <2>2 DEF NoLine, Rest
<1> QED
  BY <1>1, <1>4, <1>5, <1>6, <1>7, Refused

LEMMA BodyCompleteOpen ==
  ASSUME Open, TInv', BodyComplete
  PROVE  OpenInv' /\ AnswersMatch'
<1> PICK m : m = sent[Len(sent)]
  OBVIOUS
<1>1. /\ pc = "parse" /\ state = "kExpectBody" /\ pc' = "onRequest" /\ state' = "kGotAll"
      /\ toSend' = toSend /\ sent' = sent /\ Len(buf) >= request.contentLength
      /\ buf' = SubSeq(buf, request.contentLength + 1, Len(buf))
      /\ request' = [request EXCEPT !.content = SubSeq(buf, 1, request.contentLength)]
  BY DEF BodyComplete, At, clientVars, Drop
<1>2. m \in Messages /\ InBody(m)
  BY <1>1, OpenFacts DEF ReadSoFar, AtFirstLine, InHeaders, Complete
<1>3. /\ buf \in Seq(Atoms) /\ toSend \in Seq(Atoms) /\ Len(buf) \in Nat /\ Len(toSend) \in Nat
  BY DEF Open, CInv, TInv
<1>4. /\ request.contentLength = m.length /\ m.length \in Nat /\ Len(Body(m)) = m.length
      /\ m.method \in Bodied
  BY <1>2, BodySeq, MessageFields, BoundsAssumption DEF InBody, Got, WellFormed
<1>5. Len(buf) + Len(toSend) = m.length
  BY <1>2, <1>3, <1>4, ConcatProperties DEF InBody, Rest
<1>6. toSend = <<>> /\ Len(buf) = m.length
  BY <1>1, <1>3, <1>4, <1>5, EmptySeq
<1>7. buf = Body(m)
  BY <1>2, <1>3, <1>6, ConcatEmptySeq DEF InBody, Rest
<1>8. SubSeq(buf, 1, request.contentLength) = Body(m)
  BY <1>3, <1>4, <1>6, <1>7, SubSeqFull
<1>9. buf' = <<>>
  BY <1>1, <1>4, <1>6, SubSeqEmpty
<1>10. request' = Meaning(m)
  <2>1. request = [method |-> m.method, version |-> m.version, length |-> m.length,
                   connection |-> m.connection, contentLength |-> m.length, content |-> <<>>]
    BY <1>2 DEF InBody, Got
  <2> QED
    BY <1>1, <1>4, <1>8, <2>1 DEF Meaning
<1>11. Complete(m)'
  BY <1>1, <1>2, <1>6, <1>9, <1>10 DEF Complete, InBody
<1>12. ReadSoFar(sent[Len(sent)])'
  BY <1>1, <1>11 DEF ReadSoFar
<1> QED
  BY <1>1, <1>12, ReadOn DEF BodyComplete, connVars

LEMMA SameReading ==
  ASSUME Open, NEW m, ReadSoFar(m), Rest' = Rest, state' = state, request' = request,
         state # "kGotAll"
  PROVE  ReadSoFar(m)'
<1>1. AtFirstLine(m) \/ InHeaders(m) \/ InBody(m)
  BY DEF ReadSoFar, Complete
<1>2. AtFirstLine(m) => AtFirstLine(m)'
  BY DEF AtFirstLine
<1>3. InBody(m) => InBody(m)'
  BY DEF InBody
<1>4. InHeaders(m) => InHeaders(m)'
  BY DEF InHeaders, AtColonless, AtLength, AtConnection, AtLastLine
<1> QED
  BY <1>1, <1>2, <1>3, <1>4 DEF ReadSoFar

LEMMA NeedMoreOpen ==
  ASSUME Open, NeedMore
  PROVE  OpenInv' /\ AnswersMatch'
<1> PICK m : m = sent[Len(sent)]
  OBVIOUS
<1>1. /\ pc = "parse" /\ state # "kGotAll" /\ state' = state /\ request' = request
      /\ Rest' = Rest /\ sent' = sent
  BY DEF NeedMore, At, ctxVars, clientVars, Rest
<1>2. ReadSoFar(m)'
  BY <1>1, OpenFacts, SameReading
<1> QED
  BY <1>1, <1>2, ReadOn DEF NeedMore, connVars, ctxVars

LEMMA ReceiveOpen ==
  ASSUME Open, Receive
  PROVE  OpenInv' /\ AnswersMatch'
<1> PICK m : m = sent[Len(sent)]
  OBVIOUS
<1>1. /\ pc = "poll" /\ state' = state /\ request' = request /\ sent' = sent
      /\ state # "kGotAll" /\ status' = 400 /\ pc' = "parse"
  BY DEF Receive, Open, CInv, TInv, Filled
<1>2. Rest' = Rest /\ toSend # <<>>
  BY ReceiveSplits DEF Rest, Open, CInv
<1>3. ReadSoFar(m)'
  BY <1>1, <1>2, OpenFacts, SameReading
<1> QED
  BY <1>1, <1>2, <1>3, ReadOn DEF Receive, connVars

LEMMA SendOpen ==
  ASSUME Open, NEW m \in Messages, Send(m)
  PROVE  OpenInv' /\ AnswersMatch'
<1>1. /\ Len(answers) = Len(sent) /\ sent' = Append(sent, m) /\ toSend' = toSend \o Encode(m)
      /\ UNCHANGED <<buf, state, request, status, pc, link, answers>>
  BY DEF Send, ctxVars, connVars
<1>2. Waiting /\ status = 400 /\ \A i \in 1..Len(answers) : WellFormed(sent[i])
  BY <1>1 DEF Open, CInv, OpenInv, InFlight, TInv
<1>3. /\ Len(sent) \in Nat /\ Len(sent') = Len(sent) + 1 /\ sent'[Len(sent')] = m
      /\ \A i \in 1..Len(sent) : sent'[i] = sent[i]
  BY <1>1, AppendProperties DEF Open, CInv, TInv
<1>4. Rest' = ReqLine(m) \o AfterRequestLine(m)
  BY <1>1, <1>2, EncodeSeq, ConcatEmptySeq DEF Rest, Waiting
<1>5. AtFirstLine(m)'
  BY <1>1, <1>2, <1>4 DEF AtFirstLine, Waiting
<1>6. InFlight'
  BY <1>1, <1>2, <1>3, <1>5 DEF InFlight, ReadSoFar, Waiting
<1>7. OpenInv'
  BY <1>1, <1>2, <1>3, <1>6 DEF OpenInv
<1>8. AnswersMatch'
  <2>1. AnswersMatch /\ DOMAIN answers = 1..Len(answers)
    BY DEF Open, CInv, TInv
  <2> QED
    BY <1>1, <1>2, <1>3, <2>1 DEF AnswersMatch
<1> QED
  BY <1>7, <1>8

LEMMA HandleOpen ==
  ASSUME Open, Handle
  PROVE  /\ OpenInv' /\ AnswersMatch'
         /\ LET m == sent[Len(sent)]
            IN  /\ Len(sent) = Len(answers) + 1 /\ WellFormed(m)
                /\ handled' = Append(handled, Meaning(m))
                /\ \E code \in AppStatuses : answers' = Append(answers, code)
                /\ toSend' = <<>> /\ pc' = "poll"
<1> DEFINE m == sent[Len(sent)]
<1>1. /\ pc = "onRequest" /\ sent' = sent /\ pc' = "poll" /\ buf' = buf /\ toSend' = toSend
      /\ state' = "kExpectRequestLine" /\ request' = EmptyRequest /\ status' = 400
      /\ handled' = Append(handled, request)
  BY DEF Handle, clientVars
<1>2. state = "kGotAll"
  BY <1>1 DEF Open, CInv, TInv, Filled
<1>3. Complete(m) /\ m \in Messages
  BY <1>1, <1>2, OpenFacts DEF ReadSoFar, AtFirstLine, InHeaders, InBody
<1>4. PICK r \in Outcomes : Respond(r.code)
  BY DEF Handle
<1>5. r.code \in AppStatuses /\ answers' = Append(answers, r.code)
  BY <1>4, OutcomeCodes DEF Respond, Open
<1>6. AnswersMatch' /\ Len(answers') = Len(sent')
  BY <1>1, <1>3, <1>5, Answer DEF Complete
<1>7. Waiting'
  BY <1>1, <1>3, <1>6 DEF Waiting, Complete
<1>8. (\A i \in 1..Len(answers) : WellFormed(sent[i]))'
  BY <1>1, <1>3, <1>6, OpenFacts DEF Complete
<1>9. OpenInv'
  BY <1>1, <1>7, <1>8 DEF OpenInv
<1> QED
  BY <1>1, <1>3, <1>5, <1>6, <1>9, OpenFacts DEF Complete

LEMMA DisconnectOpen ==
  ASSUME Open, Disconnect
  PROVE  OpenInv' /\ AnswersMatch'
BY QuietAnswers DEF Open, CInv, Disconnect, OpenInv

-----------------------------------------------------------------------------
(* The steps of a connection that is closed or closing.                    *)

Closed == CInv /\ link # "kConnected"

LEMMA ClosedQuiet ==
  ASSUME Closed, [Next]_vars
  PROVE  sent' = sent /\ answers' = answers /\ link' # "kConnected"
<1>1. CASE Receive \/ Disconnect \/ UNCHANGED vars
  BY <1>1 DEF Closed, Receive, Disconnect, vars, connVars
<1>2. CASE RequestLineOk \/ AssertFails \/ HeaderLine \/ BlankNoBody \/ BlankThenBody
           \/ BodyComplete \/ NeedMore
  BY <1>2 DEF Closed, RequestLineOk, AssertFails, HeaderLine, BlankNoBody, BlankThenBody,
              BodyComplete, NeedMore, connVars, clientVars
<1>3. CASE RequestLineBad \/ HeaderLineBad
  BY <1>3 DEF Closed, RequestLineBad, HeaderLineBad, Fail, Respond, clientVars
<1>4. CASE BlankRefused
  BY <1>4 DEF Closed, BlankRefused, Fail, Respond, clientVars
<1>5. CASE Handle
  BY <1>5 DEF Closed, Handle, Respond, clientVars
<1>6. ASSUME NEW m \in Messages PROVE ~Send(m)
  BY DEF Closed, Send
<1> QED
  BY <1>1, <1>2, <1>3, <1>4, <1>5, <1>6 DEF Next, Parse

LEMMA SilentStep ==
  ASSUME Closed, [Next]_vars, Silent
  PROVE  Silent' /\ handled' = handled
<1>1. pc = "poll" /\ ~Receive
  BY ReceiveSplits DEF Silent, Closed, CInv
<1>2. ~Handle /\ ~Parse /\ \A m \in Messages : ~Send(m)
  BY <1>1 DEF Closed, Handle, Parse, Send, RequestLineOk, RequestLineBad, AtRequestLine, AssertFails,
              HeaderLine, HeaderLineBad, BlankNoBody, BlankThenBody, BlankRefused, AtBlank,
              BodyComplete, NeedMore, At
<1>3. CASE Disconnect
  BY <1>1, <1>3 DEF Disconnect, Silent
<1>4. CASE UNCHANGED vars
  BY <1>4 DEF vars, Silent
<1> QED
  BY <1>1, <1>2, <1>3, <1>4 DEF Next

LEMMA MetAgainStep ==
  ASSUME Closed, [Next]_vars, MetAgain
  PROVE  MetAgain' /\ handled' = handled
<1>1. state = "kExpectRequestLine" /\ HasLine /\ TInv
  BY DEF MetAgain, HasLine, Closed, CInv
<1>2. ~HeaderLine /\ ~HeaderLineBad /\ ~BlankNoBody /\ ~BlankThenBody /\ ~BlankRefused
      /\ ~BodyComplete /\ ~NeedMore
  BY <1>1 DEF HeaderLine, HeaderLineBad, BlankNoBody, BlankThenBody, BlankRefused, AtBlank,
              BodyComplete, NeedMore, At
<1>3. ~RequestLineOk /\ ~AssertFails
  BY DEF MetAgain, RequestLineOk, AssertFails, Line
<1>4. ~Handle /\ \A m \in Messages : ~Send(m)
  BY <1>1 DEF Handle, Send, TInv, Filled, Closed
<1>5. CASE Receive
  <2>1. buf' # <<>> /\ Head(buf') = Head(buf)
    BY <1>1, <1>5, ReceiveSplits DEF MetAgain
  <2> QED
    BY <1>5, <2>1 DEF MetAgain, Receive, connVars
<1>6. CASE RequestLineBad
  <2>1. request' = request /\ buf' = buf /\ state' = state
    BY <1>6 DEF MetAgain, RequestLineBad, Line
  <2> QED
    BY <1>6, <2>1 DEF MetAgain, RequestLineBad, Fail
<1>7. CASE Disconnect
  BY <1>7 DEF MetAgain, Disconnect, ctxVars
<1>8. CASE UNCHANGED vars
  BY <1>8 DEF MetAgain, vars
<1> QED
  BY <1>2, <1>3, <1>4, <1>5, <1>6, <1>7, <1>8 DEF Next, Parse

LEMMA NoLineStep ==
  ASSUME Closed, [Next]_vars, NoLine
  PROVE  NoLine' /\ handled' = handled
<1>1. state = "kExpectHeaders" /\ TInv
  BY DEF NoLine, Closed, CInv
<1>2. ~HasLine
  <2>1. SUFFICES ASSUME buf # <<>> PROVE Head(buf).kind = "byte"
    BY DEF HasLine
  <2>2. buf \in Seq(Atoms) /\ toSend \in Seq(Atoms) /\ Len(buf) > 0
    BY <1>1, <2>1, EmptySeq DEF TInv
  <2>3. Rest[1] = Head(buf) /\ 1 \in 1..Len(Rest)
    BY <2>2, ConcatProperties DEF Rest
  <2> QED
    BY <2>3 DEF NoLine
<1>3. ~HeaderLine /\ ~HeaderLineBad /\ ~BlankNoBody /\ ~BlankThenBody /\ ~BlankRefused
      /\ ~BodyComplete /\ ~RequestLineOk /\ ~RequestLineBad /\ ~AssertFails
  BY <1>1, <1>2 DEF HeaderLine, HeaderLineBad, BlankNoBody, BlankThenBody, BlankRefused, AtBlank,
              BodyComplete, RequestLineOk, RequestLineBad, AtRequestLine, AssertFails, At
<1>4. ~Handle /\ \A m \in Messages : ~Send(m)
  BY <1>1 DEF Handle, Send, TInv, Filled, Closed
<1>5. CASE Receive
  <2>1. Rest' = Rest
    BY <1>1, <1>5, ReceiveSplits DEF Rest
  <2> QED
    BY <1>5, <2>1 DEF NoLine, Receive, connVars
<1>6. CASE NeedMore
  BY <1>6 DEF NoLine, Rest, NeedMore, ctxVars, clientVars, connVars
<1>7. CASE Disconnect
  BY <1>7 DEF NoLine, Rest, Disconnect, ctxVars
<1>8. CASE UNCHANGED vars
  BY <1>8 DEF NoLine, Rest, vars
<1> QED
  BY <1>3, <1>4, <1>5, <1>6, <1>7, <1>8 DEF Next, Parse

LEMMA ClosedStep ==
  ASSUME Closed, [Next]_vars
  PROVE  /\ ClosedInv'
         /\ handled' = handled \/ \E i \in 1..Len(sent) : Midway(sent[i])
<1>1. \/ \E i \in 1..Len(sent) : Midway(sent[i])
      \/ MetAgain \/ NoLine \/ Silent
  BY DEF Closed, CInv, ClosedInv
<1> QED
  BY <1>1, ClosedQuiet, MetAgainStep, NoLineStep, SilentStep DEF ClosedInv

-----------------------------------------------------------------------------
(* Every step keeps the invariant and is a step of the exchange.           *)

LEMMA RefusingIsRefuse ==
  ASSUME Open, Refusing
  PROVE  Exchange!Refuse
<1>1. Len(answers) # Len(sent)
  BY DEF Refusing, Open, CInv, TInv
<1> QED
  BY <1>1 DEF Refusing, Open, Exchange!Refuse, Exchange!Answered, Exchange!Last

LEMMA ReadingIsStutter ==
  ASSUME Open, link' = link, answers' = answers, sent' = sent, handled' = handled
  PROVE  ClosedInv' /\ UNCHANGED Exchange!xvars
BY DEF Open, ClosedInv, Exchange!xvars

LEMMA OpenStep ==
  ASSUME Open, TInv', [Next]_vars
  PROVE  OpenInv' /\ AnswersMatch' /\ ClosedInv' /\ [Exchange!Next]_(Exchange!xvars)
<1> DEFINE Goal == OpenInv' /\ AnswersMatch' /\ ClosedInv' /\ [Exchange!Next]_(Exchange!xvars)
<1>1. CASE Receive
  BY <1>1, ReceiveOpen, ReadingIsStutter DEF Receive, connVars
<1>2. CASE RequestLineOk
  BY <1>2, RequestLineOkOpen, ReadingIsStutter DEF RequestLineOk, connVars, clientVars
<1>3. CASE HeaderLine
  BY <1>3, HeaderLineOpen, ReadingIsStutter DEF HeaderLine, connVars, clientVars
<1>4. CASE BlankNoBody
  BY <1>4, BlankNoBodyOpen, ReadingIsStutter DEF BlankNoBody, connVars, clientVars
<1>5. CASE BlankThenBody
  BY <1>5, BlankThenBodyOpen, ReadingIsStutter DEF BlankThenBody, connVars, clientVars
<1>6. CASE BodyComplete
  BY <1>6, BodyCompleteOpen, ReadingIsStutter DEF BodyComplete, connVars, clientVars
<1>7. CASE NeedMore
  BY <1>7, NeedMoreOpen, ReadingIsStutter DEF NeedMore, connVars, clientVars
<1>8. ASSUME Refusing, OpenInv', AnswersMatch', Midway(sent[Len(sent)]) \/ MetAgain' \/ NoLine'
      PROVE  Goal
  <2>1. Len(sent) \in 1..Len(sent) /\ sent' = sent
    BY <1>8 DEF Refusing, Open, CInv, TInv
  <2>2. ClosedInv'
    BY <1>8, <2>1 DEF ClosedInv
  <2> QED
    BY <1>8, <2>2, RefusingIsRefuse DEF Exchange!Next
<1>9. CASE RequestLineBad
  BY <1>8, <1>9, RequestLineBadOpen
<1>10. CASE HeaderLineBad
  BY <1>8, <1>10, HeaderLineBadOpen
<1>11. CASE BlankRefused
  BY <1>8, <1>11, BlankRefusedOpen
<1>12. CASE Handle
  <2> DEFINE m == sent[Len(sent)]
  <2>1. /\ OpenInv' /\ AnswersMatch' /\ Len(sent) = Len(answers) + 1 /\ WellFormed(m)
        /\ handled' = Append(handled, Meaning(m))
        /\ \E code \in AppStatuses : answers' = Append(answers, code)
        /\ toSend' = <<>> /\ pc' = "poll" /\ sent' = sent
    BY <1>12, HandleOpen DEF Handle, clientVars
  <2>2. ClosedInv'
    BY <2>1 DEF ClosedInv, Silent
  <2>3. Len(answers) # Len(sent) /\ link = "kConnected"
    BY <2>1 DEF Open, CInv, TInv
  <2>4. (link # "kConnected")' \in BOOLEAN
    OBVIOUS
  <2>5. Exchange!Serve
    BY <2>1, <2>3, <2>4 DEF Exchange!Serve, Exchange!Answered, Exchange!Last, AppStatuses
  <2> QED
    BY <2>1, <2>2, <2>5 DEF Exchange!Next
<1>13. CASE Disconnect
  <2>1. /\ link = "kConnected" /\ link' = "kDisconnected" /\ pc' = "poll"
        /\ UNCHANGED <<sent, handled, answers>>
    BY <1>13 DEF Open, Disconnect
  <2>2. ClosedInv'
    BY <2>1 DEF ClosedInv, Silent
  <2>3. Exchange!Hangup
    BY <2>1 DEF Exchange!Hangup
  <2> QED
    BY <1>13, <2>2, <2>3, DisconnectOpen DEF Exchange!Next
<1>14. ASSUME NEW m \in Messages, Send(m) PROVE Goal
  <2>1. OpenInv' /\ AnswersMatch'
    BY <1>14, SendOpen
  <2>2. /\ link = "kConnected" /\ link' = "kConnected" /\ Len(answers) = Len(sent)
        /\ sent' = Append(sent, m) /\ UNCHANGED <<handled, answers>>
    BY <1>14 DEF Send, connVars
  <2>3. Exchange!Ask(m)
    BY <2>2 DEF Exchange!Ask, Exchange!Answered
  <2> QED
    BY <2>1, <2>2, <2>3 DEF Exchange!Next, ClosedInv
<1>15. CASE UNCHANGED vars
  <2> PICK m : m = sent[Len(sent)]
    OBVIOUS
  <2>1. Rest' = Rest /\ UNCHANGED <<state, request, buf, toSend>>
    BY <1>15 DEF Rest, vars
  <2>2. InHeaders(m)' <=> InHeaders(m)
    BY <2>1 DEF InHeaders, AtColonless, AtLength, AtConnection, AtLastLine
  <2>3. ReadSoFar(m)' <=> ReadSoFar(m)
    BY <2>1, <2>2 DEF ReadSoFar, AtFirstLine, InBody, Complete
  <2>4. (Waiting' <=> Waiting) /\ (InFlight' <=> InFlight)
    BY <1>15, <2>3 DEF vars, Waiting, InFlight
  <2>5. OpenInv'
    BY <1>15, <2>4 DEF Open, CInv, OpenInv, vars
  <2> QED
    BY <1>15, <2>5, QuietAnswers, ReadingIsStutter DEF Open, CInv, vars
<1>16. ~AssertFails
  BY AssertFailsOpen
<1> QED
  BY <1>1, <1>2, <1>3, <1>4, <1>5, <1>6, <1>7, <1>9, <1>10, <1>11, <1>12, <1>13, <1>14, <1>15,
     <1>16 DEF Next, Parse

LEMMA ClosedExchange ==
  ASSUME Closed, TInv', [Next]_vars
  PROVE  OpenInv' /\ AnswersMatch' /\ ClosedInv' /\ [Exchange!Next]_(Exchange!xvars)
<1>1. sent' = sent /\ answers' = answers /\ link' # "kConnected" /\ link # "kConnected"
  BY ClosedQuiet DEF Closed
<1>2. OpenInv' /\ AnswersMatch'
  BY <1>1, QuietAnswers DEF Closed, CInv, OpenInv
<1>3. ASSUME handled' = handled PROVE [Exchange!Next]_(Exchange!xvars)
  BY <1>1, <1>3 DEF Exchange!xvars
<1>4. ASSUME \E i \in 1..Len(sent) : Midway(sent[i]) PROVE [Exchange!Next]_(Exchange!xvars)
  <2>1. DOMAIN sent = 1..Len(sent)
    BY DEF Closed, CInv, TInv
  <2>2. Exchange!Stray
    BY <1>4, <2>1 DEF Exchange!Stray
  <2> QED
    BY <2>2 DEF Exchange!Next
<1> QED
  BY <1>2, <1>3, <1>4, ClosedStep

LEMMA InitCInv == Init => CInv
<1> SUFFICES ASSUME Init PROVE CInv
  OBVIOUS
<1>1. TInv
  BY InitTInv
<1>2. link = "kConnected" /\ Len(answers) = 0 /\ Len(sent) = 0 /\ DOMAIN answers = 1..0
  BY <1>1 DEF Init, TInv
<1>3. OpenInv
  BY <1>2 DEF Init, OpenInv, Waiting
<1>4. AnswersMatch
  BY <1>2 DEF AnswersMatch
<1> QED
  BY <1>1, <1>2, <1>3, <1>4 DEF CInv, ClosedInv

LEMMA NextCInv == CInv /\ [Next]_vars => CInv' /\ [Exchange!Next]_(Exchange!xvars)
<1> SUFFICES ASSUME CInv, [Next]_vars PROVE CInv' /\ [Exchange!Next]_(Exchange!xvars)
  OBVIOUS
<1>1. TInv'
  BY NextTInv DEF CInv
<1>2. Open \/ Closed
  BY DEF Open, Closed
<1> QED
  BY <1>1, <1>2, OpenStep, ClosedExchange DEF CInv

(***************************************************************************)
(* Whatever the pieces its bytes come in: a message gets one answer at     *)
(* most, in its turn; the answer of onMessage is the refusal it deserves   *)
(* exactly if it is malformed; a refusal is the last thing a client hears. *)
(***************************************************************************)
THEOREM AnswersAreRight == Spec => []AnswersMatch
<1>1. CInv => AnswersMatch
  BY DEF CInv
<1> QED
  BY InitCInv, NextCInv, <1>1, PTL DEF Spec

(***************************************************************************)
(* The connection, with its buffer, its parser and its handler, implements *)
(* the exchange of HttpExchange: every step of it is an ask, an answer, a  *)
(* refusal, a hangup or nothing that a client or the application can see.  *)
(***************************************************************************)
THEOREM ImplementsExchange == Spec => ExchangeSpec
<1>1. Init => Exchange!Init
  BY DEF Init, Exchange!Init
<1> QED
  BY InitCInv, NextCInv, <1>1, PTL DEF Spec, ExchangeSpec, Exchange!Spec
=============================================================================
