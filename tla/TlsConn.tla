------------------------------- MODULE TlsConn -------------------------------
(***************************************************************************)
(* One TLS connection of the HTTP server: SslConnection between muduo's    *)
(* TcpConnection and OpenSSL, driven by HttpServer::onConnection,          *)
(* onMessage, onRequest and sendToClient, and the SslContext it needs.     *)
(*                                                                         *)
(* OpenSSL and the client are external.  OpenSSL works on two memory BIOs: *)
(* it takes whole records out of the one, as far as they have come, and    *)
(* puts records into the other, which is never full: an SSL_write wants    *)
(* something only while a renegotiation waits for the client.  A request   *)
(* is one record, a response ResponseLen pieces of plaintext, of which an  *)
(* SSL_write takes any number (SSL_MODE_ENABLE_PARTIAL_WRITE).             *)
(*                                                                         *)
(* One IO thread owns the connection: a callback runs to its end before    *)
(* the next one starts.  pc says where in a callback it is.                *)
(***************************************************************************)
EXTENDS Naturals, Sequences

CONSTANTS MaxRequests,    \* bound: requests the client sends
          Window,         \* bound: requests sent and not yet answered
          ResponseLen,    \* pieces of a response
          MaxRenegs,      \* bound: renegotiations the client starts
          MaxFaults,      \* bound: corrupt records and failing library calls
          kMaxSpins       \* drainPendingPlain's limit

ASSUME TlsAssumption ==
  /\ {MaxRequests, Window, MaxRenegs, MaxFaults} \subseteq Nat
  /\ {ResponseLen, kMaxSpins} \subseteq Nat \ {0}

VARIABLES
  \* the client and the network
  phase,      \* the client's place in the protocol
  asked,      \* requests it sent
  renegs,     \* renegotiations it started
  toServer,   \* records it sent that have not arrived
  wire,       \* handshake records the server gave to the network, in order
  plain,      \* plaintext of the application records it gave to the network
  link,       \* muduo's TcpConnection state
  notify,     \* muduo has a write-complete callback to make
  \* OpenSSL
  flights,    \* client flights of the first handshake it has processed
  blocked,    \* a renegotiation waits for the client
  eof,        \* "open"; close_notify was read and SSL_write goes on ("half")
              \* or returns SSL_ERROR_ZERO_RETURN ("closed"), as the version has it
  readBio, writeBio,
  faults,
  \* SslConnection and HttpServer
  inTable,    \* the connection has an entry in sslConns_
  state,      \* SslConnection::state_
  pending,    \* pendingPlain_
  decrypted,  \* decryptedBuffer_
  pc,
  after,      \* where drainPendingPlain returns to
  spins,
  out,        \* what send() has still to write
  closing,    \* response.closeConnection()
  \* history
  requests,   \* requests handed to the application, in order
  given,      \* the plaintext of all responses given to send()
  fresh       \* nothing arrived since the handshake was completed

clientVars  == <<phase, asked, renegs>>
netVars     == <<toServer, link>>
outVars     == <<writeBio, wire, plain, notify>>
engineVars  == <<flights, blocked, eof>>
stateVars   == <<faults, state, pending>>
callVars    == <<after, spins, out>>
historyVars == <<requests, given>>
appVars     == <<decrypted, closing, historyVars>>
fixed       == <<clientVars, inTable, fresh>>
quiet       == <<fixed, engineVars, readBio, appVars>>
calm        == <<quiet, netVars, stateVars>>
vars == <<calm, outVars, pc, callVars>>

Rec(k)      == [kind |-> k, n |-> 0]
Request(i)  == [kind |-> "app", n |-> i]
Response(i) == [j \in 1..ResponseLen |-> [kind |-> "app", n |-> i, piece |-> j]]

-----------------------------------------------------------------------------
(* SslContext::initialize and HttpServer::onConnection.                    *)

\* The library calls setSslConfig makes; each must succeed.
ContextSteps(chain, ciphers) ==
  {"SSL_CTX_new", "certificate", "privateKey", "check", "minVersion", "maxVersion"}
  \union (IF chain THEN {"chain"} ELSE {}) \union (IF ciphers THEN {"ciphers"} ELSE {})

\* sslCtx_ is kept if all of them did; then SSL_new and the BIOs are made for
\* each connection.  Without either, shutdown() and no entry in sslConns_.
Connected(failing, chain, ciphers) ==
  failing \intersect (ContextSteps(chain, ciphers) \union {"SSL_new", "BIO_new"}) = {}

AllSteps == ContextSteps(TRUE, TRUE) \union {"SSL_new", "BIO_new"}

\* startHandshake() finds nothing to read yet.
Init ==
  /\ phase = "hello" /\ asked = 0 /\ renegs = 0
  /\ toServer = <<>> /\ wire = <<>> /\ plain = <<>> /\ notify = FALSE
  /\ flights = 0 /\ blocked = FALSE /\ eof = "open"
  /\ readBio = <<>> /\ writeBio = <<>> /\ faults = 0
  /\ \E failing \in {{}} \union {{s} : s \in AllSteps}, chain, ciphers \in BOOLEAN :
       inTable = Connected(failing, chain, ciphers)
  /\ link = IF inTable THEN "kConnected" ELSE "kDisconnecting"
  /\ state = "HANDSHAKE" /\ pending = <<>> /\ decrypted = <<>>
  /\ pc = "poll" /\ after = "poll" /\ spins = 0 /\ out = <<>> /\ closing = FALSE
  /\ requests = <<>> /\ given = <<>> /\ fresh = FALSE

-----------------------------------------------------------------------------
(* The client.  Its second flight needs the server's; what follows the     *)
(* flight need not wait (a resumed session, or False Start).               *)

Flights == Len(SelectSeq(wire, LAMBDA r : r.kind = "flight"))

ClientSends(r, next) == /\ toServer' = Append(toServer, r)
                        /\ phase' = next
                        /\ UNCHANGED <<outVars, engineVars, callVars, appVars, link,
                                       readBio, inTable, state, pending, pc, fresh>>

Hello == /\ phase = "hello"
         /\ ClientSends(Rec("hello"), "wait") /\ UNCHANGED <<asked, renegs, faults>>

\* "finished" ends the first handshake and each renegotiation.
Finish == /\ phase = "wait" /\ Flights = renegs + 1
          /\ ClientSends(Rec("finished"), "ready") /\ UNCHANGED <<asked, renegs, faults>>

Ask == /\ phase = "ready" /\ asked < MaxRequests
       /\ Len(plain) >= ResponseLen * (asked + 1 - Window)
       /\ asked' = asked + 1
       /\ ClientSends(Request(asked'), "ready") /\ UNCHANGED <<renegs, faults>>

Renegotiate == /\ phase = "ready" /\ renegs < MaxRenegs
               /\ renegs' = renegs + 1
               /\ ClientSends(Rec("hello"), "wait") /\ UNCHANGED <<asked, faults>>

Bye == /\ phase = "ready"
       /\ ClientSends(Rec("close_notify"), "done") /\ UNCHANGED <<asked, renegs, faults>>

\* A record that is corrupt or out of place.
Corrupt == /\ phase # "done" /\ faults < MaxFaults
           /\ faults' = faults + 1
           /\ ClientSends(Rec("corrupt"), "done") /\ UNCHANGED <<asked, renegs>>

Client == Hello \/ Finish \/ Ask \/ Renegotiate \/ Bye \/ Corrupt

\* The client closes the TCP connection: onConnection erases the SslConnection.
Disconnect == /\ pc = "poll" /\ link # "kDisconnected"
              /\ link' = "kDisconnected"
              /\ UNCHANGED <<quiet, outVars, callVars, stateVars, toServer, pc>>

-----------------------------------------------------------------------------
(* flushWriteBio, shutdown, and what a callback that returns leaves alone. *)

\* muduo drops what is sent after shutdown().  Nobody compares the places of
\* handshake records and of application records in the stream.
FlushWith(records, pieces) ==
  /\ wire' = IF link = "kConnected" THEN wire \o writeBio \o records ELSE wire
  /\ plain' = IF link = "kConnected" THEN plain \o pieces ELSE plain
  /\ writeBio' = <<>>
  /\ notify' = (notify \/ (link = "kConnected" /\ writeBio \o records \o pieces # <<>>))

Flush == FlushWith(<<>>, <<>>)

Shutdown == /\ link' = IF link = "kConnected" THEN "kDisconnecting" ELSE link
            /\ UNCHANGED toServer

Goto(p) == pc' = p

Fault == faults < MaxFaults /\ faults' = faults + 1

\* state_ = ERROR and shutdown(), what had been in pendingPlain_ is cleared.
Fatal == /\ state' = "ERROR" /\ pending' = <<>>
         /\ Shutdown

-----------------------------------------------------------------------------
(* onMessage and onRead.                                                   *)

\* TCP delivers some records.  feedReadBio takes all of them; without an
\* SslConnection onMessage shuts the connection down; a connection in state
\* ERROR reads nothing any more.
Arrive(n) ==
  /\ pc = "poll" /\ link # "kDisconnected"
  /\ toServer' = SubSeq(toServer, n + 1, Len(toServer))
  /\ IF ~inTable \/ state = "ERROR"
     THEN /\ Goto("poll")
          /\ UNCHANGED readBio
     ELSE /\ readBio' = readBio \o SubSeq(toServer, 1, n)
          /\ Goto(IF state = "HANDSHAKE" THEN "handshake" ELSE "read")
  /\ link' = IF ~inTable /\ link = "kConnected" THEN "kDisconnecting" ELSE link
  /\ fresh' = FALSE
  /\ UNCHANGED <<clientVars, outVars, engineVars, callVars, appVars, stateVars, inTable>>

\* Variant: no reading while output is pending.
ReceiveUnlessPending == pending = <<>> /\ \E n \in 1..Len(toServer) : Arrive(n)

Receive == \E n \in 1..Len(toServer) : Arrive(n)

\* BIO_write takes less than it was given.
FeedFails ==
  /\ pc = "poll" /\ link # "kDisconnected" /\ inTable /\ state # "ERROR" /\ toServer # <<>>
  /\ Fault /\ Flush /\ Shutdown
  /\ state' = "ERROR"
  /\ UNCHANGED <<quiet, callVars, pending, pc>>

At(p)   == pc = p
Incoming(k) == readBio # <<>> /\ Head(readBio).kind = k

\* handleHandshake: SSL_do_handshake takes a flight and answers it ...
HandshakeFlight ==
  /\ At("handshake") /\ flights = 0 /\ Incoming("hello")
  /\ flights' = 1
  /\ readBio' = Tail(readBio)
  /\ writeBio' = Append(writeBio, Rec("flight"))
  /\ UNCHANGED <<fixed, netVars, callVars, appVars, stateVars, wire, plain, notify, blocked,
                 eof, pc>>

\* ... the last one ends it; what follows stays in readBio_, and onMessage finds
\* nothing decrypted.
HandshakeDone ==
  /\ At("handshake") /\ flights = 1 /\ Incoming("finished")
  /\ flights' = 2 /\ state' = "ESTABLISHED" /\ fresh' = TRUE
  /\ readBio' = Tail(readBio)
  /\ FlushWith(<<Rec("finished")>>, <<>>)
  /\ Goto("poll")
  /\ UNCHANGED <<clientVars, netVars, callVars, appVars, blocked, eof, faults, inTable,
                 pending>>

HandshakeWants ==
  /\ At("handshake") /\ readBio = <<>>
  /\ Flush
  /\ Goto("poll")
  /\ UNCHANGED <<calm, callVars>>

\* shutdown(), then the flush of an alert that muduo drops; state_ stays.
HandshakeFails ==
  /\ At("handshake") /\ (Incoming("corrupt") \/ Incoming("close_notify"))
  /\ Shutdown /\ writeBio' = <<>>
  /\ Goto("poll")
  /\ UNCHANGED <<quiet, callVars, stateVars, wire, plain, notify>>

\* Variants: a new piece replaces the buffer; one SSL_read instead of a loop.
ReadAppReplaces ==
  /\ At("read") /\ Incoming("app")
  /\ readBio' = Tail(readBio)
  /\ decrypted' = <<Head(readBio).n>>
  /\ UNCHANGED <<fixed, netVars, outVars, engineVars, callVars, stateVars, historyVars,
                 pc, closing>>

ReadAppOnce ==
  /\ At("read") /\ Incoming("app")
  /\ readBio' = Tail(readBio)
  /\ decrypted' = Append(decrypted, Head(readBio).n)
  /\ Goto("serve")
  /\ UNCHANGED <<fixed, netVars, outVars, engineVars, callVars, stateVars, historyVars,
                 closing>>

\* The SSL_read loop of onRead.
ReadApp ==
  /\ At("read") /\ Incoming("app")
  /\ readBio' = Tail(readBio)
  /\ decrypted' = Append(decrypted, Head(readBio).n)
  /\ UNCHANGED <<fixed, netVars, outVars, engineVars, callVars, stateVars, historyVars,
                 pc, closing>>

ReadHandshake ==
  /\ At("read") /\ (Incoming("hello") \/ Incoming("finished"))
  /\ readBio' = Tail(readBio)
  /\ blocked' = Incoming("hello")
  /\ writeBio' = Append(writeBio, Rec(IF Incoming("hello") THEN "flight" ELSE "finished"))
  /\ UNCHANGED <<fixed, netVars, callVars, appVars, stateVars, wire, plain, notify, flights,
                 eof, pc>>

StartDrain(back) == Goto("drain") /\ after' = back /\ spins' = 0

\* Variant: onRead leaves pendingPlain_ to the write-complete callback.
ReadEndNoDrain ==
  /\ At("read") /\ (readBio = <<>> \/ Incoming("close_notify"))
  /\ eof' \in IF readBio = <<>> THEN {eof} ELSE {"half", "closed"}
  /\ readBio' = <<>>
  /\ Flush /\ Goto("serve")
  /\ UNCHANGED <<fixed, netVars, callVars, appVars, stateVars, flights, blocked>>

\* WANT_READ, or 0 after close_notify: flush, then drainPendingPlain.
ReadEnd ==
  /\ At("read") /\ (readBio = <<>> \/ Incoming("close_notify"))
  /\ eof' \in IF readBio = <<>> THEN {eof} ELSE {"half", "closed"}
  /\ readBio' = <<>>
  /\ Flush /\ StartDrain("serve")
  /\ UNCHANGED <<fixed, netVars, appVars, stateVars, flights, blocked, out>>

\* Variant: an error that is only noted.
ReadFailsOpen ==
  /\ At("read") /\ Incoming("corrupt")
  /\ readBio' = <<>> /\ writeBio' = <<>>
  /\ state' = "ERROR"
  /\ StartDrain("serve")
  /\ UNCHANGED <<fixed, netVars, engineVars, appVars, wire, plain, notify, faults, pending, out>>

\* handleError: ERROR and shutdown(), so that muduo drops what is flushed next;
\* onMessage looks at nothing that was decrypted.
ReadFails ==
  /\ At("read") /\ Incoming("corrupt")
  /\ readBio' = <<>> /\ writeBio' = <<>>
  /\ state' = "ERROR" /\ Shutdown
  /\ StartDrain("serve")
  /\ UNCHANGED <<fixed, engineVars, appVars, wire, plain, notify, faults, pending, out>>

\* onMessage: the parser takes one request out of what was decrypted; the
\* handler's response goes to sendToClient.
Serve ==
  /\ At("serve") /\ state = "ESTABLISHED" /\ decrypted # <<>>
  /\ decrypted' = Tail(decrypted)
  /\ requests' = Append(requests, Head(decrypted))
  /\ given' = given \o Response(Head(decrypted))
  /\ out' = Response(Head(decrypted))
  /\ closing' \in BOOLEAN
  /\ Goto("write")
  /\ UNCHANGED <<fixed, netVars, outVars, engineVars, stateVars, readBio, after, spins>>

NothingToServe ==
  /\ At("serve") /\ (state # "ESTABLISHED" \/ decrypted = <<>>)
  /\ Goto("poll")
  /\ UNCHANGED <<calm, outVars, callVars>>

\* onWriteComplete: another handshake attempt, or drainPendingPlain.
WriteComplete ==
  /\ At("poll") /\ notify /\ link # "kDisconnected"
  /\ notify' = FALSE
  /\ CASE state = "HANDSHAKE"   -> Goto("handshake") /\ UNCHANGED <<after, spins>>
       [] state = "ESTABLISHED" -> StartDrain("poll")
       [] OTHER                 -> UNCHANGED <<pc, after, spins>>
  /\ UNCHANGED <<calm, wire, plain, writeBio, out>>

-----------------------------------------------------------------------------
(* SslConnection::send.                                                    *)

\* The outcomes of SSL_write besides SSL_ERROR_ZERO_RETURN and an error.
CanWrite == ~blocked /\ eof # "closed"
MustWait == blocked /\ eof # "closed"

WriteSome ==
  /\ At("write") /\ out # <<>> /\ CanWrite
  /\ \E n \in 1..Len(out) :
       /\ FlushWith(<<>>, SubSeq(out, 1, n))
       /\ out' = SubSeq(out, n + 1, Len(out))
  /\ UNCHANGED <<calm, pc, after, spins>>

\* WANT_READ or WANT_WRITE: the rest joins pendingPlain_.
WriteWants ==
  /\ At("write") /\ out # <<>> /\ MustWait
  /\ Flush
  /\ pending' = pending \o out /\ out' = <<>>
  /\ StartDrain("finish")
  /\ UNCHANGED <<quiet, netVars, faults, state>>

WriteZeroReturn ==
  /\ At("write") /\ out # <<>> /\ eof = "closed"
  /\ Flush /\ out' = <<>>
  /\ Goto("finish")
  /\ UNCHANGED <<calm, after, spins>>

WriteFails ==
  /\ At("write") /\ out # <<>> /\ Fault
  /\ Flush /\ Fatal /\ out' = <<>>
  /\ Goto("finish")
  /\ UNCHANGED <<quiet, after, spins>>

WriteDone ==
  /\ At("write") /\ out = <<>>
  /\ Flush
  /\ Goto("finish")
  /\ UNCHANGED <<calm, callVars>>

\* onRequest: shutdown() after the response if the connection is to be closed.
Finished ==
  /\ At("finish")
  /\ IF closing THEN Shutdown ELSE UNCHANGED netVars
  /\ Goto("poll") /\ closing' = FALSE
  /\ UNCHANGED <<fixed, outVars, engineVars, callVars, stateVars, historyVars, readBio,
                 decrypted>>

Send == WriteSome \/ WriteWants \/ WriteZeroReturn \/ WriteFails \/ WriteDone

-----------------------------------------------------------------------------
(* drainPendingPlain.                                                      *)

Draining == At("drain") /\ state = "ESTABLISHED"
Leave    == Goto(after) /\ UNCHANGED <<after, spins>>

DrainSome ==
  /\ Draining /\ pending # <<>> /\ spins < kMaxSpins /\ CanWrite
  /\ \E n \in 1..Len(pending) :
       /\ FlushWith(<<>>, SubSeq(pending, 1, n))
       /\ pending' = SubSeq(pending, n + 1, Len(pending))
  /\ spins' = spins + 1
  /\ UNCHANGED <<quiet, netVars, faults, state, pc, after, out>>

\* Want: what is left waits.  Zero: the client has closed, what is left goes.
DrainWants ==
  /\ Draining /\ pending # <<>> /\ spins < kMaxSpins /\ MustWait
  /\ Flush /\ Leave
  /\ UNCHANGED <<calm, out>>

DrainZeroReturn ==
  /\ Draining /\ pending # <<>> /\ spins < kMaxSpins /\ eof = "closed"
  /\ Flush /\ pending' = <<>> /\ Leave
  /\ UNCHANGED <<quiet, netVars, faults, state, out>>

DrainFails ==
  /\ Draining /\ pending # <<>> /\ spins < kMaxSpins /\ Fault
  /\ Flush /\ Fatal /\ Leave
  /\ UNCHANGED <<quiet, out>>

DrainSpinsOut ==
  /\ Draining /\ pending # <<>> /\ spins >= kMaxSpins
  /\ Fatal /\ Leave
  /\ UNCHANGED <<quiet, outVars, faults, out>>

DrainDone ==
  /\ Draining /\ pending = <<>>
  /\ Flush /\ Leave
  /\ UNCHANGED <<calm, out>>

NotDraining ==
  /\ At("drain") /\ state # "ESTABLISHED"
  /\ Leave
  /\ UNCHANGED <<calm, outVars, out>>

Drain == \/ DrainSome \/ DrainWants \/ DrainZeroReturn \/ DrainFails \/ DrainSpinsOut
         \/ DrainDone \/ NotDraining

-----------------------------------------------------------------------------
Handshake == HandshakeFlight \/ HandshakeDone \/ HandshakeWants \/ HandshakeFails
Read      == ReadApp \/ ReadHandshake \/ ReadEnd \/ ReadFails
Callback  == Handshake \/ Read \/ Serve \/ NothingToServe \/ Send \/ Finished \/ Drain

Next == Client \/ Disconnect \/ Receive \/ FeedFails \/ WriteComplete \/ Callback

Spec == Init /\ [][Next]_vars

\* TCP delivers, muduo makes its callbacks and each runs to its end; a client
\* that began a handshake ends it once it has the server's flight.
FairSpec == Spec /\ WF_vars(Receive) /\ WF_vars(WriteComplete) /\ WF_vars(Callback)
                 /\ WF_vars(Finish)

-----------------------------------------------------------------------------
\* The values of the variables, and how the state of SslConnection, OpenSSL's
\* progress and the place in a callback fit together.
TlsTypeOK ==
  /\ phase \in {"hello", "wait", "ready", "done"}
  /\ asked \in 0..MaxRequests /\ renegs \in 0..MaxRenegs /\ faults \in 0..MaxFaults
  /\ link \in {"kConnected", "kDisconnecting", "kDisconnected"}
  /\ state \in {"HANDSHAKE", "ESTABLISHED", "ERROR"}
  /\ state = "ESTABLISHED" => flights = 2
  /\ flights < 2 => plain = <<>> /\ decrypted = <<>> /\ given = <<>>
  /\ pc \in {"poll", "handshake", "read", "serve", "write", "finish", "drain"}
  /\ pc \in {"read", "write"} => state = "ESTABLISHED" /\ inTable
  /\ out # <<>> => pc = "write"
  /\ state = "ERROR" => link # "kConnected"
  /\ spins <= kMaxSpins
  /\ pc = "poll" => writeBio = <<>>

\* The client reads the responses in the order of its requests, without a gap, a
\* repetition or an overtaking, through partial writes, pendingPlain_, errors and
\* closes; while the connection is up, what it has not been sent waits in
\* pendingPlain_.
ResponsesInOrder ==
  /\ \E n \in 0..Len(given) : plain = SubSeq(given, 1, n)
  /\ pc = "poll" /\ link = "kConnected" /\ eof # "closed" => plain \o pending = given

\* The application gets the client's requests, each once and in order, whatever
\* handshakes, renegotiations and segments they came with.
RequestsInOrder ==
  requests \o decrypted = [i \in 1..Len(requests \o decrypted) |-> i]

\* Between two callbacks OpenSSL has nothing left to read, unless the handshake
\* was completed by the last bytes that came.
NothingLeftUnread ==
  pc = "poll" /\ state = "ESTABLISHED" /\ ~fresh => readBio = <<>>

\* A response that waits for a renegotiation is sent in the end.
PendingLeaves == pending # <<>> ~> (pending = <<>> \/ link # "kConnected" \/ phase = "done")

\* README.md:85, "SslConnection::onRead decrypts, then the HTTP parser gets it":
\* a request that has arrived is decrypted.
Arrived(i) == asked >= i /\ \A k \in DOMAIN toServer : toServer[k] # Request(i)

ArrivedIsDecrypted ==
  \A i \in 1..MaxRequests :
    Arrived(i) ~> (Len(requests \o decrypted) >= i \/ link # "kConnected" \/ state = "ERROR")
=============================================================================
