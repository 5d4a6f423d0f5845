---------------------------- MODULE TlsConn_proofs ---------------------------
(***************************************************************************)
(* Proofs about TlsConn, for any numbers of requests, renegotiations and   *)
(* faults, any length of a response and any kMaxSpins: its type invariant, *)
(* the order of the requests the application gets and of the plaintext the *)
(* client gets, and that OpenSSL is left nothing to read.                  *)
(***************************************************************************)
EXTENDS TlsConn, SeqLemmas

\* What a client sends, and the plaintext of the server's application records.
Records == [kind : {"hello", "finished", "close_notify", "corrupt"}, n : {0}]
           \union [kind : {"app"}, n : Nat]
Pieces  == [kind : {"app"}, n : Nat, piece : Nat]

Shape ==
  /\ phase \in {"hello", "wait", "ready", "done"}
  /\ asked \in 0..MaxRequests /\ renegs \in 0..MaxRenegs /\ faults \in 0..MaxFaults
  /\ link \in {"kConnected", "kDisconnecting", "kDisconnected"}
  /\ state \in {"HANDSHAKE", "ESTABLISHED", "ERROR"}
  /\ eof \in {"open", "half", "closed"}
  /\ flights \in 0..2
  /\ pc \in {"poll", "handshake", "read", "serve", "write", "finish", "drain"}
  /\ after \in {"poll", "serve", "finish"}
  /\ spins \in 0..kMaxSpins
  /\ toServer \in Seq(Records) /\ readBio \in Seq(Records)
  /\ plain \in Seq(Pieces) /\ pending \in Seq(Pieces) /\ out \in Seq(Pieces)
  /\ given \in Seq(Pieces)
  /\ decrypted \in Seq(Nat) /\ requests \in Seq(Nat)

\* How the state of the connection, OpenSSL's progress and the place in a callback
\* fit together.
Progress ==
  /\ state = "ESTABLISHED" => flights = 2
  /\ flights < 2 => plain = <<>> /\ decrypted = <<>> /\ given = <<>>
  /\ pc \in {"read", "write"} => state = "ESTABLISHED"
  /\ pc = "handshake" => state = "HANDSHAKE"
  /\ out # <<>> => pc = "write"
  /\ state = "ERROR" => link # "kConnected"
  /\ writeBio # <<>> => pc \in {"handshake", "read"}
  /\ ~inTable => state = "HANDSHAKE" /\ pc = "poll" /\ ~notify

TInv == Shape /\ Progress

\* Between two callbacks nothing is left in readBio but what came with the end of
\* the handshake.
Unread == state = "ESTABLISHED" /\ pc # "read" /\ ~fresh => readBio = <<>>

\* s holds the requests got + 1 .. upTo, one after the other, among other records,
\* and nothing follows a record that ends what the client says.
InOrder(s, got, upTo, ended) ==
  /\ got <= upTo
  /\ \A i \in 1..Len(s) : s[i].kind = "app" => s[i].n \in (got + 1)..upTo
  /\ \A i, j \in 1..Len(s) :
       i < j /\ s[i].kind = "app" /\ s[j].kind = "app" => s[i].n < s[j].n
  /\ \A i \in 1..Len(s) : s[i].kind = "app" =>
       \A k \in (got + 1)..(s[i].n - 1) : \E j \in 1..(i - 1) : s[j] = Request(k)
  /\ \A k \in (got + 1)..upTo : \E j \in 1..Len(s) : s[j] = Request(k)
  /\ \A i \in 1..Len(s) :
       s[i].kind \in {"corrupt", "close_notify"} => i = Len(s) /\ ended

\* The records on their way to SSL_read, and the requests that went through it.
Ahead == readBio \o toServer
Taken == requests \o decrypted

Listening == inTable /\ state # "ERROR"

RequestFlow ==
  /\ Taken = [i \in 1..Len(Taken) |-> i]
  /\ Listening => InOrder(Ahead, Len(Taken), asked, phase = "done")
  /\ Listening /\ eof # "open" => Ahead = <<>> /\ phase = "done"

\* What the client has not got of the responses waits in pendingPlain_ or in the
\* send() that is under way, and nothing is sent past pendingPlain_.
Front(s, t) == Len(s) <= Len(t) /\ \A i \in 1..Len(s) : s[i] = t[i]

ResponseFlow ==
  /\ Front(plain, given)
  /\ link = "kConnected" /\ eof # "closed" => plain \o (pending \o out) = given
  /\ state = "HANDSHAKE" => pending = <<>>
  /\ state = "ESTABLISHED" /\ pc \notin {"read", "drain"} /\ pending # <<>> =>
       blocked /\ eof # "closed"

-----------------------------------------------------------------------------
USE DEF clientVars, netVars, outVars, engineVars, stateVars, callVars, historyVars, appVars,
        fixed, quiet, calm, At, Goto

LEMMA Bounds ==
  /\ MaxRequests \in Nat /\ MaxRenegs \in Nat /\ MaxFaults \in Nat
  /\ ResponseLen \in Nat /\ kMaxSpins \in Nat
BY TlsAssumption

LEMMA InitTInv == Init => TInv
<1> SUFFICES ASSUME Init PROVE TInv
  OBVIOUS
<1>1. Shape
  BY Bounds DEF Init, Shape
<1>2. Progress
  BY DEF Init, Progress
<1> QED
  BY <1>1, <1>2 DEF TInv

LEMMA RecordShape ==
  /\ \A k \in {"hello", "finished", "close_notify", "corrupt"} : Rec(k) \in Records
  /\ \A i \in Nat : Request(i) \in Records
BY DEF Records, Rec, Request

LEMMA ClientTInv ==
  ASSUME TInv, Client
  PROVE  TInv'
<1>2. ASSUME NEW r \in Records, NEW p \in {"wait", "ready", "done"}, ClientSends(r, p),
             asked' \in 0..MaxRequests, renegs' \in 0..MaxRenegs, faults' \in 0..MaxFaults
      PROVE  TInv'
  <2>1. toServer' \in Seq(Records)
    BY <1>2, AppendProperties DEF ClientSends, TInv, Shape
  <2>2. Shape'
    BY <1>2, <2>1 DEF ClientSends, TInv, Shape
  <2>3. Progress'
    BY <1>2 DEF ClientSends, TInv, Progress
  <2> QED
    BY <2>2, <2>3 DEF TInv
<1>3. CASE Hello
  BY <1>2, <1>3, RecordShape DEF Hello, TInv, Shape
<1>4. CASE Finish
  BY <1>2, <1>4, RecordShape DEF Finish, TInv, Shape
<1>5. CASE Ask
  <2>1. asked' \in 0..MaxRequests
    BY <1>5, Bounds DEF Ask, TInv, Shape
  <2>2. ClientSends(Request(asked'), "ready") /\ UNCHANGED <<renegs, faults>>
    BY <1>5 DEF Ask
  <2>3. Request(asked') \in Records
    BY <2>1, RecordShape
  <2> QED
    BY <1>2, <2>1, <2>2, <2>3 DEF TInv, Shape
<1>6. CASE Renegotiate
  <2>1. renegs' \in 0..MaxRenegs
    BY <1>6, Bounds DEF Renegotiate, TInv, Shape
  <2> QED
    BY <1>2, <1>6, <2>1, RecordShape DEF Renegotiate, TInv, Shape
<1>7. CASE Bye
  BY <1>2, <1>7, RecordShape DEF Bye, TInv, Shape
<1>8. CASE Corrupt
  <2>1. faults' \in 0..MaxFaults
    BY <1>8, Bounds DEF Corrupt, TInv, Shape
  <2> QED
    BY <1>2, <1>8, <2>1, RecordShape DEF Corrupt, TInv, Shape
<1> QED
  BY <1>3, <1>4, <1>5, <1>6, <1>7, <1>8 DEF Client

LEMMA ArriveSplits ==
  ASSUME TInv, NEW n \in 1..Len(toServer),
         readBio' = readBio \o SubSeq(toServer, 1, n),
         toServer' = SubSeq(toServer, n + 1, Len(toServer))
  PROVE  /\ readBio' \in Seq(Records) /\ toServer' \in Seq(Records)
         /\ readBio' \o toServer' = readBio \o toServer
<1>1. readBio \in Seq(Records) /\ toServer \in Seq(Records)
  BY DEF TInv, Shape
<1>2. n \in 0..Len(toServer)
  BY <1>1
<1>3. Moved(readBio, toServer, n, readBio', toServer')
  BY DEF Moved
<1>4. /\ readBio' \in Seq(Records) /\ toServer' \in Seq(Records)
      /\ SameConcat(readBio', toServer', readBio, toServer)
  BY <1>1, <1>2, <1>3, MoveFront
<1> QED
  BY <1>4 DEF SameConcat

LEMMA ReceiveTInv ==
  ASSUME TInv, Receive
  PROVE  TInv'
<1>1. PICK n \in 1..Len(toServer) : Arrive(n)
  BY DEF Receive
<1>2. toServer' \in Seq(Records) /\ readBio' \in Seq(Records)
  <2>1. toServer \in Seq(Records) /\ n \in 0..Len(toServer)
    BY DEF TInv, Shape
  <2>2. toServer' \in Seq(Records)
    BY <1>1, <2>1, SplitSeq DEF Arrive
  <2>3. CASE ~inTable \/ state = "ERROR"
    BY <1>1, <2>2, <2>3 DEF Arrive, TInv, Shape
  <2>4. CASE inTable /\ state # "ERROR"
    BY <1>1, <2>4, ArriveSplits DEF Arrive
  <2> QED
    BY <2>3, <2>4
<1>3. Shape'
  BY <1>1, <1>2 DEF Arrive, TInv, Shape
<1>4. Progress'
  BY <1>1 DEF Arrive, TInv, Shape, Progress
<1> QED
  BY <1>3, <1>4 DEF TInv

\* What a flush does to the plaintext the client is sent.
LEMMA FlushPlain ==
  ASSUME TInv, NEW r, NEW p \in Seq(Pieces), FlushWith(r, p)
  PROVE  /\ plain' \in Seq(Pieces) /\ writeBio' = <<>>
         /\ plain' = IF link = "kConnected" THEN plain \o p ELSE plain
         /\ p = <<>> => plain' = plain
         /\ ~notify => (notify' => link = "kConnected")
<1>1. plain \in Seq(Pieces)
  BY DEF TInv, Shape
<1>2. plain \o p \in Seq(Pieces) /\ (p = <<>> => plain \o p = plain)
  BY <1>1, ConcatProperties, ConcatEmptySeq
<1> QED
  BY <1>1, <1>2 DEF FlushWith

LEMMA FlushNothing ==
  ASSUME TInv, NEW r, FlushWith(r, <<>>)
  PROVE  plain' = plain /\ writeBio' = <<>>
<1>1. <<>> \in Seq(Pieces)
  OBVIOUS
<1> QED
  BY <1>1, FlushPlain

LEMMA OutsideTInv ==
  ASSUME TInv, Disconnect \/ FeedFails \/ WriteComplete
  PROVE  TInv'
<1>1. CASE Disconnect
  <2>1. Shape'
    BY <1>1 DEF Disconnect, TInv, Shape
  <2>2. Progress'
    BY <1>1 DEF Disconnect, TInv, Progress
  <2> QED
    BY <2>1, <2>2 DEF TInv
<1>2. CASE FeedFails
  <2>1. plain' = plain /\ writeBio' = <<>>
    BY <1>2, FlushNothing DEF FeedFails, Flush
  <2>2. faults' \in 0..MaxFaults
    BY <1>2, Bounds DEF FeedFails, Fault, TInv, Shape
  <2>3. Shape'
    BY <1>2, <2>1, <2>2 DEF FeedFails, Shutdown, TInv, Shape
  <2>4. Progress'
    BY <1>2, <2>1 DEF FeedFails, Shutdown, TInv, Shape, Progress
  <2> QED
    BY <2>3, <2>4 DEF TInv
<1>3. CASE WriteComplete
  <2>0. /\ pc' \in {"poll", "handshake", "drain"} /\ after' \in {"poll", "serve", "finish"}
        /\ spins' \in 0..kMaxSpins
    <3>0. /\ pc = "poll" /\ after \in {"poll", "serve", "finish"} /\ spins \in 0..kMaxSpins
          /\ 0 \in 0..kMaxSpins
      BY <1>3, Bounds DEF WriteComplete, At, TInv, Shape
    <3>1. CASE state = "HANDSHAKE"
      BY <1>3, <3>0, <3>1 DEF WriteComplete, Goto
    <3>2. CASE state = "ESTABLISHED"
      BY <1>3, <3>0, <3>2 DEF WriteComplete, StartDrain, Goto
    <3>3. CASE state \notin {"HANDSHAKE", "ESTABLISHED"}
      BY <1>3, <3>0, <3>3 DEF WriteComplete
    <3> QED
      BY <3>1, <3>2, <3>3
  <2>1. Shape'
    BY <1>3, <2>0 DEF WriteComplete, TInv, Shape
  <2>2. Progress'
    BY <1>3 DEF WriteComplete, StartDrain, TInv, Shape, Progress
  <2> QED
    BY <2>1, <2>2 DEF TInv
<1> QED
  BY <1>1, <1>2, <1>3

LEMMA HandshakeTInv ==
  ASSUME TInv, Handshake
  PROVE  TInv'
<1>0. readBio # <<>> => Tail(readBio) \in Seq(Records)
  BY HeadTailProperties DEF TInv, Shape
<1>1. CASE HandshakeFlight
  <2>1. Shape'
    BY <1>0, <1>1 DEF HandshakeFlight, Incoming, TInv, Shape
  <2>2. Progress'
    BY <1>1 DEF HandshakeFlight, TInv, Shape, Progress
  <2> QED
    BY <2>1, <2>2 DEF TInv
<1>2. CASE HandshakeDone
  <2>1. plain' = plain /\ writeBio' = <<>>
    BY <1>2, FlushNothing DEF HandshakeDone
  <2>2. Shape'
    BY <1>0, <1>2, <2>1 DEF HandshakeDone, Incoming, TInv, Shape
  <2>3. Progress'
    BY <1>2, <2>1 DEF HandshakeDone, TInv, Shape, Progress
  <2> QED
    BY <2>2, <2>3 DEF TInv
<1>3. CASE HandshakeWants
  <2>1. plain' = plain /\ writeBio' = <<>>
    BY <1>3, FlushNothing DEF HandshakeWants, Flush
  <2>2. Shape'
    BY <1>3, <2>1 DEF HandshakeWants, TInv, Shape
  <2>3. Progress'
    BY <1>3, <2>1 DEF HandshakeWants, TInv, Shape, Progress
  <2> QED
    BY <2>2, <2>3 DEF TInv
<1>4. CASE HandshakeFails
  <2>1. Shape'
    BY <1>4 DEF HandshakeFails, Shutdown, TInv, Shape
  <2>2. Progress'
    BY <1>4 DEF HandshakeFails, Shutdown, TInv, Shape, Progress
  <2> QED
    BY <2>1, <2>2 DEF TInv
<1> QED
  BY <1>1, <1>2, <1>3, <1>4 DEF Handshake

LEMMA ReadTInv ==
  ASSUME TInv, Read
  PROVE  TInv'
<1>0. readBio # <<>> => Tail(readBio) \in Seq(Records)
  BY HeadTailProperties DEF TInv, Shape
<1>1. CASE ReadApp
  <2>1. readBio # <<>> /\ Head(readBio).kind = "app"
    BY <1>1 DEF ReadApp, Incoming
  <2>2. Head(readBio) \in Records
    BY <2>1, HeadTailProperties DEF TInv, Shape
  <2>3. Head(readBio).n \in Nat
    BY <2>1, <2>2 DEF Records
  <2>4. decrypted' \in Seq(Nat)
    BY <1>1, <2>3, AppendProperties DEF ReadApp, TInv, Shape
  <2>5. Shape'
    BY <1>0, <1>1, <2>1, <2>4 DEF ReadApp, TInv, Shape
  <2>6. Progress'
    BY <1>1 DEF ReadApp, TInv, Shape, Progress
  <2> QED
    BY <2>5, <2>6 DEF TInv
<1>2. CASE ReadHandshake
  <2>1. Shape'
    BY <1>0, <1>2 DEF ReadHandshake, Incoming, TInv, Shape
  <2>2. Progress'
    BY <1>2 DEF ReadHandshake, TInv, Shape, Progress
  <2> QED
    BY <2>1, <2>2 DEF TInv
<1>3. CASE ReadEnd
  <2>1. plain' = plain /\ writeBio' = <<>>
    BY <1>3, FlushNothing DEF ReadEnd, Flush
  <2>2. eof' \in {"open", "half", "closed"}
    BY <1>3 DEF ReadEnd, TInv, Shape
  <2>3. Shape'
    BY <1>3, <2>1, <2>2, Bounds DEF ReadEnd, StartDrain, TInv, Shape
  <2>4. Progress'
    BY <1>3, <2>1 DEF ReadEnd, StartDrain, TInv, Shape, Progress
  <2> QED
    BY <2>3, <2>4 DEF TInv
<1>4. CASE ReadFails
  <2>1. Shape'
    BY <1>4, Bounds DEF ReadFails, StartDrain, Shutdown, TInv, Shape
  <2>2. Progress'
    BY <1>4 DEF ReadFails, StartDrain, Shutdown, TInv, Shape, Progress
  <2> QED
    BY <2>1, <2>2 DEF TInv
<1> QED
  BY <1>1, <1>2, <1>3, <1>4 DEF Read

LEMMA ResponsePieces ==
  ASSUME NEW i \in Nat
  PROVE  Response(i) \in Seq(Pieces)
<1>1. ResponseLen \in Nat
  BY Bounds
<1>2. \A j \in 1..ResponseLen : [kind |-> "app", n |-> i, piece |-> j] \in Pieces
  BY <1>1 DEF Pieces
<1>3. Response(i) \in [1..ResponseLen -> Pieces]
  BY <1>2 DEF Response
<1> QED
  BY <1>1, <1>3

LEMMA ServeTInv ==
  ASSUME TInv, Serve
  PROVE  TInv'
<1>1. decrypted # <<>> /\ decrypted \in Seq(Nat)
  BY DEF Serve, TInv, Shape
<1>2. Head(decrypted) \in Nat /\ Tail(decrypted) \in Seq(Nat)
  BY <1>1, HeadTailProperties
<1>3. requests' \in Seq(Nat)
  BY <1>2, AppendProperties DEF Serve, TInv, Shape
<1>4. given' \in Seq(Pieces) /\ out' \in Seq(Pieces)
  BY <1>2, ResponsePieces, ConcatProperties DEF Serve, TInv, Shape
<1>5. Shape'
  BY <1>2, <1>3, <1>4 DEF Serve, TInv, Shape
<1>6. Progress'
  BY DEF Serve, TInv, Shape, Progress
<1> QED
  BY <1>5, <1>6 DEF TInv

LEMMA EndsTInv ==
  ASSUME TInv, NothingToServe \/ Finished
  PROVE  TInv'
<1>1. CASE NothingToServe
  <2>1. Shape'
    BY <1>1 DEF NothingToServe, TInv, Shape
  <2>2. Progress'
    BY <1>1 DEF NothingToServe, TInv, Shape, Progress
  <2> QED
    BY <2>1, <2>2 DEF TInv
<1>2. CASE Finished
  <2>1. Shape'
    BY <1>2 DEF Finished, Shutdown, TInv, Shape
  <2>2. Progress'
    BY <1>2 DEF Finished, Shutdown, TInv, Shape, Progress
  <2> QED
    BY <2>1, <2>2 DEF TInv
<1> QED
  BY <1>1, <1>2

\* What SSL_write takes from the front of s goes to the client.
LEMMA PieceGoes ==
  ASSUME TInv, NEW s \in Seq(Pieces), NEW n \in 1..Len(s),
         FlushWith(<<>>, SubSeq(s, 1, n))
  PROVE  /\ plain' \in Seq(Pieces) /\ writeBio' = <<>>
         /\ SubSeq(s, n + 1, Len(s)) \in Seq(Pieces)
         /\ link = "kConnected" => plain' \o SubSeq(s, n + 1, Len(s)) = plain \o s
         /\ link # "kConnected" => plain' = plain
<1>1. n \in 0..Len(s) /\ plain \in Seq(Pieces)
  BY DEF TInv, Shape
<1>2. SubSeq(s, 1, n) \in Seq(Pieces) /\ SubSeq(s, n + 1, Len(s)) \in Seq(Pieces)
  BY <1>1, SplitSeq
<1>3. /\ plain' \in Seq(Pieces) /\ writeBio' = <<>>
      /\ plain' = IF link = "kConnected" THEN plain \o SubSeq(s, 1, n) ELSE plain
  BY <1>2, FlushPlain
<1>4. CASE link = "kConnected"
  <2>1. plain' = plain \o SubSeq(s, 1, n)
    BY <1>3, <1>4
  <2>2. Moved(plain, s, n, plain', SubSeq(s, n + 1, Len(s)))
    BY <2>1 DEF Moved
  <2>3. SameConcat(plain', SubSeq(s, n + 1, Len(s)), plain, s)
    BY <1>1, <2>2, MoveFront
  <2> QED
    BY <1>2, <1>3, <1>4, <2>3 DEF SameConcat
<1> QED
  BY <1>2, <1>3, <1>4

LEMMA SendTInv ==
  ASSUME TInv, Send
  PROVE  TInv'
<1>1. CASE WriteSome
  <2>1. PICK n \in 1..Len(out) : /\ FlushWith(<<>>, SubSeq(out, 1, n))
                                 /\ out' = SubSeq(out, n + 1, Len(out))
    BY <1>1 DEF WriteSome
  <2>2. plain' \in Seq(Pieces) /\ writeBio' = <<>> /\ out' \in Seq(Pieces)
    BY <2>1, PieceGoes DEF TInv, Shape
  <2>3. Shape'
    BY <1>1, <2>2 DEF WriteSome, TInv, Shape
  <2>4. Progress'
    BY <1>1, <2>2 DEF WriteSome, TInv, Shape, Progress
  <2> QED
    BY <2>3, <2>4 DEF TInv
<1>2. CASE WriteWants
  <2>1. plain' = plain /\ writeBio' = <<>>
    BY <1>2, FlushNothing DEF WriteWants, Flush
  <2>2. pending' \in Seq(Pieces) /\ out' = <<>>
    BY <1>2, ConcatProperties DEF WriteWants, TInv, Shape
  <2>3. Shape'
    BY <1>2, <2>1, <2>2, Bounds DEF WriteWants, StartDrain, TInv, Shape
  <2>4. Progress'
    BY <1>2, <2>1 DEF WriteWants, StartDrain, TInv, Shape, Progress
  <2> QED
    BY <2>3, <2>4 DEF TInv
<1>3. CASE WriteZeroReturn
  <2>1. plain' = plain /\ writeBio' = <<>>
    BY <1>3, FlushNothing DEF WriteZeroReturn, Flush
  <2>2. Shape'
    BY <1>3, <2>1 DEF WriteZeroReturn, TInv, Shape
  <2>3. Progress'
    BY <1>3, <2>1 DEF WriteZeroReturn, TInv, Shape, Progress
  <2> QED
    BY <2>2, <2>3 DEF TInv
<1>4. CASE WriteFails
  <2>1. plain' = plain /\ writeBio' = <<>>
    BY <1>4, FlushNothing DEF WriteFails, Flush
  <2>2. faults' \in 0..MaxFaults
    BY <1>4, Bounds DEF WriteFails, Fault, TInv, Shape
  <2>3. Shape'
    BY <1>4, <2>1, <2>2 DEF WriteFails, Fatal, Shutdown, TInv, Shape
  <2>4. Progress'
    BY <1>4, <2>1 DEF WriteFails, Fatal, Shutdown, TInv, Shape, Progress
  <2> QED
    BY <2>3, <2>4 DEF TInv
<1>5. CASE WriteDone
  <2>1. plain' = plain /\ writeBio' = <<>>
    BY <1>5, FlushNothing DEF WriteDone, Flush
  <2>2. Shape'
    BY <1>5, <2>1 DEF WriteDone, TInv, Shape
  <2>3. Progress'
    BY <1>5, <2>1 DEF WriteDone, TInv, Shape, Progress
  <2> QED
    BY <2>2, <2>3 DEF TInv
<1> QED
  BY <1>1, <1>2, <1>3, <1>4, <1>5 DEF Send

LEMMA DrainTInv ==
  ASSUME TInv, Drain
  PROVE  TInv'
<1>1. CASE DrainSome
  <2>1. PICK n \in 1..Len(pending) : /\ FlushWith(<<>>, SubSeq(pending, 1, n))
                                     /\ pending' = SubSeq(pending, n + 1, Len(pending))
    BY <1>1 DEF DrainSome
  <2>2. plain' \in Seq(Pieces) /\ writeBio' = <<>> /\ pending' \in Seq(Pieces)
    BY <2>1, PieceGoes DEF TInv, Shape
  <2>3. spins' \in 0..kMaxSpins
    BY <1>1, Bounds DEF DrainSome, TInv, Shape
  <2>4. Shape'
    BY <1>1, <2>2, <2>3 DEF DrainSome, TInv, Shape
  <2>5. Progress'
    BY <1>1, <2>2 DEF DrainSome, Draining, TInv, Shape, Progress
  <2> QED
    BY <2>4, <2>5 DEF TInv
<1>2. CASE DrainWants \/ DrainZeroReturn \/ DrainDone
  <2>1. plain' = plain /\ writeBio' = <<>>
    BY <1>2, FlushNothing DEF DrainWants, DrainZeroReturn, DrainDone, Flush
  <2>2. pending' \in Seq(Pieces)
    <3>1. pending' = pending \/ pending' = <<>>
      BY <1>2 DEF DrainWants, DrainZeroReturn, DrainDone
    <3>2. pending \in Seq(Pieces)
      BY DEF TInv, Shape
    <3>3. <<>> \in Seq(Pieces)
      OBVIOUS
    <3> QED
      BY <3>1, <3>2, <3>3
  <2>3. pc' = after /\ UNCHANGED <<quiet, netVars, faults, state, after, spins, out>>
    BY <1>2 DEF DrainWants, DrainZeroReturn, DrainDone, Leave
  <2>4. Shape'
    BY <2>1, <2>2, <2>3 DEF TInv, Shape
  <2>5. Progress'
    BY <1>2, <2>1
    DEF DrainWants, DrainZeroReturn, DrainDone, Draining, Leave, TInv, Shape, Progress
  <2> QED
    BY <2>4, <2>5 DEF TInv
<1>3. CASE DrainFails
  <2>1. plain' = plain /\ writeBio' = <<>>
    BY <1>3, FlushNothing DEF DrainFails, Flush
  <2>2. faults' \in 0..MaxFaults
    BY <1>3, Bounds DEF DrainFails, Fault, TInv, Shape
  <2>3. Shape'
    BY <1>3, <2>1, <2>2 DEF DrainFails, Fatal, Shutdown, Leave, TInv, Shape
  <2>4. Progress'
    BY <1>3, <2>1 DEF DrainFails, Draining, Fatal, Shutdown, Leave, TInv, Shape, Progress
  <2> QED
    BY <2>3, <2>4 DEF TInv
<1>4. CASE DrainSpinsOut
  <2>1. Shape'
    BY <1>4 DEF DrainSpinsOut, Fatal, Shutdown, Leave, TInv, Shape
  <2>2. Progress'
    BY <1>4 DEF DrainSpinsOut, Draining, Fatal, Shutdown, Leave, TInv, Shape, Progress
  <2> QED
    BY <2>1, <2>2 DEF TInv
<1>5. CASE NotDraining
  <2>1. Shape'
    BY <1>5 DEF NotDraining, Leave, TInv, Shape
  <2>2. Progress'
    BY <1>5 DEF NotDraining, Leave, TInv, Shape, Progress
  <2> QED
    BY <2>1, <2>2 DEF TInv
<1> QED
  BY <1>1, <1>2, <1>3, <1>4, <1>5 DEF Drain

LEMMA StepTInv ==
  ASSUME TInv, [Next]_vars
  PROVE  TInv'
<1>1. CASE Next
  BY <1>1, ClientTInv, ReceiveTInv, OutsideTInv, HandshakeTInv, ReadTInv, ServeTInv, EndsTInv,
     SendTInv, DrainTInv DEF Next, Callback
<1>2. CASE UNCHANGED vars
  <2>1. Shape'
    BY <1>2 DEF vars, TInv, Shape
  <2>2. Progress'
    BY <1>2 DEF vars, TInv, Progress
  <2> QED
    BY <2>1, <2>2 DEF TInv
<1> QED
  BY <1>1, <1>2

\* The values of the variables, and how the state of SslConnection, OpenSSL's
\* progress and the place in a callback fit together, in every state of
\* onConnection, onMessage, onRead, send and drainPendingPlain.
THEOREM TypeCorrect == Spec => []TlsTypeOK
<1>1. TInv => TlsTypeOK
  BY Bounds DEF TInv, Shape, Progress, TlsTypeOK
<1> QED
  BY <1>1, InitTInv, StepTInv, PTL DEF Spec

-----------------------------------------------------------------------------
(* What OpenSSL is left to read.                                           *)

LEMMA InitUnread == Init => Unread
BY DEF Init, Unread

LEMMA StepUnread ==
  ASSUME TInv, Unread, [Next]_vars
  PROVE  Unread'
<1>1. CASE Client
  BY <1>1 DEF Client, Hello, Finish, Ask, Renegotiate, Bye, Corrupt, ClientSends, Unread
<1>2. CASE Receive
  <2>1. PICK n \in 1..Len(toServer) : Arrive(n)
    BY <1>2 DEF Receive
  <2>2. state' = state /\ (state = "ESTABLISHED" => inTable)
    BY <2>1 DEF Arrive, TInv, Progress
  <2>3. state = "ESTABLISHED" => pc' = "read"
    BY <2>1, <2>2 DEF Arrive
  <2> QED
    BY <2>2, <2>3 DEF Unread
<1>3. CASE Disconnect \/ FeedFails \/ WriteComplete
  BY <1>3 DEF Disconnect, FeedFails, WriteComplete, StartDrain, Unread
<1>4. CASE Handshake
  BY <1>4
  DEF Handshake, HandshakeFlight, HandshakeDone, HandshakeWants, HandshakeFails, TInv, Progress,
      Unread
<1>5. CASE Read
  BY <1>5 DEF Read, ReadApp, ReadHandshake, ReadEnd, ReadFails, StartDrain, Unread
<1>6. CASE Serve \/ NothingToServe \/ Finished
  BY <1>6 DEF Serve, NothingToServe, Finished, Unread
<1>7. CASE Send
  BY <1>7
  DEF Send, WriteSome, WriteWants, WriteZeroReturn, WriteFails, WriteDone, StartDrain, Fatal,
      Unread
<1>8. CASE Drain
  BY <1>8
  DEF Drain, DrainSome, DrainWants, DrainZeroReturn, DrainFails, DrainSpinsOut, DrainDone,
      NotDraining, Draining, Fatal, Leave, Unread
<1>9. CASE UNCHANGED vars
  BY <1>9 DEF vars, Unread
<1> QED
  BY <1>1, <1>2, <1>3, <1>4, <1>5, <1>6, <1>7, <1>8, <1>9 DEF Next, Callback

\* onRead's loop leaves OpenSSL nothing to read between two callbacks; only what
\* came with the last flight of the handshake can stay, until more arrives.
THEOREM ReadsEverything == Spec => []NothingLeftUnread
<1>1. TInv /\ Unread => NothingLeftUnread
  BY DEF Unread, NothingLeftUnread
<1> QED
  BY <1>1, InitTInv, StepTInv, InitUnread, StepUnread, PTL DEF Spec

-----------------------------------------------------------------------------
(* The requests the application gets.                                      *)

IsApp(r) == r.kind = "app"

LEMMA TakeOther ==
  ASSUME NEW s \in Seq(Records), s # <<>>, ~IsApp(Head(s)), NEW got \in Nat, NEW upTo \in Nat,
         NEW ended, InOrder(s, got, upTo, ended)
  PROVE  InOrder(Tail(s), got, upTo, ended)
<1> DEFINE t == Tail(s)
<1>1. t \in Seq(Records) /\ Len(t) = Len(s) - 1 /\ Len(s) \in Nat /\ Len(s) > 0
  BY HeadTailProperties
<1>2. \A i \in 1..Len(t) : i + 1 \in 1..Len(s) /\ t[i] = s[i + 1]
  BY HeadTailProperties
<1>3. s[1] = Head(s) /\ s[1].kind # "app"
  BY DEF IsApp
<1>4. \A j \in 1..Len(s) : s[j].kind = "app" => j - 1 \in 1..Len(t) /\ s[j] = t[j - 1]
  <2> TAKE j \in 1..Len(s)
  <2> HAVE s[j].kind = "app"
  <2>1. j # 1
    BY <1>3
  <2>2. j - 1 \in 1..Len(t) /\ (j - 1) + 1 = j
    BY <1>1, <2>1
  <2> QED
    BY <1>2, <2>2
<1>5. \A k : Request(k).kind = "app"
  BY DEF Request
<1> HIDE DEF t
<1>6. got <= upTo
  BY DEF InOrder
<1>7. \A i \in 1..Len(t) : t[i].kind = "app" => t[i].n \in (got + 1)..upTo
  BY <1>2 DEF InOrder
<1>8. \A i, j \in 1..Len(t) :
        i < j /\ t[i].kind = "app" /\ t[j].kind = "app" => t[i].n < t[j].n
  <2> TAKE i, j \in 1..Len(t)
  <2> HAVE i < j /\ t[i].kind = "app" /\ t[j].kind = "app"
  <2>1. i + 1 \in 1..Len(s) /\ j + 1 \in 1..Len(s) /\ t[i] = s[i + 1] /\ t[j] = s[j + 1]
    BY <1>2
  <2>2. i + 1 < j + 1
    OBVIOUS
  <2> QED
    BY <2>1, <2>2 DEF InOrder
<1>9. \A i \in 1..Len(t) : t[i].kind = "app" =>
        \A k \in (got + 1)..(t[i].n - 1) : \E j \in 1..(i - 1) : t[j] = Request(k)
  <2> TAKE i \in 1..Len(t)
  <2> HAVE t[i].kind = "app"
  <2> TAKE k \in (got + 1)..(t[i].n - 1)
  <2>1. i + 1 \in 1..Len(s) /\ t[i] = s[i + 1] /\ (i + 1) - 1 = i
    BY <1>2
  <2>2. PICK j \in 1..i : s[j] = Request(k)
    BY <2>1 DEF InOrder
  <2>3. j \in 1..Len(s)
    BY <1>1, <2>1, <2>2
  <2>4. j - 1 \in 1..Len(t) /\ s[j] = t[j - 1]
    BY <1>4, <1>5, <2>2, <2>3
  <2>5. j - 1 \in 1..(i - 1)
    BY <2>2, <2>4
  <2> QED
    BY <2>2, <2>4, <2>5
<1>10. \A k \in (got + 1)..upTo : \E j \in 1..Len(t) : t[j] = Request(k)
  <2> TAKE k \in (got + 1)..upTo
  <2>1. PICK j \in 1..Len(s) : s[j] = Request(k)
    BY DEF InOrder
  <2>2. j - 1 \in 1..Len(t) /\ s[j] = t[j - 1]
    BY <1>4, <1>5, <2>1
  <2> QED
    BY <2>1, <2>2
<1>11. \A i \in 1..Len(t) :
         t[i].kind \in {"corrupt", "close_notify"} => i = Len(t) /\ ended
  <2> TAKE i \in 1..Len(t)
  <2> HAVE t[i].kind \in {"corrupt", "close_notify"}
  <2>1. i + 1 \in 1..Len(s) /\ t[i] = s[i + 1]
    BY <1>2
  <2>2. i + 1 = Len(s) /\ ended
    BY <2>1 DEF InOrder
  <2> QED
    BY <1>1, <2>2
<1> QED
  BY <1>6, <1>7, <1>8, <1>9, <1>10, <1>11 DEF InOrder, t

LEMMA TakeApp ==
  ASSUME NEW s \in Seq(Records), s # <<>>, IsApp(Head(s)), NEW got \in Nat, NEW upTo \in Nat,
         NEW ended, InOrder(s, got, upTo, ended)
  PROVE  Head(s).n = got + 1 /\ InOrder(Tail(s), got + 1, upTo, ended)
<1> DEFINE t == Tail(s)
<1>1. t \in Seq(Records) /\ Len(t) = Len(s) - 1 /\ Len(s) \in Nat /\ Len(s) > 0
  BY HeadTailProperties
<1>2. \A i \in 1..Len(t) : i + 1 \in 1..Len(s) /\ t[i] = s[i + 1]
  BY HeadTailProperties
<1>3. s[1] = Head(s) /\ s[1].kind = "app" /\ 1 \in 1..Len(s)
  BY <1>1 DEF IsApp
<1> HIDE DEF t
<1>4. s[1].n \in (got + 1)..upTo
  BY <1>3 DEF InOrder
<1>5. s[1].n = got + 1
  <2>1. CASE s[1].n # got + 1
    <3>1. got + 1 \in (got + 1)..(s[1].n - 1)
      BY <1>4, <2>1
    <3>2. \E j \in 1..(1 - 1) : s[j] = Request(got + 1)
      BY <1>3, <3>1 DEF InOrder
    <3> QED
      BY <3>2
  <2> QED
    BY <2>1
<1>6. got + 1 <= upTo
  BY <1>4
<1>7. \A i \in 1..Len(t) : t[i].kind = "app" => t[i].n \in (got + 2)..upTo
  <2> TAKE i \in 1..Len(t)
  <2> HAVE t[i].kind = "app"
  <2>1. i + 1 \in 1..Len(s) /\ t[i] = s[i + 1] /\ 1 < i + 1
    BY <1>2
  <2>2. s[i + 1].n \in (got + 1)..upTo /\ s[1].n < s[i + 1].n
    BY <1>3, <2>1 DEF InOrder
  <2> QED
    BY <1>5, <2>1, <2>2
<1>8. \A i, j \in 1..Len(t) :
        i < j /\ t[i].kind = "app" /\ t[j].kind = "app" => t[i].n < t[j].n
  <2> TAKE i, j \in 1..Len(t)
  <2> HAVE i < j /\ t[i].kind = "app" /\ t[j].kind = "app"
  <2>1. i + 1 \in 1..Len(s) /\ j + 1 \in 1..Len(s) /\ t[i] = s[i + 1] /\ t[j] = s[j + 1]
    BY <1>2
  <2>2. i + 1 < j + 1
    OBVIOUS
  <2> QED
    BY <2>1, <2>2 DEF InOrder
<1>9. ASSUME NEW k \in Nat, k >= got + 2, NEW j \in 1..Len(s), s[j] = Request(k)
      PROVE  j - 1 \in 1..Len(t) /\ s[j] = t[j - 1]
  <2>1. s[j].n = k
    BY <1>9 DEF Request
  <2>2. j # 1
    BY <1>5, <1>9, <2>1
  <2>3. j - 1 \in 1..Len(t) /\ (j - 1) + 1 = j
    BY <1>1, <2>2
  <2> QED
    BY <1>2, <2>3
<1>10. \A i \in 1..Len(t) : t[i].kind = "app" =>
        \A k \in (got + 2)..(t[i].n - 1) : \E j \in 1..(i - 1) : t[j] = Request(k)
  <2> TAKE i \in 1..Len(t)
  <2> HAVE t[i].kind = "app"
  <2> TAKE k \in (got + 2)..(t[i].n - 1)
  <2>0. t[i].n \in Nat
    BY <1>7
  <2>1. i + 1 \in 1..Len(s) /\ t[i] = s[i + 1] /\ (i + 1) - 1 = i
    BY <1>2
  <2>2. k \in (got + 1)..(t[i].n - 1) /\ k \in Nat /\ k >= got + 2
    BY <2>0
  <2>3. PICK j \in 1..i : s[j] = Request(k)
    BY <2>1, <2>2 DEF InOrder
  <2>4. j \in 1..Len(s)
    BY <1>1, <2>1, <2>3
  <2>5. j - 1 \in 1..Len(t) /\ s[j] = t[j - 1]
    BY <1>9, <2>2, <2>3, <2>4
  <2>6. j - 1 \in 1..(i - 1)
    BY <2>3, <2>5
  <2> QED
    BY <2>3, <2>5, <2>6
<1>11. \A k \in (got + 2)..upTo : \E j \in 1..Len(t) : t[j] = Request(k)
  <2> TAKE k \in (got + 2)..upTo
  <2>1. k \in (got + 1)..upTo /\ k \in Nat /\ k >= got + 2
    OBVIOUS
  <2>2. PICK j \in 1..Len(s) : s[j] = Request(k)
    BY <2>1 DEF InOrder
  <2>3. j - 1 \in 1..Len(t) /\ s[j] = t[j - 1]
    BY <1>9, <2>1, <2>2
  <2> QED
    BY <2>2, <2>3
<1>12. \A i \in 1..Len(t) :
         t[i].kind \in {"corrupt", "close_notify"} => i = Len(t) /\ ended
  <2> TAKE i \in 1..Len(t)
  <2> HAVE t[i].kind \in {"corrupt", "close_notify"}
  <2>1. i + 1 \in 1..Len(s) /\ t[i] = s[i + 1]
    BY <1>2
  <2>2. i + 1 = Len(s) /\ ended
    BY <2>1 DEF InOrder
  <2> QED
    BY <1>1, <2>2
<1>13. (got + 1) + 1 = got + 2
  OBVIOUS
<1>14. InOrder(t, got + 1, upTo, ended)
  BY <1>6, <1>7, <1>8, <1>10, <1>11, <1>12, <1>13 DEF InOrder
<1> QED
  BY <1>3, <1>5, <1>14 DEF t

LEMMA SendOther ==
  ASSUME NEW s \in Seq(Records), NEW r \in Records, ~IsApp(r), NEW got \in Nat,
         NEW upTo \in Nat, NEW ended, r.kind \in {"corrupt", "close_notify"} => ended,
         InOrder(s, got, upTo, FALSE)
  PROVE  InOrder(Append(s, r), got, upTo, ended)
<1> DEFINE t == Append(s, r)
<1>1. Len(t) = Len(s) + 1 /\ Len(s) \in Nat
  BY AppendProperties
<1>2. \A i \in 1..Len(t) : t[i] = IF i <= Len(s) THEN s[i] ELSE r
  BY AppendProperties
<1> HIDE DEF t
<1>3. \A i \in 1..Len(t) : t[i].kind = "app" => i \in 1..Len(s) /\ t[i] = s[i]
  <2> TAKE i \in 1..Len(t)
  <2> HAVE t[i].kind = "app"
  <2>1. i <= Len(s)
    BY <1>2 DEF IsApp
  <2> QED
    BY <1>2, <2>1
<1>4. \A i \in 1..Len(s) : i \in 1..Len(t) /\ t[i] = s[i]
  BY <1>1, <1>2
<1>5. \A i \in 1..Len(t) : t[i].kind = "app" =>
        \A k \in (got + 1)..(t[i].n - 1) : \E j \in 1..(i - 1) : t[j] = Request(k)
  <2> TAKE i \in 1..Len(t)
  <2> HAVE t[i].kind = "app"
  <2> TAKE k \in (got + 1)..(t[i].n - 1)
  <2>1. i \in 1..Len(s) /\ t[i] = s[i]
    BY <1>3
  <2>2. PICK j \in 1..(i - 1) : s[j] = Request(k)
    BY <2>1 DEF InOrder
  <2>3. j \in 1..Len(s)
    BY <1>1, <2>1, <2>2
  <2> QED
    BY <1>4, <2>2, <2>3
<1>6. \A k \in (got + 1)..upTo : \E j \in 1..Len(t) : t[j] = Request(k)
  BY <1>4 DEF InOrder
<1>7. \A i \in 1..Len(t) :
         t[i].kind \in {"corrupt", "close_notify"} => i = Len(t) /\ ended
  <2> TAKE i \in 1..Len(t)
  <2> HAVE t[i].kind \in {"corrupt", "close_notify"}
  <2>1. CASE i <= Len(s)
    BY <1>2, <2>1 DEF InOrder
  <2>2. CASE ~(i <= Len(s))
    BY <1>1, <1>2, <2>2
  <2> QED
    BY <2>1, <2>2
<1>8. got <= upTo /\ \A i \in 1..Len(t) : t[i].kind = "app" => t[i].n \in (got + 1)..upTo
  BY <1>3 DEF InOrder
<1>9. \A i, j \in 1..Len(t) :
        i < j /\ t[i].kind = "app" /\ t[j].kind = "app" => t[i].n < t[j].n
  BY <1>3 DEF InOrder
<1> QED
  BY <1>5, <1>6, <1>7, <1>8, <1>9 DEF InOrder, t

LEMMA SendRequest ==
  ASSUME NEW s \in Seq(Records), NEW got \in Nat, NEW upTo \in Nat,
         NEW ended, InOrder(s, got, upTo, FALSE)
  PROVE  InOrder(Append(s, Request(upTo + 1)), got, upTo + 1, ended)
<1> DEFINE r == Request(upTo + 1)
           t == Append(s, r)
<1>1. r \in Records /\ r.kind = "app" /\ r.n = upTo + 1
  BY RecordShape DEF Request
<1> HIDE DEF r
<1>2. Len(t) = Len(s) + 1 /\ Len(s) \in Nat
  BY <1>1, AppendProperties
<1>3. \A i \in 1..Len(t) : t[i] = IF i <= Len(s) THEN s[i] ELSE r
  BY <1>1, AppendProperties
<1> HIDE DEF t
<1>4. \A i \in 1..Len(s) : i \in 1..Len(t) /\ t[i] = s[i]
  BY <1>2, <1>3
<1>5. \A i \in 1..Len(t) : \/ i \in 1..Len(s) /\ t[i] = s[i]
                           \/ i = Len(t) /\ t[i] = r
  <2> TAKE i \in 1..Len(t)
  <2>1. CASE i <= Len(s)
    <3>1. i \in 1..Len(s) /\ t[i] = s[i]
      BY <1>2, <1>3, <2>1
    <3> QED
      BY <3>1
  <2>2. CASE ~(i <= Len(s))
    <3>1. i = Len(t)
      BY <1>2, <2>2
    <3> QED
      BY <1>3, <2>2, <3>1
  <2> QED
    BY <2>1, <2>2
<1>6. \A i \in 1..Len(t) : t[i].kind = "app" => t[i].n \in (got + 1)..(upTo + 1)
  <2> TAKE i \in 1..Len(t)
  <2> HAVE t[i].kind = "app"
  <2>1. CASE i \in 1..Len(s) /\ t[i] = s[i]
    <3>1. s[i].n \in (got + 1)..upTo
      BY <2>1 DEF InOrder
    <3> QED
      BY <2>1, <3>1
  <2>2. CASE i = Len(t) /\ t[i] = r
    BY <1>1, <2>2 DEF InOrder
  <2> QED
    BY <1>5, <2>1, <2>2
<1>7. \A i, j \in 1..Len(t) :
        i < j /\ t[i].kind = "app" /\ t[j].kind = "app" => t[i].n < t[j].n
  <2> TAKE i, j \in 1..Len(t)
  <2> HAVE i < j /\ t[i].kind = "app" /\ t[j].kind = "app"
  <2>0. i \in 1..Len(s) /\ t[i] = s[i]
    BY <1>2, <1>5
  <2>1. CASE j \in 1..Len(s) /\ t[j] = s[j]
    BY <2>0, <2>1 DEF InOrder
  <2>2. CASE j = Len(t) /\ t[j] = r
    <3>1. s[i].n \in (got + 1)..upTo
      BY <2>0 DEF InOrder
    <3> QED
      BY <1>1, <2>0, <2>2, <3>1
  <2> QED
    BY <1>5, <2>1, <2>2
<1>8. \A i \in 1..Len(t) : t[i].kind = "app" =>
        \A k \in (got + 1)..(t[i].n - 1) : \E j \in 1..(i - 1) : t[j] = Request(k)
  <2> TAKE i \in 1..Len(t)
  <2> HAVE t[i].kind = "app"
  <2> TAKE k \in (got + 1)..(t[i].n - 1)
  <2>1. CASE i \in 1..Len(s) /\ t[i] = s[i]
    <3>1. PICK j \in 1..(i - 1) : s[j] = Request(k)
      BY <2>1 DEF InOrder
    <3>2. j \in 1..Len(s)
      BY <1>2, <2>1, <3>1
    <3> QED
      BY <1>4, <3>1, <3>2
  <2>2. CASE i = Len(t) /\ t[i] = r
    <3>1. k \in (got + 1)..upTo
      BY <1>1, <2>2
    <3>2. PICK j \in 1..Len(s) : s[j] = Request(k)
      BY <3>1 DEF InOrder
    <3>3. j \in 1..(i - 1)
      BY <1>2, <2>2, <3>2
    <3> QED
      BY <1>4, <3>2, <3>3
  <2> QED
    BY <1>5, <2>1, <2>2
<1>9. \A k \in (got + 1)..(upTo + 1) : \E j \in 1..Len(t) : t[j] = Request(k)
  <2> TAKE k \in (got + 1)..(upTo + 1)
  <2>1. CASE k = upTo + 1
    <3>1. Len(t) \in 1..Len(t) /\ t[Len(t)] = r
      BY <1>2, <1>3
    <3> QED
      BY <2>1, <3>1 DEF r
  <2>2. CASE k # upTo + 1
    <3>1. k \in (got + 1)..upTo
      BY <2>2
    <3> QED
      BY <1>4, <3>1 DEF InOrder
  <2> QED
    BY <2>1, <2>2
<1>10. \A i \in 1..Len(t) :
         t[i].kind \in {"corrupt", "close_notify"} => i = Len(t) /\ ended
  <2> TAKE i \in 1..Len(t)
  <2> HAVE t[i].kind \in {"corrupt", "close_notify"}
  <2>1. CASE i \in 1..Len(s) /\ t[i] = s[i]
    BY <2>1 DEF InOrder
  <2>2. CASE i = Len(t) /\ t[i] = r
    BY <1>1, <2>2
  <2> QED
    BY <1>5, <2>1, <2>2
<1>11. got <= upTo + 1
  BY DEF InOrder
<1> QED
  BY <1>6, <1>7, <1>8, <1>9, <1>10, <1>11 DEF InOrder, t, r

LEMMA InitRequests == Init => RequestFlow
<1> SUFFICES ASSUME Init PROVE RequestFlow
  OBVIOUS
<1>1. Taken = <<>> /\ Ahead = <<>> /\ asked = 0 /\ eof = "open"
  BY ConcatEmptySeq DEF Init, Taken, Ahead
<1>2. <<>> = [i \in 1..Len(<<>>) |-> i]
  OBVIOUS
<1>3. \A ended : InOrder(<<>>, 0, 0, ended)
  BY DEF InOrder
<1> QED
  BY <1>1, <1>2, <1>3 DEF RequestFlow

LEMMA FlowShape ==
  ASSUME TInv
  PROVE  Ahead \in Seq(Records) /\ Taken \in Seq(Nat) /\ Len(Taken) \in Nat /\ asked \in Nat
<1>1. Ahead \in Seq(Records) /\ Taken \in Seq(Nat)
  BY ConcatProperties DEF TInv, Shape, Ahead, Taken
<1> QED
  BY <1>1, Bounds DEF TInv, Shape

\* A step that neither takes a record nor sends one.
LEMMA RequestsStay ==
  ASSUME RequestFlow, UNCHANGED <<toServer, readBio, requests, decrypted, asked, phase, eof>>,
         Listening' => Listening
  PROVE  RequestFlow'
<1>1. Taken' = Taken /\ Ahead' = Ahead
  BY DEF Taken, Ahead
<1> QED
  BY <1>1 DEF RequestFlow

LEMMA AheadAppend ==
  ASSUME TInv, NEW r \in Records, toServer' = Append(toServer, r), readBio' = readBio
  PROVE  Ahead' = Append(Ahead, r)
<1>1. readBio \in Seq(Records) /\ toServer \in Seq(Records)
  BY DEF TInv, Shape
<1>2. readBio \o Append(toServer, r) = Append(readBio \o toServer, r)
  BY <1>1
<1> QED
  BY <1>2 DEF Ahead

LEMMA ClientRequests ==
  ASSUME TInv, RequestFlow, Client
  PROVE  RequestFlow'
<1>1. Taken' = Taken /\ (Listening' <=> Listening) /\ eof' = eof /\ phase # "done"
  BY DEF Client, Hello, Finish, Ask, Renegotiate, Bye, Corrupt, ClientSends, Taken, Listening
<1>2. ASSUME NEW r \in Records, ClientSends(r, phase'), Listening,
             InOrder(Append(Ahead, r), Len(Taken), asked', phase' = "done")
      PROVE  InOrder(Ahead', Len(Taken), asked', phase' = "done")
  BY <1>2, AheadAppend DEF ClientSends
<1>3. Listening => InOrder(Ahead, Len(Taken), asked, FALSE)
  BY <1>1 DEF RequestFlow
<1>4. ASSUME NEW k \in {"hello", "finished", "close_notify", "corrupt"}, Listening,
             ClientSends(Rec(k), phase'), asked' = asked,
             k \in {"corrupt", "close_notify"} => phase' = "done"
      PROVE  InOrder(Ahead', Len(Taken), asked', phase' = "done")
  <2>1. Rec(k) \in Records /\ Rec(k).kind = k
    BY RecordShape DEF Rec
  <2>2. ~IsApp(Rec(k))
    BY <2>1 DEF IsApp
  <2>3. InOrder(Append(Ahead, Rec(k)), Len(Taken), asked, phase' = "done")
    BY <1>3, <1>4, <2>1, <2>2, SendOther, FlowShape
  <2> QED
    BY <1>2, <1>4, <2>1, <2>3
<1>5. Listening => InOrder(Ahead', Len(Taken), asked', phase' = "done")
  <2> SUFFICES ASSUME Listening PROVE InOrder(Ahead', Len(Taken), asked', phase' = "done")
    OBVIOUS
  <2>1. CASE Hello
    BY <1>4, <2>1 DEF Hello, ClientSends
  <2>2. CASE Finish
    BY <1>4, <2>2 DEF Finish, ClientSends
  <2>3. CASE Ask
    <3>1. ClientSends(Request(asked + 1), phase') /\ asked' = asked + 1
      BY <2>3 DEF Ask, ClientSends
    <3>2. Request(asked + 1) \in Records
      BY RecordShape, FlowShape
    <3>3. InOrder(Append(Ahead, Request(asked + 1)), Len(Taken), asked + 1, phase' = "done")
      BY <1>3, SendRequest, FlowShape
    <3> QED
      BY <1>2, <3>1, <3>2, <3>3
  <2>4. CASE Renegotiate
    BY <1>4, <2>4 DEF Renegotiate, ClientSends
  <2>5. CASE Bye
    BY <1>4, <2>5 DEF Bye, ClientSends
  <2>6. CASE Corrupt
    BY <1>4, <2>6 DEF Corrupt, ClientSends
  <2> QED
    BY <2>1, <2>2, <2>3, <2>4, <2>5, <2>6 DEF Client
<1>6. Listening => eof = "open"
  BY <1>1 DEF RequestFlow
<1> QED
  BY <1>1, <1>5, <1>6 DEF RequestFlow

LEMMA ReceiveRequests ==
  ASSUME TInv, RequestFlow, Receive
  PROVE  RequestFlow'
<1>1. PICK n \in 1..Len(toServer) : Arrive(n)
  BY DEF Receive
<1>2. Taken' = Taken /\ Listening' = Listening /\ UNCHANGED <<asked, phase, eof>>
  BY <1>1 DEF Arrive, Taken, Listening
<1>3. Listening => Ahead' = Ahead
  BY <1>1, ArriveSplits DEF Arrive, Listening, Ahead
<1> QED
  BY <1>2, <1>3 DEF RequestFlow

\* OpenSSL takes a record that carries no request.
LEMMA TakeOtherRequests ==
  ASSUME TInv, RequestFlow, readBio # <<>>, ~IsApp(Head(readBio)), readBio' = Tail(readBio),
         UNCHANGED <<toServer, requests, decrypted, asked, phase, eof>>,
         Listening' => Listening
  PROVE  RequestFlow'
<1>1. readBio \in Seq(Records) /\ toServer \in Seq(Records)
  BY DEF TInv, Shape
<1>2. Tail(readBio) \o toServer = Tail(Ahead) /\ Head(readBio) = Head(Ahead) /\ Ahead # <<>>
  BY <1>1 DEF Ahead
<1>3. Ahead' = Tail(Ahead) /\ Taken' = Taken
  BY <1>2 DEF Ahead, Taken
<1>4. Listening => InOrder(Tail(Ahead), Len(Taken), asked, phase = "done")
  BY <1>2, TakeOther, FlowShape DEF RequestFlow
<1>5. Listening => eof = "open"
  BY <1>2 DEF RequestFlow
<1> QED
  BY <1>3, <1>4, <1>5 DEF RequestFlow

LEMMA ReadRequests ==
  ASSUME TInv, RequestFlow, Read
  PROVE  RequestFlow'
<1>0. readBio \in Seq(Records) /\ toServer \in Seq(Records)
  BY DEF TInv, Shape
<1>1. CASE ReadApp
  <2>1. readBio # <<>> /\ IsApp(Head(readBio)) /\ Listening /\ Listening'
    BY <1>1 DEF ReadApp, Incoming, IsApp, Listening, TInv, Progress
  <2>2. Tail(readBio) \o toServer = Tail(Ahead) /\ Head(readBio) = Head(Ahead) /\ Ahead # <<>>
    BY <1>0, <2>1 DEF Ahead
  <2>3. Ahead' = Tail(Ahead) /\ UNCHANGED <<asked, phase, eof>>
    BY <1>1, <2>2 DEF ReadApp, Ahead
  <2>4. /\ Head(Ahead).n = Len(Taken) + 1
        /\ InOrder(Tail(Ahead), Len(Taken) + 1, asked, phase = "done")
    BY <2>1, <2>2, TakeApp, FlowShape DEF RequestFlow
  <2>5. Len(Taken) + 1 \in Nat
    BY FlowShape
  <2>6. requests \o Append(decrypted, Len(Taken) + 1) = Append(Taken, Len(Taken) + 1)
    <3>1. \A r, d \in Seq(Nat) : \A k \in Nat : r \o Append(d, k) = Append(r \o d, k)
      OBVIOUS
    <3>2. requests \in Seq(Nat) /\ decrypted \in Seq(Nat)
      BY DEF TInv, Shape
    <3> QED
      BY <2>5, <3>1, <3>2 DEF Taken
  <2>7. Taken' = Append(Taken, Len(Taken) + 1)
    BY <1>1, <2>2, <2>4, <2>6 DEF ReadApp, Taken
  <2>8. Len(Taken') = Len(Taken) + 1
    BY <2>5, <2>7, FlowShape, AppendProperties
  <2>9. Taken' = [i \in 1..Len(Taken') |-> i]
    <3>1. \A i \in 1..Len(Taken) : Taken[i] = i
      BY DEF RequestFlow
    <3>2. Taken' \in Seq(Nat) /\ \A i \in 1..Len(Taken') : Taken'[i] = i
      BY <2>5, <2>7, <2>8, <3>1, FlowShape, AppendProperties
    <3> QED
      BY <3>2
  <2>10. eof = "open"
    BY <2>1, <2>2 DEF RequestFlow
  <2> QED
    BY <2>3, <2>4, <2>8, <2>9, <2>10 DEF RequestFlow
<1>2. CASE ReadHandshake
  <2>1. readBio # <<>> /\ ~IsApp(Head(readBio))
    BY <1>2 DEF ReadHandshake, Incoming, IsApp
  <2> QED
    BY <1>2, <2>1, TakeOtherRequests DEF ReadHandshake, Listening
<1>3. CASE ReadEnd
  <2>1. CASE readBio = <<>>
    BY <1>3, <2>1, RequestsStay DEF ReadEnd, Listening
  <2>2. CASE readBio # <<>>
    <3>1. Listening /\ Head(readBio).kind = "close_notify"
      BY <1>3, <2>2 DEF ReadEnd, Incoming, Listening, TInv, Progress
    <3>2. /\ Tail(readBio) \o toServer = Tail(Ahead) /\ Head(readBio) = Ahead[1]
          /\ Ahead # <<>> /\ Head(readBio) = Head(Ahead) /\ 1 \in 1..Len(Ahead)
          /\ Len(Ahead) = Len(readBio) + Len(toServer)
      BY <1>0, <2>2 DEF Ahead
    <3>3. Len(Ahead) = 1 /\ phase = "done"
      BY <3>1, <3>2 DEF RequestFlow, InOrder
    <3>4. toServer = <<>>
      <4>1. Len(readBio) \in Nat /\ Len(toServer) \in Nat /\ Len(readBio) # 0
        BY <1>0, <2>2, EmptySeq
      <4>2. Len(toServer) = 0
        BY <3>2, <3>3, <4>1
      <4> QED
        BY <1>0, <4>2, EmptySeq
    <3>5. Ahead' = <<>> /\ Taken' = Taken /\ UNCHANGED <<asked, phase>>
      BY <1>3, <3>4, ConcatEmptySeq DEF ReadEnd, Ahead, Taken
    <3>6. Tail(Ahead) = <<>>
      <4>1. Tail(Ahead) \in Seq(Records) /\ Len(Tail(Ahead)) = Len(Ahead) - 1
        BY <3>2, FlowShape, HeadTailProperties
      <4>2. Len(Tail(Ahead)) = 0
        BY <3>3, <4>1
      <4> QED
        BY <4>1, <4>2, EmptySeq
    <3>7. ~IsApp(Head(Ahead))
      BY <3>1, <3>2 DEF IsApp
    <3>8. InOrder(Tail(Ahead), Len(Taken), asked, phase = "done")
      BY <3>1, <3>2, <3>7, TakeOther, FlowShape DEF RequestFlow
    <3> QED
      BY <3>3, <3>5, <3>6, <3>8 DEF RequestFlow
  <2> QED
    BY <2>1, <2>2
<1>4. CASE ReadFails
  <2>1. Taken' = Taken /\ ~Listening'
    BY <1>4 DEF ReadFails, Taken, Listening
  <2> QED
    BY <2>1 DEF RequestFlow
<1> QED
  BY <1>1, <1>2, <1>3, <1>4 DEF Read

LEMMA ServeRequests ==
  ASSUME TInv, RequestFlow, Serve
  PROVE  RequestFlow'
<1>1. requests \in Seq(Nat) /\ decrypted \in Seq(Nat) /\ decrypted # <<>>
  BY DEF Serve, TInv, Shape
<1>2. Append(requests, Head(decrypted)) \o Tail(decrypted) = requests \o decrypted
  BY <1>1
<1>3. Taken' = Taken
  BY <1>2 DEF Serve, Taken
<1>4. Ahead' = Ahead /\ Listening' = Listening /\ UNCHANGED <<asked, phase, eof>>
  BY DEF Serve, Ahead, Listening
<1> QED
  BY <1>3, <1>4 DEF RequestFlow

LEMMA StepRequests ==
  ASSUME TInv, RequestFlow, [Next]_vars
  PROVE  RequestFlow'
<1>1. CASE Disconnect \/ FeedFails \/ WriteComplete
  <2>1. UNCHANGED <<toServer, readBio, requests, decrypted, asked, phase, eof>>
    BY <1>1 DEF Disconnect, FeedFails, Shutdown, WriteComplete
  <2>2. Listening' => Listening
    BY <1>1 DEF Disconnect, FeedFails, WriteComplete, Listening
  <2> QED
    BY <2>1, <2>2, RequestsStay
<1>2. CASE HandshakeFlight \/ HandshakeDone
  <2>1. readBio # <<>> /\ ~IsApp(Head(readBio))
    BY <1>2 DEF HandshakeFlight, HandshakeDone, Incoming, IsApp
  <2>2. /\ readBio' = Tail(readBio) /\ (Listening' => Listening)
        /\ UNCHANGED <<toServer, requests, decrypted, asked, phase, eof>>
    BY <1>2 DEF HandshakeFlight, HandshakeDone, Listening, TInv, Progress
  <2> QED
    BY <2>1, <2>2, TakeOtherRequests
<1>3. CASE HandshakeWants \/ HandshakeFails
  BY <1>3, RequestsStay DEF HandshakeWants, HandshakeFails, Shutdown, Listening
<1>4. CASE NothingToServe \/ Finished
  BY <1>4, RequestsStay DEF NothingToServe, Finished, Shutdown, Listening
<1>5. CASE Send
  BY <1>5, RequestsStay
  DEF Send, WriteSome, WriteWants, WriteZeroReturn, WriteFails, WriteDone, Fatal, Shutdown,
      Listening
<1>6. CASE Drain
  BY <1>6, RequestsStay
  DEF Drain, DrainSome, DrainWants, DrainZeroReturn, DrainFails, DrainSpinsOut, DrainDone,
      NotDraining, Fatal, Shutdown, Listening
<1>7. CASE UNCHANGED vars
  BY <1>7, RequestsStay DEF vars, Listening
<1> QED
  BY <1>1, <1>2, <1>3, <1>4, <1>5, <1>6, <1>7, ClientRequests, ReceiveRequests, ReadRequests,
     ServeRequests DEF Next, Callback, Handshake

\* The application gets the client's requests, each once and in order, whatever
\* handshakes, renegotiations and segments they came with.
THEOREM RequestsAreInOrder == Spec => []RequestsInOrder
<1>1. RequestFlow => RequestsInOrder
  BY DEF RequestFlow, Taken, RequestsInOrder
<1> QED
  BY <1>1, InitTInv, StepTInv, InitRequests, StepRequests, PTL DEF Spec

-----------------------------------------------------------------------------
(* The plaintext the client gets.                                          *)

LEMMA InitResponses == Init => ResponseFlow
<1> SUFFICES ASSUME Init PROVE ResponseFlow
  OBVIOUS
<1>1. plain = <<>> /\ pending = <<>> /\ out = <<>> /\ given = <<>> /\ state = "HANDSHAKE"
  BY DEF Init
<1>2. <<>> \o (<<>> \o <<>>) = <<>>
  BY ConcatEmptySeq
<1>3. Front(<<>>, <<>>)
  BY DEF Front
<1> QED
  BY <1>1, <1>2, <1>3 DEF ResponseFlow

\* A sequence is a front of what it is continued to.
LEMMA FrontOfConcat ==
  ASSUME NEW S, NEW s \in Seq(S), NEW t \in Seq(S)
  PROVE  Front(s, s \o t)
BY ConcatProperties DEF Front

LEMMA FrontGrows ==
  ASSUME NEW S, NEW s \in Seq(S), NEW t \in Seq(S), NEW u \in Seq(S), Front(s, t)
  PROVE  Front(s, t \o u)
<1>1. Len(t \o u) = Len(t) + Len(u) /\ \A i \in 1..Len(t) : (t \o u)[i] = t[i]
  BY ConcatProperties
<1> QED
  BY <1>1 DEF Front

LEMMA FlowSeqs ==
  ASSUME TInv
  PROVE  /\ plain \in Seq(Pieces) /\ pending \in Seq(Pieces) /\ out \in Seq(Pieces)
         /\ given \in Seq(Pieces) /\ pending \o out \in Seq(Pieces)
BY ConcatProperties DEF TInv, Shape

\* A step that sends nothing and is given nothing.
LEMMA ResponsesStay ==
  ASSUME ResponseFlow, UNCHANGED <<plain, pending, out, given>>,
         link' = "kConnected" => link = "kConnected",
         eof = "closed" => eof' = "closed" \/ link' # "kConnected",
         state' = "HANDSHAKE" => state = "HANDSHAKE",
         state' = "ESTABLISHED" /\ pc' \notin {"read", "drain"} /\ pending # <<>> =>
           blocked' /\ eof' # "closed"
  PROVE  ResponseFlow'
BY DEF ResponseFlow

LEMMA OutsideResponses ==
  ASSUME TInv, ResponseFlow, Client \/ Disconnect \/ Receive \/ FeedFails \/ WriteComplete
  PROVE  ResponseFlow'
<1>1. CASE Client
  BY <1>1, ResponsesStay
  DEF Client, Hello, Finish, Ask, Renegotiate, Bye, Corrupt, ClientSends, ResponseFlow
<1>2. CASE Disconnect
  BY <1>2, ResponsesStay DEF Disconnect, ResponseFlow
<1>3. CASE Receive
  <2>1. PICK n \in 1..Len(toServer) : Arrive(n)
    BY <1>3 DEF Receive
  <2>2. /\ UNCHANGED <<plain, pending, out, given, eof, state>>
        /\ link' = "kConnected" => link = "kConnected"
    BY <2>1 DEF Arrive
  <2>3. state = "ESTABLISHED" => pc' = "read"
    BY <2>1 DEF Arrive, TInv, Progress
  <2> QED
    BY <2>2, <2>3, ResponsesStay
<1>4. CASE FeedFails
  <2>1. plain' = plain
    BY <1>4, FlushNothing DEF FeedFails, Flush
  <2>2. /\ UNCHANGED <<pending, out, given, eof>> /\ state' = "ERROR"
        /\ link' = "kConnected" => link = "kConnected"
    BY <1>4 DEF FeedFails, Shutdown
  <2> QED
    BY <2>1, <2>2, ResponsesStay
<1>5. CASE WriteComplete
  <2>1. UNCHANGED <<plain, pending, out, given, eof, state, link>>
    BY <1>5 DEF WriteComplete
  <2>2. state = "ESTABLISHED" => pc' = "drain"
    BY <1>5 DEF WriteComplete, StartDrain
  <2> QED
    BY <2>1, <2>2, ResponsesStay
<1> QED
  BY <1>1, <1>2, <1>3, <1>4, <1>5

LEMMA HandshakeResponses ==
  ASSUME TInv, ResponseFlow, Handshake
  PROVE  ResponseFlow'
<1>1. plain' = plain
  BY FlushNothing
  DEF Handshake, HandshakeFlight, HandshakeDone, HandshakeWants, HandshakeFails, Flush
<1>2. /\ UNCHANGED <<pending, out, given, eof>>
      /\ link' = "kConnected" => link = "kConnected"
      /\ state = "HANDSHAKE"
  BY DEF Handshake, HandshakeFlight, HandshakeDone, HandshakeWants, HandshakeFails, Shutdown,
         TInv, Progress
<1>3. pending = <<>>
  BY <1>2 DEF ResponseFlow
<1> QED
  BY <1>1, <1>2, <1>3, ResponsesStay

LEMMA ReadResponses ==
  ASSUME TInv, RequestFlow, ResponseFlow, Read
  PROVE  ResponseFlow'
<1>1. CASE ReadApp \/ ReadHandshake
  <2>1. /\ UNCHANGED <<plain, pending, out, given, eof, state, link>> /\ pc' = "read"
    BY <1>1 DEF ReadApp, ReadHandshake
  <2> QED
    BY <2>1, ResponsesStay
<1>2. CASE ReadEnd
  <2>1. plain' = plain
    BY <1>2, FlushNothing DEF ReadEnd, Flush
  <2>2. UNCHANGED <<pending, out, given, state, link>> /\ pc' = "drain"
    BY <1>2 DEF ReadEnd, StartDrain
  <2>3. eof = "closed" => eof' = "closed"
    <3>1. CASE readBio = <<>>
      BY <1>2, <3>1 DEF ReadEnd
    <3>2. CASE readBio # <<>>
      <4>1. Listening
        BY <1>2 DEF ReadEnd, Listening, TInv, Progress
      <4>2. Ahead # <<>>
        BY <3>2 DEF Ahead, TInv, Shape
      <4> QED
        BY <4>1, <4>2 DEF RequestFlow
    <3> QED
      BY <3>1, <3>2
  <2> QED
    BY <2>1, <2>2, <2>3, ResponsesStay
<1>3. CASE ReadFails
  <2>1. UNCHANGED <<plain, pending, out, given, eof>> /\ state' = "ERROR"
    BY <1>3 DEF ReadFails
  <2>2. link' = "kConnected" => link = "kConnected"
    BY <1>3 DEF ReadFails, Shutdown
  <2> QED
    BY <2>1, <2>2, ResponsesStay
<1> QED
  BY <1>1, <1>2, <1>3 DEF Read

LEMMA ServeResponses ==
  ASSUME TInv, ResponseFlow, Serve \/ NothingToServe \/ Finished
  PROVE  ResponseFlow'
<1>1. CASE Serve
  <2>1. Head(decrypted) \in Nat
    BY <1>1, HeadTailProperties DEF Serve, TInv, Shape
  <2> DEFINE r == Response(Head(decrypted))
  <2>2. r \in Seq(Pieces)
    BY <2>1, ResponsePieces
  <2>3. given' = given \o r /\ out' = r
    BY <1>1 DEF Serve
  <2>4. UNCHANGED <<plain, pending, link, eof, state, blocked>> /\ pc = "serve"
    BY <1>1 DEF Serve
  <2> HIDE DEF r
  <2>5. Front(plain', given')
    BY <2>2, <2>3, <2>4, FrontGrows, FlowSeqs DEF ResponseFlow
  <2>6. ASSUME link = "kConnected", eof # "closed"
        PROVE  plain \o (pending \o r) = given \o r
    <3>1. out = <<>>
      BY <2>4 DEF TInv, Progress
    <3>2. plain \o pending = given
      BY <2>6, <3>1, FlowSeqs, ConcatEmptySeq DEF ResponseFlow
    <3>3. AreSeqs(Pieces, plain, pending, r)
      BY <2>2, FlowSeqs DEF AreSeqs
    <3>4. LeftConcat(plain, pending, r) = RightConcat(plain, pending, r)
      BY <3>3, ConcatBoth
    <3> QED
      BY <3>2, <3>4 DEF LeftConcat, RightConcat
  <2> QED
    BY <2>3, <2>4, <2>5, <2>6 DEF ResponseFlow
<1>2. CASE NothingToServe
  BY <1>2, ResponsesStay DEF NothingToServe, ResponseFlow
<1>3. CASE Finished
  <2>1. /\ UNCHANGED <<plain, pending, out, given, eof, state, blocked>> /\ pc = "finish"
        /\ link' = "kConnected" => link = "kConnected"
    BY <1>3 DEF Finished, Shutdown
  <2> QED
    BY <2>1, ResponsesStay DEF ResponseFlow
<1> QED
  BY <1>1, <1>2, <1>3

LEMMA SendResponses ==
  ASSUME TInv, ResponseFlow, Send
  PROVE  ResponseFlow'
<1>0. /\ state = "ESTABLISHED" /\ pc = "write" /\ (pending # <<>> => blocked /\ eof # "closed")
      /\ UNCHANGED <<given, eof, blocked>>
  BY DEF Send, WriteSome, WriteWants, WriteZeroReturn, WriteFails, WriteDone, TInv, Progress,
         ResponseFlow
<1>1. CASE WriteSome
  <2>1. pending = <<>> /\ eof # "closed" /\ UNCHANGED <<pending, link, state, pc>>
    BY <1>0, <1>1 DEF WriteSome, CanWrite
  <2>2. PICK n \in 1..Len(out) : /\ FlushWith(<<>>, SubSeq(out, 1, n))
                                 /\ out' = SubSeq(out, n + 1, Len(out))
    BY <1>1 DEF WriteSome
  <2>3. /\ plain' \in Seq(Pieces) /\ out' \in Seq(Pieces)
        /\ link = "kConnected" => plain' \o out' = plain \o out
        /\ link # "kConnected" => plain' = plain
    BY <2>2, PieceGoes, FlowSeqs
  <2>4. link = "kConnected" => plain \o out = given
    BY <2>1, FlowSeqs, ConcatEmptySeq DEF ResponseFlow
  <2>5. Front(plain', given)
    BY <2>3, <2>4, FrontOfConcat DEF ResponseFlow
  <2>6. pending' \o out' = out'
    BY <2>1, <2>3, ConcatEmptySeq
  <2> QED
    BY <1>0, <2>1, <2>3, <2>4, <2>5, <2>6 DEF ResponseFlow
<1>2. CASE WriteWants
  <2>1. plain' = plain
    BY <1>2, FlushNothing DEF WriteWants, Flush
  <2>2. pending' = pending \o out /\ out' = <<>> /\ pc' = "drain" /\ UNCHANGED <<state, link>>
    BY <1>2 DEF WriteWants, StartDrain
  <2>3. pending' \o out' = pending \o out
    BY <2>2, FlowSeqs, ConcatEmptySeq
  <2> QED
    BY <1>0, <2>1, <2>2, <2>3 DEF ResponseFlow
<1>3. CASE WriteZeroReturn
  <2>1. plain' = plain
    BY <1>3, FlushNothing DEF WriteZeroReturn, Flush
  <2>2. UNCHANGED <<pending, state>> /\ eof = "closed"
    BY <1>3 DEF WriteZeroReturn
  <2> QED
    BY <1>0, <2>1, <2>2 DEF ResponseFlow
<1>4. CASE WriteFails
  <2>1. plain' = plain
    BY <1>4, FlushNothing DEF WriteFails, Flush
  <2>2. state' = "ERROR" /\ link' # "kConnected"
    BY <1>4 DEF WriteFails, Fatal, Shutdown
  <2> QED
    BY <1>0, <2>1, <2>2 DEF ResponseFlow
<1>5. CASE WriteDone
  <2>1. plain' = plain
    BY <1>5, FlushNothing DEF WriteDone, Flush
  <2>2. UNCHANGED <<pending, out, state, link>>
    BY <1>5 DEF WriteDone
  <2> QED
    BY <1>0, <2>1, <2>2, ResponsesStay
<1> QED
  BY <1>1, <1>2, <1>3, <1>4, <1>5 DEF Send

LEMMA DrainResponses ==
  ASSUME TInv, ResponseFlow, Drain
  PROVE  ResponseFlow'
<1>0. /\ out = <<>> /\ out' = <<>> /\ UNCHANGED <<given, eof, blocked>>
      /\ (state = "ESTABLISHED" \/ NotDraining)
  BY DEF Drain, DrainSome, DrainWants, DrainZeroReturn, DrainFails, DrainSpinsOut, DrainDone,
         NotDraining, Draining, TInv, Progress
<1>1. CASE DrainSome
  <2>1. eof # "closed" /\ state = "ESTABLISHED" /\ UNCHANGED <<link, state, pc>> /\ pc = "drain"
    BY <1>1 DEF DrainSome, Draining, CanWrite
  <2>2. PICK n \in 1..Len(pending) : /\ FlushWith(<<>>, SubSeq(pending, 1, n))
                                     /\ pending' = SubSeq(pending, n + 1, Len(pending))
    BY <1>1 DEF DrainSome
  <2>3. /\ plain' \in Seq(Pieces) /\ pending' \in Seq(Pieces)
        /\ link = "kConnected" => plain' \o pending' = plain \o pending
        /\ link # "kConnected" => plain' = plain
    BY <2>2, PieceGoes, FlowSeqs
  <2>4. link = "kConnected" => plain \o pending = given
    BY <1>0, <2>1, FlowSeqs, ConcatEmptySeq DEF ResponseFlow
  <2>5. Front(plain', given)
    BY <2>3, <2>4, FrontOfConcat DEF ResponseFlow
  <2>6. pending' \o out' = pending'
    BY <1>0, <2>3, ConcatEmptySeq
  <2> QED
    BY <1>0, <2>1, <2>3, <2>4, <2>5, <2>6 DEF ResponseFlow
<1>2. CASE DrainWants
  <2>1. plain' = plain
    BY <1>2, FlushNothing DEF DrainWants, Flush
  <2>2. UNCHANGED <<pending, state, link>> /\ blocked /\ eof # "closed"
    BY <1>2 DEF DrainWants, MustWait
  <2> QED
    BY <1>0, <2>1, <2>2, ResponsesStay
<1>3. CASE DrainZeroReturn
  <2>1. plain' = plain
    BY <1>3, FlushNothing DEF DrainZeroReturn, Flush
  <2>2. pending' = <<>> /\ UNCHANGED <<state, link>> /\ eof = "closed"
    BY <1>3 DEF DrainZeroReturn
  <2> QED
    BY <1>0, <2>1, <2>2 DEF ResponseFlow
<1>4. CASE DrainFails \/ DrainSpinsOut
  <2>1. plain' = plain
    BY <1>4, FlushNothing DEF DrainFails, DrainSpinsOut, Flush
  <2>2. state' = "ERROR" /\ link' # "kConnected"
    BY <1>4 DEF DrainFails, DrainSpinsOut, Fatal, Shutdown
  <2> QED
    BY <1>0, <2>1, <2>2 DEF ResponseFlow
<1>5. CASE DrainDone
  <2>1. plain' = plain
    BY <1>5, FlushNothing DEF DrainDone, Flush
  <2>2. UNCHANGED <<pending, state, link>> /\ pending = <<>>
    BY <1>5 DEF DrainDone
  <2> QED
    BY <1>0, <2>1, <2>2, ResponsesStay
<1>6. CASE NotDraining
  <2>1. UNCHANGED <<plain, pending, state, link>> /\ state # "ESTABLISHED"
    BY <1>6 DEF NotDraining
  <2> QED
    BY <1>0, <2>1, ResponsesStay
<1> QED
  BY <1>1, <1>2, <1>3, <1>4, <1>5, <1>6 DEF Drain

LEMMA StepResponses ==
  ASSUME TInv, RequestFlow, ResponseFlow, [Next]_vars
  PROVE  ResponseFlow'
<1>1. CASE UNCHANGED vars
  BY <1>1 DEF vars, ResponseFlow
<1> QED
  BY <1>1, OutsideResponses, HandshakeResponses, ReadResponses, ServeResponses, SendResponses,
     DrainResponses DEF Next, Callback

\* The client reads the responses in the order of its requests, without a gap, a
\* repetition or an overtaking, through partial writes, pendingPlain_, errors and
\* closes; while the connection is up, what it has not been sent waits in
\* pendingPlain_.
THEOREM ResponsesAreInOrder == Spec => []ResponsesInOrder
<1>1. TInv /\ ResponseFlow => ResponsesInOrder
  <2> SUFFICES ASSUME TInv, ResponseFlow PROVE ResponsesInOrder
    OBVIOUS
  <2>1. Front(plain, given)
    BY DEF ResponseFlow
  <2>2. Len(plain) \in 0..Len(given)
    BY <2>1, FlowSeqs DEF Front
  <2>3. plain = SubSeq(given, 1, Len(plain))
    <3>1. /\ SubSeq(given, 1, Len(plain)) \in Seq(Pieces)
          /\ Len(SubSeq(given, 1, Len(plain))) = Len(plain)
          /\ \A i \in 1..Len(plain) : SubSeq(given, 1, Len(plain))[i] = given[i]
      BY <2>2, FlowSeqs
    <3> QED
      BY <2>1, <3>1, FlowSeqs, SeqEqual DEF Front
  <2>4. pc = "poll" => pending \o out = pending
    BY FlowSeqs, ConcatEmptySeq DEF TInv, Progress
  <2> QED
    BY <2>2, <2>3, <2>4 DEF ResponseFlow, ResponsesInOrder
<1> QED
  BY <1>1, InitTInv, StepTInv, InitRequests, StepRequests, InitResponses, StepResponses,
     PTL DEF Spec

=============================================================================
