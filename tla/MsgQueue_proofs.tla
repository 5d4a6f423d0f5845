--------------------------- MODULE MsgQueue_proofs ---------------------------
(***************************************************************************)
(* Proofs about MsgQueue, for any messages, any workers and any number of  *)
(* faults: its type invariant, delivery at least once, and that a row is   *)
(* doubled by a redelivery only.                                           *)
(***************************************************************************)
EXTENDS MsgQueue, TLAPS

\* A process that is down has no worker threads.
DownGone == ~up => \A w \in Workers : wpc[w] = "gone"

\* A worker acknowledges what it has inserted.
AckAfterInsert == \A w \in Workers : wpc[w] = "ack" => unacked[w] \in Values(rows)

TInv == QueueTypeOK /\ DownGone
LInv == TInv /\ AckAfterInsert /\ NoLoss

\* Whatever is queued, delivered, waiting to be queued again or inserted was
\* accepted by the broker.
Known == Values(ready) \union InFlight \union limbo \union Values(rows) \subseteq accepted

\* A message that never went back to the queue is at one place, and once.
OncePlaced(m) ==
  /\ \A i, j \in 1..Len(ready) : ready[i] = m /\ ready[j] = m => i = j
  /\ \A v, w \in Workers : unacked[v] = m /\ unacked[w] = m => v = w
  /\ m \in Values(ready) => m \notin InFlight \union limbo
  /\ m \in InFlight => m \notin limbo

\* If it is a row already, the insert will not be made again.
OnceInserted(m) ==
  m \in Values(rows) => /\ m \notin Values(ready)
                        /\ \A w \in Workers : unacked[w] = m => wpc[w] = "ack"

Once == \A m \in Messages \ redelivered : OncePlaced(m) /\ OnceInserted(m)

DInv == TInv /\ Known /\ Once /\ DuplicatesAreRedelivered

-----------------------------------------------------------------------------
(* The members of a sequence.                                              *)

LEMMA ValuesAppend ==
  ASSUME NEW S, NEW s \in Seq(S), NEW e \in S
  PROVE  Values(Append(s, e)) = Values(s) \union {e}
<1> DEFINE t == Append(s, e)
<1>1. /\ Len(t) = Len(s) + 1 /\ t[Len(s) + 1] = e
      /\ \A i \in 1..Len(s) : t[i] = s[i]
  OBVIOUS
<1>2. \A i \in 1..Len(t) : i \in 1..Len(s) \/ i = Len(s) + 1
  BY <1>1
<1>3. Len(s) + 1 \in 1..Len(t) /\ \A i \in 1..Len(s) : i \in 1..Len(t)
  BY <1>1
<1> HIDE DEF t
<1> QED BY <1>1, <1>2, <1>3 DEF Values, t

LEMMA TailIndices ==
  ASSUME NEW S, NEW s \in Seq(S), s # <<>>
  PROVE  /\ Head(s) \in S /\ Head(s) = s[1] /\ 1 \in 1..Len(s)
         /\ Tail(s) \in Seq(S)
         /\ \A i \in 1..Len(Tail(s)) : i + 1 \in 1..Len(s) /\ Tail(s)[i] = s[i + 1]
         /\ \A i \in 1..Len(s) : i # 1 => i - 1 \in 1..Len(Tail(s)) /\ Tail(s)[i - 1] = s[i]
OBVIOUS

LEMMA ValuesTail ==
  ASSUME NEW S, NEW s \in Seq(S), s # <<>>
  PROVE  Values(s) = {Head(s)} \union Values(Tail(s))
<1>1. Values(s) \subseteq {Head(s)} \union Values(Tail(s))
  <2> SUFFICES ASSUME NEW i \in 1..Len(s), i # 1 PROVE s[i] \in Values(Tail(s))
    BY TailIndices DEF Values
  <2>1. i - 1 \in 1..Len(Tail(s)) /\ Tail(s)[i - 1] = s[i]
    BY TailIndices
  <2> QED BY <2>1 DEF Values
<1>2. {Head(s)} \union Values(Tail(s)) \subseteq Values(s)
  BY TailIndices DEF Values
<1> QED BY <1>1, <1>2

LEMMA ConsIndices ==
  ASSUME NEW S, NEW s \in Seq(S), NEW e \in S
  PROVE  /\ <<e>> \o s \in Seq(S) /\ Len(<<e>> \o s) = Len(s) + 1
         /\ (<<e>> \o s)[1] = e
         /\ \A i \in 1..Len(s) : (<<e>> \o s)[i + 1] = s[i]
         /\ \A i \in 1..Len(<<e>> \o s) :
              i # 1 => i - 1 \in 1..Len(s) /\ (<<e>> \o s)[i] = s[i - 1]
OBVIOUS

LEMMA ValuesCons ==
  ASSUME NEW S, NEW s \in Seq(S), NEW e \in S
  PROVE  Values(<<e>> \o s) = {e} \union Values(s)
<1> DEFINE t == <<e>> \o s
<1>1. /\ Len(t) = Len(s) + 1 /\ t[1] = e /\ Len(s) \in Nat
      /\ \A i \in 1..Len(s) : t[i + 1] = s[i]
      /\ \A i \in 1..Len(t) : i # 1 => i - 1 \in 1..Len(s) /\ t[i] = s[i - 1]
  BY ConsIndices
<1> HIDE DEF t
<1>2. 1 \in 1..Len(t) /\ \A i \in 1..Len(s) : i + 1 \in 1..Len(t)
  BY <1>1
<1>3. Values(t) \subseteq {e} \union Values(s)
  BY <1>1 DEF Values
<1>4. {e} \union Values(s) \subseteq Values(t)
  BY <1>1, <1>2 DEF Values
<1> QED BY <1>3, <1>4 DEF t

-----------------------------------------------------------------------------
(* Type correctness.                                                       *)

LEMMA TypeInit == InitQueue => TInv
<1> SUFFICES ASSUME InitQueue PROVE TInv
  OBVIOUS
<1>1. ready \in Seq(Messages) /\ rows \in Seq(Messages) /\ faults \in 0..MaxFaults
  BY MaxFaultsAssumption DEF InitQueue
<1>2. /\ unacked \in [Workers -> Messages \union {None}]
      /\ wpc \in [Workers -> {"connect", "poll", "handle", "ack", "gone"}]
      /\ \A w \in Workers : wpc[w] = "connect" /\ unacked[w] = None
  BY DEF InitQueue
<1> QED BY <1>1, <1>2 DEF InitQueue, TInv, QueueTypeOK, DownGone

LEMMA TypeStep == TInv /\ [QueueNext]_queueVars => TInv'
<1> SUFFICES ASSUME TInv, [QueueNext]_queueVars PROVE TInv'
  OBVIOUS
<1> USE NoneAssumption, MaxFaultsAssumption
    DEF TInv, QueueTypeOK, DownGone, brokerVars, At, Goto
<1>1. ASSUME NEW m \in Messages, Publish(m) PROVE TInv'
  <2>1. Append(ready, m) \in Seq(Messages)
    OBVIOUS
  <2> QED BY <1>1, <2>1 DEF Publish, Enqueue
<1>2. ASSUME NEW w \in Workers, Worker(w) PROVE TInv'
  <2>1. CASE Connect(w)  BY <2>1 DEF Connect
  <2>2. CASE Deliver(w)
    <3>1. Head(ready) \in Messages /\ Tail(ready) \in Seq(Messages)
      BY <2>2, TailIndices DEF Deliver
    <3> QED BY <2>2, <3>1 DEF Deliver
  <2>3. CASE Consume(w)  BY <2>3 DEF Consume
  <2>4. CASE Insert(w)
    <3>1. rows' \in Seq(Messages)
      BY <2>4 DEF Insert
    <3> QED BY <2>4, <3>1 DEF Insert
  <2>5. CASE Ack(w)      BY <2>5 DEF Ack
  <2>6. CASE Stop(w)     BY <2>6 DEF Stop, CloseChannels
  <2>7. CASE Die(w)
    <3>1. rows' \in Seq(Messages)
      BY <2>7 DEF Die
    <3>2. faults' \in 0..MaxFaults
      BY <2>7 DEF Die
    <3> QED BY <2>7, <3>1, <3>2 DEF Die, CloseChannels
  <2> QED BY <1>2, <2>1, <2>2, <2>3, <2>4, <2>5, <2>6, <2>7 DEF Worker, WorkerStep
<1>3. ASSUME NEW m \in limbo, Requeue(m) PROVE TInv'
  <2>1. ready' \in Seq(Messages)
    BY <1>3 DEF Requeue
  <2> QED BY <1>3, <2>1 DEF Requeue
<1>4. CASE Shutdown  BY <1>4 DEF Shutdown
<1>5. CASE Crash
  <2>1. faults' \in 0..MaxFaults
    BY <1>5 DEF Crash
  <2> QED BY <1>5, <2>1 DEF Crash, CloseChannels
<1>6. CASE Start     BY <1>6 DEF Start
<1>7. CASE UNCHANGED queueVars
  BY <1>7 DEF queueVars
<1> QED BY <1>1, <1>2, <1>3, <1>4, <1>5, <1>6, <1>7 DEF QueueNext, Broker

\* QueueTypeOK holds for any number of messages, workers and faults; it needs
\* DownGone for the workers that start() creates.
THEOREM MsgQueueTypeOK == Spec => []QueueTypeOK
<1>1. TInv => QueueTypeOK
  BY DEF TInv
<1> QED BY <1>1, TypeInit, TypeStep, PTL DEF Spec

-----------------------------------------------------------------------------
(* At least once.                                                          *)

\* What a channel that closes had been delivered waits to be queued again.
LEMMA CloseKeeps ==
  ASSUME TInv, NEW W \in SUBSET Workers, CloseChannels(W)
  PROVE  /\ InFlight \subseteq InFlight' \union limbo'
         /\ limbo' = limbo \union ({unacked[w] : w \in W} \ {None})
         /\ \A w \in W : unacked'[w] = None
         /\ \A w \in Workers \ W : unacked'[w] = unacked[w]
         /\ InFlight' \union limbo' \subseteq InFlight \union limbo
BY DEF TInv, QueueTypeOK, CloseChannels, InFlight

LEMMA RowsGrow ==
  ASSUME TInv, NEW w \in Workers, wpc[w] = "handle", rows' = Append(rows, unacked[w])
  PROVE  unacked[w] \in Messages /\ Values(rows') = Values(rows) \union {unacked[w]}
<1>1. unacked[w] \in Messages
  BY DEF TInv, QueueTypeOK
<1> QED BY <1>1, ValuesAppend DEF TInv, QueueTypeOK

\* What the steps of a worker do to the places a message can be at.
LEMMA WorkerPlaces ==
  ASSUME LInv, NEW w \in Workers, Worker(w)
  PROVE  AckAfterInsert' /\ NoLoss'
<1> USE DEF LInv, TInv, QueueTypeOK, AckAfterInsert, NoLoss, brokerVars, At, Goto
<1>1. CASE Connect(w) \/ Consume(w)
  BY <1>1 DEF Connect, Consume, InFlight
<1>2. CASE Deliver(w)
  <2>1. Values(ready) = {Head(ready)} \union Values(ready') /\ Head(ready) \in Messages
    BY <1>2, ValuesTail, TailIndices DEF Deliver
  <2>2. /\ unacked'[w] = Head(ready)
        /\ \A v \in Workers \ {w} : unacked'[v] = unacked[v]
    BY <1>2 DEF Deliver
  <2>3. InFlight \union {Head(ready)} \subseteq InFlight'
    BY <1>2, <2>1, <2>2, NoneAssumption DEF Deliver, InFlight
  <2>4. AckAfterInsert'
    BY <1>2, <2>2 DEF Deliver
  <2> QED BY <1>2, <2>1, <2>3, <2>4 DEF Deliver
<1>3. CASE Insert(w)
  <2>1. Values(rows') = Values(rows) \union {unacked[w]}
    BY <1>3, RowsGrow DEF Insert
  <2> QED BY <1>3, <2>1 DEF Insert, InFlight
<1>4. CASE Ack(w)
  <2>1. unacked'[w] = None /\ \A v \in Workers \ {w} : unacked'[v] = unacked[v]
    BY <1>4 DEF Ack
  <2>2. InFlight \subseteq InFlight' \union {unacked[w]}
    BY <2>1 DEF InFlight
  <2>3. unacked[w] \in Values(rows)
    BY <1>4 DEF Ack
  <2> QED BY <1>4, <2>1, <2>2, <2>3 DEF Ack
<1>5. CASE Stop(w) \/ Die(w)
  <2>1. CloseChannels({w}) /\ {w} \in SUBSET Workers
    BY <1>5 DEF Stop, Die
  <2>2. Values(rows) \subseteq Values(rows') /\ UNCHANGED <<ready, accepted>>
    BY <1>5, RowsGrow, <2>1 DEF Stop, Die, CloseChannels
  <2>3. wpc'[w] = "gone" /\ \A v \in Workers \ {w} : wpc'[v] = wpc[v]
    BY <1>5 DEF Stop, Die
  <2> QED BY <2>1, <2>2, <2>3, CloseKeeps
<1> QED BY <1>1, <1>2, <1>3, <1>4, <1>5 DEF Worker, WorkerStep

LEMMA LossStep == LInv /\ [QueueNext]_queueVars => LInv'
<1> SUFFICES ASSUME LInv, [QueueNext]_queueVars PROVE AckAfterInsert' /\ NoLoss'
  BY TypeStep DEF LInv
<1> USE DEF LInv, TInv, QueueTypeOK, AckAfterInsert, NoLoss, InFlight, brokerVars
<1>1. ASSUME NEW m \in Messages, Publish(m) PROVE AckAfterInsert' /\ NoLoss'
  <2>1. Values(Append(ready, m)) = Values(ready) \union {m}
    BY ValuesAppend
  <2> QED BY <1>1, <2>1 DEF Publish, Enqueue
<1>2. ASSUME NEW w \in Workers, Worker(w) PROVE AckAfterInsert' /\ NoLoss'
  BY <1>2, WorkerPlaces
<1>3. ASSUME NEW m \in limbo, Requeue(m) PROVE AckAfterInsert' /\ NoLoss'
  <2>1. Values(ready') = {m} \union Values(ready)
    BY <1>3, ValuesCons DEF Requeue
  <2> QED BY <1>3, <2>1 DEF Requeue
<1>4. CASE Crash
  <2>1. /\ InFlight \subseteq InFlight' \union limbo'
        /\ limbo \subseteq limbo'
    BY <1>4, CloseKeeps DEF Crash
  <2> QED BY <1>4, <2>1 DEF Crash, CloseChannels
<1>5. CASE Shutdown \/ Start
  BY <1>5 DEF Shutdown, Start
<1>6. CASE UNCHANGED queueVars
  BY <1>6 DEF queueVars
<1> QED BY <1>1, <1>2, <1>3, <1>4, <1>5, <1>6 DEF QueueNext, Broker

\* MsgQueueNoLoss: whatever fails between the delivery of a message, its insert
\* and its acknowledgement, an accepted message is somewhere.
THEOREM MsgQueueNoLoss == Spec => []NoLoss
<1>1. InitQueue => LInv
  BY TypeInit DEF LInv, InitQueue, AckAfterInsert, NoLoss
<1>2. LInv => NoLoss
  BY DEF LInv
<1> QED BY <1>1, <1>2, LossStep, PTL DEF Spec

-----------------------------------------------------------------------------
(* Rows are doubled by redeliveries only.                                  *)

LEMMA KnownStep == DInv /\ [QueueNext]_queueVars => Known'
<1> SUFFICES ASSUME DInv, [QueueNext]_queueVars PROVE Known'
  OBVIOUS
<1> USE DEF DInv, TInv, QueueTypeOK, Known, brokerVars, At, Goto
<1>1. ASSUME NEW m \in Messages, Publish(m) PROVE Known'
  <2>1. Values(Append(ready, m)) = Values(ready) \union {m}
    BY ValuesAppend
  <2> QED BY <1>1, <2>1 DEF Publish, Enqueue, InFlight
<1>2. ASSUME NEW w \in Workers, Worker(w) PROVE Known'
  <2>1. CASE Connect(w) \/ Consume(w)
    BY <2>1 DEF Connect, Consume, InFlight
  <2>2. CASE Deliver(w)
    <3>1. Values(ready) = {Head(ready)} \union Values(ready')
      BY <2>2, ValuesTail DEF Deliver
    <3>2. InFlight' \subseteq InFlight \union {Head(ready)}
      BY <2>2 DEF Deliver, InFlight
    <3> QED BY <2>2, <3>1, <3>2 DEF Deliver
  <2>3. CASE Insert(w)
    <3>1. Values(rows') = Values(rows) \union {unacked[w]} /\ unacked[w] \in InFlight
      BY <2>3, RowsGrow, NoneAssumption DEF Insert, InFlight
    <3> QED BY <2>3, <3>1 DEF Insert, InFlight
  <2>4. CASE Ack(w)
    BY <2>4 DEF Ack, InFlight
  <2>5. CASE Stop(w) \/ Die(w)
    <3>1. CloseChannels({w}) /\ {w} \in SUBSET Workers
      BY <2>5 DEF Stop, Die
    <3>2. Values(rows') \subseteq Values(rows) \union InFlight
      <4>1. CASE UNCHANGED rows
        BY <4>1
      <4>2. CASE wpc[w] = "handle" /\ rows' = Append(rows, unacked[w])
        <5>1. unacked[w] \in InFlight
          BY <2>5, <4>2, RowsGrow, NoneAssumption DEF InFlight
        <5> QED BY <4>2, <5>1, RowsGrow
      <4> QED BY <2>5, <4>1, <4>2 DEF Stop, Die
    <3>3. UNCHANGED <<ready, accepted>>
      BY <2>5, <3>1 DEF Stop, Die, CloseChannels
    <3> QED BY <3>1, <3>2, <3>3, CloseKeeps
  <2> QED BY <1>2, <2>1, <2>2, <2>3, <2>4, <2>5 DEF Worker, WorkerStep
<1>3. ASSUME NEW m \in limbo, Requeue(m) PROVE Known'
  <2>1. Values(ready') = {m} \union Values(ready)
    BY <1>3, ValuesCons DEF Requeue
  <2> QED BY <1>3, <2>1 DEF Requeue, InFlight
<1>4. CASE Crash
  <2>1. CloseChannels(Workers) /\ UNCHANGED <<ready, rows, accepted>>
    BY <1>4 DEF Crash, CloseChannels
  <2> QED BY <2>1, CloseKeeps
<1>5. CASE Shutdown \/ Start \/ UNCHANGED queueVars
  BY <1>5 DEF Shutdown, Start, InFlight, queueVars
<1> QED BY <1>1, <1>2, <1>3, <1>4, <1>5 DEF QueueNext, Broker

\* Channels that close while the rows stay, or while the row of one message that
\* was delivered to one of them is inserted.
LEMMA OnceClosed ==
  ASSUME DInv, NEW W \in SUBSET Workers, CloseChannels(W),
         \A v \in Workers \ W : wpc'[v] = wpc[v],
         NEW done \in SUBSET {unacked[w] : w \in W},
         Values(rows') = Values(rows) \union done
  PROVE  Once'
<1> USE DEF DInv, TInv, QueueTypeOK
<1> SUFFICES ASSUME NEW m \in Messages \ redelivered PROVE (OncePlaced(m) /\ OnceInserted(m))'
  BY DEF CloseChannels, Once
<1>1. OncePlaced(m) /\ OnceInserted(m) /\ m # None
  BY NoneAssumption DEF Once
<1>2. ready' = ready
  BY DEF CloseChannels
<1>3. \A v \in Workers : unacked'[v] = m => v \notin W /\ unacked[v] = m
  BY <1>1, CloseKeeps
<1>4. OncePlaced(m)'
  <2>1. m \in InFlight' => m \in InFlight
    BY <1>3 DEF InFlight
  <2>2. m \in limbo' => m \in limbo \/ m \in {unacked[w] : w \in W}
    BY CloseKeeps
  <2>3. m \in {unacked[w] : w \in W} => m \in InFlight
    BY <1>1 DEF InFlight
  <2>4. m \in InFlight' => m \notin {unacked[w] : w \in W}
    BY <1>1, <1>3 DEF InFlight, OncePlaced
  <2> QED BY <1>1, <1>2, <1>3, <2>1, <2>2, <2>3, <2>4 DEF OncePlaced
<1>5. OnceInserted(m)'
  <2>1. ASSUME m \in done PROVE m \notin Values(ready) /\ \A v \in Workers : unacked'[v] # m
    BY <1>1, <1>3, <2>1 DEF OncePlaced, InFlight
  <2> QED BY <1>1, <1>2, <1>3, <2>1 DEF OnceInserted
<1> QED BY <1>4, <1>5

LEMMA OnceStep == DInv /\ [QueueNext]_queueVars => Once'
<1> SUFFICES ASSUME DInv, [QueueNext]_queueVars PROVE Once'
  OBVIOUS
<1> USE DEF DInv, TInv, QueueTypeOK, brokerVars, At, Goto
<1>1. ASSUME UNCHANGED <<ready, unacked, limbo, redelivered, rows>>,
             \A w \in Workers : wpc[w] = "ack" => wpc'[w] = "ack"
      PROVE  Once'
  BY <1>1 DEF Once, OncePlaced, OnceInserted, InFlight, Values
<1>2. ASSUME NEW m0 \in Messages, Publish(m0) PROVE Once'
  <2>1. CASE ~declared
    BY <1>1, <1>2, <2>1 DEF Publish, Enqueue
  <2>2. CASE declared
    <3> SUFFICES ASSUME NEW m \in Messages \ redelivered PROVE (OncePlaced(m) /\ OnceInserted(m))'
      BY <1>2 DEF Publish, Once
    <3>1. OncePlaced(m) /\ OnceInserted(m)
      BY DEF Once
    <3>2. UNCHANGED <<unacked, limbo, rows, wpc>> /\ ready' = Append(ready, m0)
      BY <1>2, <2>2 DEF Publish, Enqueue
    <3>3. Values(ready') = Values(ready) \union {m0}
      BY <3>2, ValuesAppend
    <3>4. m0 \notin Values(ready) \union InFlight \union limbo \union Values(rows)
      BY <1>2 DEF Publish, Known
    <3>5. \A i, j \in 1..Len(ready') : ready'[i] = m /\ ready'[j] = m => i = j
      <4>1. /\ \A i \in 1..Len(ready') : i \in 1..Len(ready) \/ i = Len(ready) + 1
            /\ ready'[Len(ready) + 1] = m0
            /\ \A i \in 1..Len(ready) : ready'[i] = ready[i]
        BY <3>2
      <4>2. \A i \in 1..Len(ready) : ready[i] # m0
        BY <3>4 DEF Values
      <4> QED BY <3>1, <4>1, <4>2 DEF OncePlaced
    <3> QED BY <3>1, <3>2, <3>3, <3>4, <3>5 DEF OncePlaced, OnceInserted, InFlight
  <2> QED BY <2>1, <2>2
<1>3. ASSUME NEW w \in Workers, Deliver(w) PROVE Once'
  <2> SUFFICES ASSUME NEW m \in Messages \ redelivered PROVE (OncePlaced(m) /\ OnceInserted(m))'
    BY <1>3 DEF Deliver, Once
  <2> DEFINE h == Head(ready)
  <2>1. OncePlaced(m) /\ OnceInserted(m)
    BY DEF Once
  <2>2. /\ ready # <<>> /\ ready' = Tail(ready) /\ unacked' = [unacked EXCEPT ![w] = h]
        /\ unacked[w] = None /\ UNCHANGED <<limbo, rows, wpc>>
    BY <1>3 DEF Deliver
  <2>3. Values(ready) = {h} \union Values(ready')
    BY <2>2, ValuesTail
  <2>4. /\ h \in Messages /\ h = ready[1] /\ 1 \in 1..Len(ready)
        /\ \A i \in 1..Len(ready') : i \in Nat /\ i + 1 \in 1..Len(ready) /\ ready'[i] = ready[i + 1]
    BY <2>2, TailIndices
  <2>5. unacked'[w] = h /\ \A v \in Workers \ {w} : unacked'[v] = unacked[v]
    BY <2>2
  <2> HIDE DEF h
  <2>6. InFlight' \subseteq InFlight \union {h}
    BY <2>5 DEF InFlight
  <2>7. \A i, j \in 1..Len(ready') : ready'[i] = m /\ ready'[j] = m => i = j
    <3> SUFFICES ASSUME NEW i \in 1..Len(ready'), NEW j \in 1..Len(ready'),
                        ready'[i] = m, ready'[j] = m
                 PROVE  i = j
      OBVIOUS
    <3>1. /\ i + 1 \in 1..Len(ready) /\ ready[i + 1] = m
          /\ j + 1 \in 1..Len(ready) /\ ready[j + 1] = m
      BY <2>4
    <3>2. i + 1 = j + 1
      BY <2>1, <3>1 DEF OncePlaced
    <3> QED BY <2>4, <3>2
  <2>8. m = h => m \notin Values(ready')
    <3> SUFFICES ASSUME m = h, NEW i \in 1..Len(ready'), ready'[i] = m PROVE FALSE
      BY DEF Values
    <3>1. ready[1] = m /\ ready[i + 1] = m /\ i + 1 # 1
      BY <2>4
    <3> QED BY <2>1, <2>4, <3>1 DEF OncePlaced
  <2>9. \A v \in Workers : unacked'[v] = m => unacked[v] = m \/ (v = w /\ m = h)
    BY <2>5
  <2>10. m = h => m \notin InFlight \union limbo \union Values(rows)
    BY <2>1, <2>3 DEF OncePlaced, OnceInserted
  <2>11. m \in Messages /\ m # None
    BY NoneAssumption
  <2>12. m = h => \A v \in Workers : unacked[v] # m
    BY <2>10, <2>11 DEF InFlight
  <2>13. OncePlaced(m)'
    BY <2>1, <2>2, <2>3, <2>6, <2>7, <2>8, <2>9, <2>10, <2>12 DEF OncePlaced
  <2>14. OnceInserted(m)'
    BY <2>1, <2>2, <2>3, <2>9, <2>10 DEF OnceInserted
  <2> QED BY <2>13, <2>14
<1>4. ASSUME NEW w \in Workers, Insert(w) PROVE Once'
  <2> SUFFICES ASSUME NEW m \in Messages \ redelivered PROVE (OncePlaced(m) /\ OnceInserted(m))'
    BY <1>4 DEF Insert, Once
  <2>1. OncePlaced(m) /\ OnceInserted(m) /\ m # None
    BY NoneAssumption DEF Once
  <2>2. UNCHANGED <<ready, unacked, limbo>> /\ wpc' = [wpc EXCEPT ![w] = "ack"]
    BY <1>4 DEF Insert
  <2>3. Values(rows') = Values(rows) \union {unacked[w]}
    BY <1>4, RowsGrow DEF Insert
  <2>4. unacked[w] = m => m \in InFlight
    BY <2>1 DEF InFlight
  <2> QED BY <2>1, <2>2, <2>3, <2>4 DEF OncePlaced, OnceInserted, InFlight
<1>5. ASSUME NEW w \in Workers, Ack(w) PROVE Once'
  <2> SUFFICES ASSUME NEW m \in Messages \ redelivered PROVE (OncePlaced(m) /\ OnceInserted(m))'
    BY <1>5 DEF Ack, Once
  <2>1. OncePlaced(m) /\ OnceInserted(m) /\ m # None
    BY NoneAssumption DEF Once
  <2>2. UNCHANGED <<ready, rows, limbo>>
    BY <1>5 DEF Ack
  <2>3. \A v \in Workers : unacked'[v] = m => unacked[v] = m /\ wpc'[v] = wpc[v]
    BY <1>5, <2>1 DEF Ack
  <2>4. m \in InFlight' => m \in InFlight
    BY <2>1, <2>3 DEF InFlight
  <2> QED BY <2>1, <2>2, <2>3, <2>4 DEF OncePlaced, OnceInserted
<1>6. ASSUME NEW w \in Workers, Consume(w) PROVE Once'
  <2>1. UNCHANGED <<ready, unacked, limbo, redelivered, rows>>
    BY <1>6 DEF Consume
  <2>2. \A v \in Workers : wpc[v] = "ack" => wpc'[v] = "ack"
    BY <1>6 DEF Consume
  <2> QED BY <1>1, <2>1, <2>2
<1>7. ASSUME NEW w \in Workers, Connect(w) PROVE Once'
  <2>1. \A v \in Workers : wpc[v] = "ack" => wpc'[v] = "ack"
    BY <1>7 DEF Connect
  <2> QED BY <1>1, <1>7, <2>1 DEF Connect
<1>8. ASSUME NEW w \in Workers, Stop(w) \/ Die(w) PROVE Once'
  <2>1. CloseChannels({w}) /\ {w} \in SUBSET Workers
    BY <1>8 DEF Stop, Die
  <2>2. \A v \in Workers \ {w} : wpc'[v] = wpc[v]
    BY <1>8 DEF Stop, Die
  <2>3. Values(rows') = Values(rows) \union {} \/ Values(rows') = Values(rows) \union {unacked[w]}
    BY <1>8, RowsGrow DEF Stop, Die
  <2>4. {} \in SUBSET {unacked[v] : v \in {w}} /\ {unacked[w]} \in SUBSET {unacked[v] : v \in {w}}
    OBVIOUS
  <2> QED BY <2>1, <2>2, <2>3, <2>4, OnceClosed
<1>9. ASSUME NEW m0 \in limbo, Requeue(m0) PROVE Once'
  <2> SUFFICES ASSUME NEW m \in Messages \ redelivered' PROVE (OncePlaced(m) /\ OnceInserted(m))'
    BY DEF Once
  <2>1. m \notin redelivered /\ m # m0
    BY <1>9 DEF Requeue
  <2>2. OncePlaced(m) /\ OnceInserted(m)
    BY <2>1 DEF Once
  <2>3. /\ UNCHANGED <<unacked, rows, wpc>> /\ limbo' = limbo \ {m0}
        /\ ready' = <<m0>> \o ready /\ m0 \in Messages
    BY <1>9 DEF Requeue
  <2>4. Values(ready') = {m0} \union Values(ready)
    BY <2>3, ValuesCons
  <2>5. /\ ready'[1] = m0 /\ Len(ready) \in Nat /\ Len(ready') = Len(ready) + 1
        /\ \A i \in 1..Len(ready') : i # 1 => i - 1 \in 1..Len(ready) /\ ready'[i] = ready[i - 1]
    BY <2>3, ConsIndices
  <2>6. \A i, j \in 1..Len(ready') : ready'[i] = m /\ ready'[j] = m => i = j
    <3> SUFFICES ASSUME NEW i \in 1..Len(ready'), NEW j \in 1..Len(ready'),
                        ready'[i] = m, ready'[j] = m
                 PROVE  i = j
      OBVIOUS
    <3>1. i # 1 /\ j # 1
      BY <2>1, <2>5
    <3>2. /\ i - 1 \in 1..Len(ready) /\ ready[i - 1] = m
          /\ j - 1 \in 1..Len(ready) /\ ready[j - 1] = m
      BY <2>5, <3>1
    <3>3. i - 1 = j - 1
      BY <2>2, <3>2 DEF OncePlaced
    <3> QED BY <2>5, <3>3
  <2> QED BY <2>1, <2>2, <2>3, <2>4, <2>6 DEF OncePlaced, OnceInserted, InFlight
<1>10. CASE Crash
  <2>1. CloseChannels(Workers) /\ Workers \in SUBSET Workers /\ rows' = rows
    BY <1>10 DEF Crash
  <2>2. Values(rows') = Values(rows) \union {} /\ {} \in SUBSET {unacked[v] : v \in Workers}
    BY <2>1
  <2> QED BY <2>1, <2>2, OnceClosed
<1>11. CASE Start
  <2>1. \A v \in Workers : wpc[v] = "ack" => wpc'[v] = "ack"
    BY <1>11 DEF Start, DownGone
  <2> QED BY <1>1, <1>11, <2>1 DEF Start
<1>12. CASE Shutdown
  BY <1>1, <1>12 DEF Shutdown
<1>13. CASE UNCHANGED queueVars
  BY <1>1, <1>13 DEF queueVars
<1> QED BY <1>2, <1>3, <1>4, <1>5, <1>6, <1>7, <1>8, <1>9, <1>10, <1>11, <1>12, <1>13
        DEF QueueNext, Broker, Worker, WorkerStep

\* A row is appended by a worker that has its message and handles it.
LEMMA DuplicatesStep == DInv /\ [QueueNext]_queueVars => DuplicatesAreRedelivered'
<1> SUFFICES ASSUME DInv, [QueueNext]_queueVars PROVE DuplicatesAreRedelivered'
  OBVIOUS
<1> USE DEF DInv, TInv, QueueTypeOK
<1>1. redelivered \subseteq redelivered'
  BY DEF QueueNext, Publish, Worker, WorkerStep, Connect, Deliver, Consume, Insert, Ack,
         Stop, Die, CloseChannels, Broker, Requeue, Shutdown, Crash, Start, brokerVars, queueVars
<1>2. CASE rows' = rows
  BY <1>1, <1>2 DEF DuplicatesAreRedelivered
<1>3. ASSUME NEW w \in Workers, wpc[w] = "handle", rows' = Append(rows, unacked[w])
      PROVE  DuplicatesAreRedelivered'
  <2> DEFINE m == unacked[w]
  <2>1. m \in Messages
    BY <1>3
  <2>2. m \notin redelivered => m \notin Values(rows)
    BY <1>3, <2>1 DEF Once, OnceInserted
  <2>3. /\ \A i \in 1..Len(rows') : i \in 1..Len(rows) \/ i = Len(rows) + 1
        /\ rows'[Len(rows) + 1] = m
        /\ \A i \in 1..Len(rows) : rows'[i] = rows[i]
    BY <1>3, <2>1
  <2>4. \A i \in 1..Len(rows) : rows[i] = m => m \in redelivered
    BY <2>2 DEF Values
  <2> HIDE DEF m
  <2> QED BY <1>1, <2>3, <2>4 DEF DuplicatesAreRedelivered
<1>4. rows' = rows \/ \E w \in Workers : wpc[w] = "handle" /\ rows' = Append(rows, unacked[w])
  BY DEF QueueNext, Publish, Worker, WorkerStep, Connect, Deliver, Consume, Insert, Ack,
         Stop, Die, Broker, Requeue, Shutdown, Crash, Start, At, queueVars
<1> QED BY <1>2, <1>3, <1>4

LEMMA InvariantInit == InitQueue => DInv
<1> SUFFICES ASSUME InitQueue PROVE Known /\ Once /\ DuplicatesAreRedelivered
  BY TypeInit DEF DInv
<1>1. InFlight = {} /\ Values(ready) = {} /\ Values(rows) = {}
  BY DEF InitQueue, InFlight, Values
<1>2. \A w \in Workers, m \in Messages : unacked[w] # m
  BY NoneAssumption DEF InitQueue
<1> QED BY <1>1, <1>2
        DEF InitQueue, Known, Once, OncePlaced, OnceInserted, DuplicatesAreRedelivered

LEMMA InvariantStep == DInv /\ [QueueNext]_queueVars => DInv'
BY TypeStep, KnownStep, OnceStep, DuplicatesStep DEF DInv

\* MsgQueueDuplicates: a row appears twice only if the broker marked a delivery
\* of its message as redelivered.
THEOREM MsgQueueDuplicates == Spec => []DuplicatesAreRedelivered
<1>1. DInv => DuplicatesAreRedelivered
  BY DEF DInv
<1> QED BY <1>1, InvariantInit, InvariantStep, PTL DEF Spec
=============================================================================
