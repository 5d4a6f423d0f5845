------------------------------ MODULE MsgQueue -------------------------------
(***************************************************************************)
(* Asynchronous persistence: MQManager::publish, the RabbitMQ queue        *)
(* "sql_queue", the workers of RabbitMQThreadPool and the chat_message     *)
(* table they insert into.                                                 *)
(*                                                                         *)
(* The broker is modelled as far as MQManager.cpp uses it: a confirmed     *)
(* publish to the default exchange, a durable queue, consumers with manual *)
(* acknowledgement and a prefetch of one.  What was delivered to a channel *)
(* that closes goes back to the head of the queue once the broker notices. *)
(***************************************************************************)
EXTENDS Naturals, Sequences, FiniteSets

CONSTANTS Messages,    \* the INSERT statements that may be published
          Workers,     \* the THREAD_NUM worker threads
          None,        \* no message
          MaxFaults    \* bound: worker exceptions and process crashes

ASSUME NoneAssumption == None \notin Messages
ASSUME MaxFaultsAssumption == MaxFaults \in Nat

VARIABLES
  declared,   \* the queue exists
  ready,      \* messages in the queue
  unacked,    \* the message each worker's channel was delivered
  limbo,      \* unacknowledged messages of channels that closed
  redelivered,\* messages that went back to the queue
  wpc,        \* where each worker is
  stop,       \* stop_
  up,         \* the process runs and the pool was started
  rows,       \* the rows of chat_message, in insertion order
  accepted,   \* messages the broker put in the queue
  dropped,    \* messages published before the queue existed
  faults      \* how often something failed

brokerVars == <<declared, ready, unacked, limbo, redelivered>>
queueVars  == <<brokerVars, wpc, stop, up, rows, accepted, dropped, faults>>

Values(s) == {s[i] : i \in 1..Len(s)}

InitQueue == /\ declared = FALSE
             /\ ready = <<>> /\ limbo = {} /\ redelivered = {}
             /\ unacked = [w \in Workers |-> None]
             /\ wpc = [w \in Workers |-> "connect"]
             /\ stop = FALSE /\ up = TRUE
             /\ rows = <<>>
             /\ accepted = {} /\ dropped = {} /\ faults = 0

-----------------------------------------------------------------------------
(* Publishing.  BasicPublish waits for the broker's confirmation; a message *)
(* for a queue nobody has declared is confirmed and dropped.               *)

Enqueue(m) == IF declared
              THEN /\ ready' = Append(ready, m)
                   /\ accepted' = accepted \union {m}
                   /\ UNCHANGED dropped
              ELSE /\ dropped' = dropped \union {m}
                   /\ UNCHANGED <<ready, accepted>>

Publish(m) == /\ m \notin accepted \union dropped
              /\ Enqueue(m)
              /\ UNCHANGED <<declared, unacked, limbo, redelivered, wpc, stop,
                             up, rows, faults>>

-----------------------------------------------------------------------------
(* A worker.                                                               *)

At(w, p)   == up /\ wpc[w] = p
Goto(w, p) == wpc' = [wpc EXCEPT ![w] = p]

\* Channel::Create, DeclareQueue, BasicConsume.
Connect(w) == /\ At(w, "connect")
              /\ declared' = TRUE
              /\ Goto(w, "poll")
              /\ UNCHANGED <<ready, unacked, limbo, redelivered, stop, up, rows,
                             accepted, dropped, faults>>

\* The broker hands a message to the channel of a consumer that has none.
Deliver(w) == /\ At(w, "poll")
              /\ unacked[w] = None /\ ready # <<>>
              /\ unacked' = [unacked EXCEPT ![w] = Head(ready)]
              /\ ready' = Tail(ready)
              /\ UNCHANGED <<declared, limbo, redelivered, wpc, stop, up, rows,
                             accepted, dropped, faults>>

\* BasicConsumeMessage returns it.
Consume(w) == /\ At(w, "poll") /\ unacked[w] # None
              /\ Goto(w, "handle")
              /\ UNCHANGED <<brokerVars, stop, up, rows, accepted, dropped, faults>>

\* handler_(msg): executeMysql inserts the row.
Insert(w) == /\ At(w, "handle")
             /\ rows' = Append(rows, unacked[w])
             /\ Goto(w, "ack")
             /\ UNCHANGED <<brokerVars, stop, up, accepted, dropped, faults>>

\* Variant: the loop goes on without BasicAck.
NoAck(w) == /\ At(w, "ack")
            /\ Goto(w, "poll")
            /\ UNCHANGED <<brokerVars, stop, up, rows, accepted, dropped, faults>>

Ack(w) == /\ At(w, "ack")
          /\ unacked' = [unacked EXCEPT ![w] = None]
          /\ Goto(w, "poll")
          /\ UNCHANGED <<declared, ready, limbo, redelivered, stop, up, rows,
                         accepted, dropped, faults>>

\* Variants: a consumer without manual acknowledgement; a broker that queues the
\* message of a closed channel again and also leaves it delivered.
CloseAutoAcked(W) ==
  /\ unacked' = [w \in Workers |-> IF w \in W THEN None ELSE unacked[w]]
  /\ UNCHANGED <<declared, ready, redelivered, limbo>>

CloseTwice(W) ==
  /\ limbo' = limbo \union ({unacked[w] : w \in W} \ {None})
  /\ UNCHANGED <<declared, ready, redelivered, unacked>>

\* The channels of the workers in W close.
CloseChannels(W) ==
  /\ limbo' = limbo \union ({unacked[w] : w \in W} \ {None})
  /\ unacked' = [w \in Workers |-> IF w \in W THEN None ELSE unacked[w]]
  /\ UNCHANGED <<declared, ready, redelivered>>

\* An exception leaves the loop and the thread function: the worker is gone.
\* The insert that threw may have been committed before its answer was lost.
Die(w) == /\ up /\ wpc[w] \in {"connect", "poll", "handle", "ack"}
          /\ faults < MaxFaults
          /\ \/ UNCHANGED rows
             \/ wpc[w] = "handle" /\ rows' = Append(rows, unacked[w])
          /\ CloseChannels({w})
          /\ Goto(w, "gone")
          /\ faults' = faults + 1
          /\ UNCHANGED <<stop, up, accepted, dropped>>

\* shutdown() raises stop_; a worker sees it between two messages.
Shutdown == /\ up /\ ~stop
            /\ stop' = TRUE
            /\ UNCHANGED <<brokerVars, wpc, up, rows, accepted, dropped, faults>>

Stop(w) == /\ At(w, "poll") /\ stop
           /\ CloseChannels({w})
           /\ Goto(w, "gone")
           /\ UNCHANGED <<stop, up, rows, accepted, dropped, faults>>

-----------------------------------------------------------------------------
(* The broker and the process.                                             *)

Requeue(m) == /\ m \in limbo
              /\ limbo' = limbo \ {m}
              /\ ready' = <<m>> \o ready
              /\ redelivered' = redelivered \union {m}
              /\ UNCHANGED <<declared, unacked, wpc, stop, up, rows, accepted,
                             dropped, faults>>

Crash == /\ up /\ faults < MaxFaults
         /\ up' = FALSE
         /\ wpc' = [w \in Workers |-> "gone"]
         /\ CloseChannels(Workers)
         /\ faults' = faults + 1
         /\ UNCHANGED <<stop, rows, accepted, dropped>>

\* start() of a new process.
Start == /\ ~up
         /\ up' = TRUE /\ stop' = FALSE
         /\ wpc' = [w \in Workers |-> "connect"]
         /\ UNCHANGED <<brokerVars, rows, accepted, dropped, faults>>

-----------------------------------------------------------------------------
WorkerStep(w) == Connect(w) \/ Deliver(w) \/ Consume(w) \/ Insert(w) \/ Ack(w)

Worker(w) == WorkerStep(w) \/ Stop(w) \/ Die(w)

Broker == \E m \in limbo : Requeue(m)

QueueNext == \/ \E m \in Messages : Publish(m)
             \/ \E w \in Workers : Worker(w)
             \/ Broker \/ Shutdown \/ Crash \/ Start

Spec == InitQueue /\ [][QueueNext]_queueVars

\* Workers and the broker make progress and a crashed process is started again.
\* main() never reaches the end of server.start(), so nothing requires shutdown.
QueueFairness == /\ \A w \in Workers : WF_queueVars(WorkerStep(w))
                 /\ WF_queueVars(Broker)
                 /\ WF_queueVars(Start)

FairSpec == Spec /\ QueueFairness

-----------------------------------------------------------------------------
InFlight == {unacked[w] : w \in Workers} \ {None}

\* The values of the variables; a worker that handles or acknowledges a message
\* has one, and a channel that is closed has none.
QueueTypeOK ==
  /\ declared \in BOOLEAN
  /\ ready \in Seq(Messages)
  /\ unacked \in [Workers -> Messages \union {None}]
  /\ limbo \subseteq Messages /\ redelivered \subseteq Messages
  /\ wpc \in [Workers -> {"connect", "poll", "handle", "ack", "gone"}]
  /\ stop \in BOOLEAN /\ up \in BOOLEAN
  /\ rows \in Seq(Messages)
  /\ accepted \subseteq Messages /\ dropped \subseteq Messages
  /\ faults \in 0..MaxFaults
  /\ \A w \in Workers : /\ wpc[w] \in {"handle", "ack"} => unacked[w] # None
                        /\ wpc[w] \in {"connect", "gone"} => unacked[w] = None

\* At least once: a message the broker accepted is in the queue, with a worker,
\* about to be queued again, or a row.  An exception of the insert, a failed
\* acknowledgement and a crash between the two lose nothing.
NoLoss == \A m \in accepted : m \in Values(ready) \/ m \in InFlight \/ m \in limbo
                              \/ m \in Values(rows)

\* A row appears twice only if its message was delivered twice: a worker that
\* threw or crashed between the insert and the acknowledgement.  The broker's
\* redelivered flag marks every candidate.
DuplicatesAreRedelivered ==
  \A i, j \in 1..Len(rows) : i # j /\ rows[i] = rows[j] => rows[i] \in redelivered

\* Every accepted message becomes a row, although each exception ends a worker
\* for the life of the process: as long as one worker is left, its consumer gets
\* what the others had taken, and a restart brings all of them back.
NobodyLeft == stop \/ (up /\ \A w \in Workers : wpc[w] = "gone")

EventuallyStored ==
  \A m \in Messages : m \in accepted ~> m \in Values(rows) \/ NobodyLeft
=============================================================================
