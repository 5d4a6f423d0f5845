-------------------------- MODULE ChatHistory_proofs --------------------------
(***************************************************************************)
(* Proofs about ChatHistory, for any threads, workers and bounds: to the   *)
(* queue a chat session is nothing but the queue's own behaviour, so that  *)
(* what MsgQueue promises holds for its rows too; what the table holds was *)
(* said; one thread's dialogue alternates; a restart brings it back.       *)
(***************************************************************************)
EXTENDS ChatHistory, MsgQueue_proofs, SeqLemmas, FiniteSetTheorems

\* The values of the variables of a chat session, and what a thread's place in
\* chat() says of the prompts it has pushed.
ChatShape ==
  /\ pc \in [Threads -> PCs]
  /\ call \in [Threads -> 0..MaxCalls] /\ round \in [Threads -> 0..2]
  /\ calls \in 0..MaxCalls /\ clock \in 0..MaxClock /\ errors \in 0..MaxErrors
  /\ history \in Seq(Entries)
  /\ \A t \in Threads : /\ call[t] <= calls
                        /\ pc[t] # "idle" => call[t] >= 1
                        /\ pc[t] = "popPrompt" => round[t] > 0
                        /\ pc[t] = "pushPrompt" => round[t] < 2
  /\ restoring \subseteq 1..Len(rows)
  /\ booting => ~up

\* What a thread is about to publish has been added.
Added(t, role) == \E e \in Values(history) : e.call = call[t] /\ e.role = role

AllAdded == \A t \in Threads : /\ pc[t] = "publishQuestion" => Added(t, "user")
                               /\ pc[t] = "publishAnswer"   => Added(t, "ai")

ChatInv == ChatShape /\ AllAdded /\ TInv

-----------------------------------------------------------------------------
(* The queue's part of a step.                                             *)

LEMMA ValuesInSet ==
  ASSUME NEW S, NEW s \in Seq(S)
  PROVE  Values(s) \subseteq S
BY DEF Values

LEMMA PushedIsEntry ==
  ASSUME ChatShape, NEW t \in Threads, NEW role, Added(t, role)
  PROVE  /\ Pushed(t, role) \in Values(history) /\ Pushed(t, role) \in Entries
         /\ Pushed(t, role) \in Messages
<1>1. Pushed(t, role) \in Values(history)
  BY DEF Pushed, Added
<1>2. Values(history) \subseteq Entries
  BY ValuesInSet DEF ChatShape
<1> QED
  BY <1>1, <1>2, ChatAssumption

\* A step of a thread: publish, or nothing that the queue sees.
LEMMA ChatStepPublishes ==
  ASSUME ChatShape, AllAdded, NEW t \in Threads, Chat(t)
  PROVE  \/ UNCHANGED queueVars
         \/ \E m \in Messages : m \in Values(history) /\ Publish(m)
<1>1. CASE Begin(t) \/ AddQuestion(t) \/ AddAnswer(t) \/ PushPrompt(t)
            \/ Answered(t) \/ PopPrompt(t)
  BY <1>1 DEF Begin, AddQuestion, AddAnswer, Push, PushPrompt, Answered, PopPrompt
<1>2. CASE PublishQuestion(t)
  <2>1. pc[t] = "publishQuestion" /\ Publish(Pushed(t, "user"))
    BY <1>2 DEF PublishQuestion, PublishStep, In
  <2>2. Added(t, "user")
    BY <2>1 DEF AllAdded
  <2> QED
    BY <2>1, <2>2, PushedIsEntry
<1>3. CASE PublishAnswer(t)
  <2>1. pc[t] = "publishAnswer" /\ Publish(Pushed(t, "ai"))
    BY <1>3 DEF PublishAnswer, PublishStep, In
  <2>2. Added(t, "ai")
    BY <2>1 DEF AllAdded
  <2> QED
    BY <2>1, <2>2, PushedIsEntry
<1>4. CASE Throw(t)
  <2>1. CASE UNCHANGED queueVars
    BY <2>1
  <2>2. CASE ~UNCHANGED queueVars
    <3>1. PICK role \in {"user", "ai"} :
            /\ pc[t] = IF role = "user" THEN "publishQuestion" ELSE "publishAnswer"
            /\ Publish(Pushed(t, role))
      BY <1>4, <2>2 DEF Throw
    <3>2. Added(t, role)
      <4>1. CASE role = "user"
        <5>1. pc[t] = "publishQuestion"
          BY <3>1, <4>1
        <5> QED
          BY <4>1, <5>1 DEF AllAdded
      <4>2. CASE role = "ai"
        <5>1. pc[t] = "publishAnswer"
          BY <3>1, <4>2
        <5> QED
          BY <4>2, <5>1 DEF AllAdded
      <4> QED
        BY <4>1, <4>2
    <3> QED
      BY <3>1, <3>2, PushedIsEntry
  <2> QED
    BY <2>1, <2>2
<1> QED
  BY <1>1, <1>2, <1>3, <1>4 DEF Chat

LEMMA QueuePart ==
  ASSUME ChatShape, AllAdded, [Next]_vars
  PROVE  [QueueNext]_queueVars
<1>1. ASSUME NEW t \in Threads, Chat(t) PROVE [QueueNext]_queueVars
  BY <1>1, ChatStepPublishes DEF QueueNext
<1>2. CASE QueueStep
  BY <1>2 DEF QueueStep, QueueNext
<1>3. CASE ProcessCrash
  BY <1>3 DEF ProcessCrash, QueueNext
<1>4. CASE BeginRestore \/ RestoreMessage
  BY <1>4 DEF BeginRestore, RestoreMessage
<1>5. CASE Boot
  BY <1>5 DEF Boot, QueueNext
<1>6. CASE UNCHANGED vars
  BY <1>6 DEF vars
<1> QED
  BY <1>1, <1>2, <1>3, <1>4, <1>5, <1>6 DEF Next

-----------------------------------------------------------------------------
(* The chat session's part of a step.                                      *)

LEMMA Bounds == MaxCalls \in Nat /\ MaxClock \in Nat /\ MaxErrors \in Nat
BY ChatAssumption

LEMMA InitChat == Init => ChatInv
<1> SUFFICES ASSUME Init PROVE ChatInv
  OBVIOUS
<1>1. TInv
  BY TypeInit DEF Init
<1>2. ChatShape
  BY Bounds DEF Init, ChatShape, PCs
<1>3. AllAdded
  BY DEF Init, AllAdded
<1> QED
  BY <1>1, <1>2, <1>3 DEF ChatInv

\* What was added stays added.
LEMMA AddedStays ==
  ASSUME NEW t \in Threads, NEW role, Added(t, role), call'[t] = call[t],
         Values(history) \subseteq Values(history')
  PROVE  Added(t, role)'
BY DEF Added

\* A step of a thread that neither begins a call nor adds anything.
LEMMA ThreadStep ==
  ASSUME ChatInv, NEW t \in Threads, NEW p \in PCs, Becomes(t, p), pc[t] # "idle",
         UNCHANGED <<call, calls, clock, history, restoring, booting, up, rows>>,
         round' \in [Threads -> 0..2], \A u \in Threads \ {t} : round'[u] = round[u],
         p = "popPrompt" => round'[t] > 0, p = "pushPrompt" => round'[t] < 2,
         p \notin {"publishQuestion", "publishAnswer"}, errors' \in 0..MaxErrors
  PROVE  ChatShape' /\ AllAdded'
<1>1. /\ pc' \in [Threads -> PCs] /\ pc'[t] = p
      /\ \A u \in Threads \ {t} : pc'[u] = pc[u]
  BY DEF Becomes, ChatInv, ChatShape
<1>2. \A u \in Threads : /\ call'[u] <= calls'
                         /\ pc'[u] # "idle" => call'[u] >= 1
                         /\ pc'[u] = "popPrompt" => round'[u] > 0
                         /\ pc'[u] = "pushPrompt" => round'[u] < 2
  <2> TAKE u \in Threads
  <2>1. CASE u = t
    BY <1>1, <2>1 DEF ChatInv, ChatShape
  <2>2. CASE u # t
    BY <1>1, <2>2 DEF ChatInv, ChatShape
  <2> QED
    BY <2>1, <2>2
<1>3. ChatShape'
  BY <1>1, <1>2 DEF ChatInv, ChatShape
<1>4. AllAdded'
  BY <1>1 DEF ChatInv, AllAdded, Added
<1> QED
  BY <1>3, <1>4

LEMMA PushStep ==
  ASSUME ChatInv, NEW t \in Threads, NEW role \in {"user", "ai"}, NEW p,
         p = IF role = "user" THEN "publishQuestion" ELSE "publishAnswer",
         pc[t] # "idle", up, Push(t, role), Becomes(t, p)
  PROVE  ChatShape' /\ AllAdded'
<1>1. /\ pc' \in [Threads -> PCs] /\ pc'[t] = p
      /\ \A u \in Threads \ {t} : pc'[u] = pc[u]
  BY DEF Becomes, ChatInv, ChatShape, PCs
<1>2. clock' \in 0..MaxClock /\ history' = Append(history, Entry(call[t], role, clock'))
  BY Bounds DEF Push, ChatInv, ChatShape
<1> DEFINE e == Entry(call[t], role, clock')
<1>3. e \in Entries /\ e.call = call[t] /\ e.role = role
  BY <1>2, Bounds DEF Entries, Entry, ChatInv, ChatShape
<1> HIDE DEF e
<1>4. history' \in Seq(Entries) /\ Values(history') = Values(history) \union {e}
  BY <1>2, <1>3, ValuesAppend, AppendProperties DEF e, ChatInv, ChatShape
<1>5. UNCHANGED <<call, round, calls, errors, restoring, booting, up, rows>>
  BY DEF Push, queueVars, bootVars
<1>6. \A u \in Threads : /\ call'[u] <= calls'
                         /\ pc'[u] # "idle" => call'[u] >= 1
                         /\ pc'[u] = "popPrompt" => round'[u] > 0
                         /\ pc'[u] = "pushPrompt" => round'[u] < 2
  <2> TAKE u \in Threads
  <2>1. CASE u = t
    BY <1>1, <1>5, <2>1 DEF ChatInv, ChatShape
  <2>2. CASE u # t
    BY <1>1, <1>5, <2>2 DEF ChatInv, ChatShape
  <2> QED
    BY <2>1, <2>2
<1>7. ChatShape'
  BY <1>1, <1>2, <1>4, <1>5, <1>6 DEF ChatInv, ChatShape
<1>8. AllAdded'
  <2> SUFFICES ASSUME NEW u \in Threads
               PROVE  /\ pc'[u] = "publishQuestion" => Added(u, "user")'
                      /\ pc'[u] = "publishAnswer" => Added(u, "ai")'
    BY DEF AllAdded
  <2>1. CASE u = t
    <3>1. Added(t, role)'
      BY <1>3, <1>4, <1>5 DEF Added
    <3> QED
      BY <1>1, <2>1, <3>1
  <2>2. CASE u # t
    <3>1. pc'[u] = pc[u] /\ call'[u] = call[u] /\ Values(history) \subseteq Values(history')
      BY <1>1, <1>4, <1>5, <2>2
    <3> QED
      BY <3>1, AddedStays DEF ChatInv, AllAdded
  <2> QED
    BY <2>1, <2>2
<1> QED
  BY <1>7, <1>8

LEMMA BeginStep ==
  ASSUME ChatInv, NEW t \in Threads, Begin(t)
  PROVE  ChatShape' /\ AllAdded'
<1>1. PICK p \in {"addQuestion", "pushPrompt"} : Becomes(t, p)
  BY DEF Begin
<1>2. /\ pc' \in [Threads -> PCs] /\ pc'[t] = p
      /\ \A u \in Threads \ {t} : pc'[u] = pc[u]
  BY <1>1 DEF Becomes, ChatInv, ChatShape, PCs
<1>3. calls' = calls + 1 /\ calls' \in 0..MaxCalls
  BY Bounds DEF Begin, ChatInv, ChatShape
<1>4. /\ call' \in [Threads -> 0..MaxCalls] /\ call'[t] = calls + 1
      /\ \A u \in Threads \ {t} : call'[u] = call[u]
  BY <1>3 DEF Begin, ChatInv, ChatShape
<1>5. /\ round' \in [Threads -> 0..2] /\ round'[t] = 0
      /\ \A u \in Threads \ {t} : round'[u] = round[u]
  BY DEF Begin, ChatInv, ChatShape
<1>6. UNCHANGED <<history, clock, errors, restoring, booting, up, rows>>
  BY DEF Begin, queueVars, bootVars
<1>7. \A u \in Threads : /\ call'[u] <= calls'
                         /\ pc'[u] # "idle" => call'[u] >= 1
                         /\ pc'[u] = "popPrompt" => round'[u] > 0
                         /\ pc'[u] = "pushPrompt" => round'[u] < 2
  <2> TAKE u \in Threads
  <2>1. CASE u = t
    BY <1>2, <1>3, <1>4, <1>5, <2>1 DEF ChatInv, ChatShape
  <2>2. CASE u # t
    <3>1. pc'[u] = pc[u] /\ round'[u] = round[u] /\ call'[u] = call[u] /\ call[u] \in Nat
      BY <1>2, <1>4, <1>5, <2>2 DEF ChatInv, ChatShape
    <3>2. calls \in Nat /\ calls' = calls + 1 /\ call[u] <= calls
      BY <1>3 DEF ChatInv, ChatShape
    <3>3. call[u] <= calls'
      BY <3>1, <3>2
    <3> QED
      BY <3>1, <3>3 DEF ChatInv, ChatShape
  <2> QED
    BY <2>1, <2>2
<1>8. ChatShape'
  BY <1>2, <1>3, <1>4, <1>5, <1>6, <1>7 DEF ChatInv, ChatShape
<1>9. AllAdded'
  <2> SUFFICES ASSUME NEW u \in Threads
               PROVE  /\ pc'[u] = "publishQuestion" => Added(u, "user")'
                      /\ pc'[u] = "publishAnswer" => Added(u, "ai")'
    BY DEF AllAdded
  <2>1. CASE u = t
    BY <1>2, <2>1
  <2>2. CASE u # t
    BY <1>2, <1>4, <1>6, <2>2, AddedStays DEF ChatInv, AllAdded
  <2> QED
    BY <2>1, <2>2
<1> QED
  BY <1>8, <1>9

LEMMA ThreadChat ==
  ASSUME ChatInv, NEW t \in Threads, Chat(t)
  PROVE  ChatShape' /\ AllAdded'
<1>0. /\ errors \in 0..MaxErrors /\ round \in [Threads -> 0..2] /\ pc[t] \in PCs
      /\ {"idle", "addQuestion", "ask", "addAnswer", "popPrompt", "pushPrompt"} \subseteq PCs
  BY DEF ChatInv, ChatShape, PCs
<1>1. CASE Begin(t)
  BY <1>1, BeginStep
<1>2. CASE AddQuestion(t)
  BY <1>2, PushStep DEF AddQuestion, In
<1>3. CASE AddAnswer(t)
  BY <1>3, PushStep DEF AddAnswer, In
<1>4. CASE PublishQuestion(t)
  <2>1. PICK p \in {"ask", "addAnswer"} : Becomes(t, p)
    BY <1>4 DEF PublishQuestion
  <2>2. /\ pc[t] # "idle"
        /\ UNCHANGED <<call, calls, clock, history, restoring, booting, up, rows, round, errors>>
    BY <1>4 DEF PublishQuestion, PublishStep, Publish, In, bootVars
  <2> QED
    BY <1>0, <2>1, <2>2, ThreadStep
<1>5. CASE PublishAnswer(t)
  <2>1. /\ pc[t] # "idle" /\ Becomes(t, "idle")
        /\ UNCHANGED <<call, calls, clock, history, restoring, booting, up, rows, round, errors>>
    BY <1>5 DEF PublishAnswer, PublishStep, Publish, In, bootVars
  <2> QED
    BY <1>0, <2>1, ThreadStep
<1>6. CASE PushPrompt(t)
  <2>1. /\ pc[t] # "idle" /\ Becomes(t, "ask")
        /\ UNCHANGED <<call, calls, clock, history, restoring, booting, up, rows, errors>>
    BY <1>6 DEF PushPrompt, In, queueVars, bootVars
  <2>2. round[t] + 1 \in 0..2
    <3>1. round[t] \in 0..2 /\ round[t] < 2
      BY <1>0, <1>6 DEF PushPrompt, In, ChatInv, ChatShape
    <3> QED
      BY <3>1
  <2>3. round' \in [Threads -> 0..2] /\ \A u \in Threads \ {t} : round'[u] = round[u]
    BY <1>0, <1>6, <2>2 DEF PushPrompt
  <2> QED
    BY <1>0, <2>1, <2>3, ThreadStep
<1>7. CASE Answered(t)
  <2>1. PICK p \in {"addAnswer", "popPrompt"} : Becomes(t, p) /\ (p = "popPrompt" => round[t] # 0)
    BY <1>7 DEF Answered
  <2>2. /\ pc[t] # "idle"
        /\ UNCHANGED <<call, calls, clock, history, restoring, booting, up, rows, round, errors>>
    BY <1>7 DEF Answered, In, queueVars, bootVars
  <2>3. p = "popPrompt" => round[t] > 0
    BY <1>0, <2>1
  <2> QED
    BY <1>0, <2>1, <2>2, <2>3, ThreadStep
<1>8. CASE PopPrompt(t)
  <2>1. PICK p \in {"addQuestion", "pushPrompt"} :
               Becomes(t, p) /\ (p = "pushPrompt" => round[t] = 1)
    BY <1>8 DEF PopPrompt
  <2>2. /\ pc[t] # "idle"
        /\ UNCHANGED <<call, calls, clock, history, restoring, booting, up, rows, round, errors>>
    BY <1>8 DEF PopPrompt, In, queueVars, bootVars
  <2>3. p = "pushPrompt" => round[t] < 2
    BY <2>1
  <2> QED
    BY <1>0, <2>1, <2>2, <2>3, ThreadStep
<1>9. CASE Throw(t)
  <2>1. UNCHANGED <<call, calls, clock, history, restoring, booting, round>> /\ Becomes(t, "idle")
    BY <1>9 DEF Throw, bootVars
  <2>2. UNCHANGED <<up, rows>> /\ pc[t] # "idle"
    <3>1. CASE pc[t] = "ask" /\ UNCHANGED queueVars
      BY <3>1 DEF queueVars
    <3>2. ASSUME NEW role \in {"user", "ai"},
                 pc[t] = IF role = "user" THEN "publishQuestion" ELSE "publishAnswer",
                 UNCHANGED queueVars \/ Publish(Pushed(t, role))
          PROVE  UNCHANGED <<up, rows>> /\ pc[t] # "idle"
      BY <3>2 DEF queueVars, Publish
    <3> QED
      BY <1>9, <3>1, <3>2 DEF Throw
  <2>3. errors' \in 0..MaxErrors
    BY <1>0, <1>9, Bounds DEF Throw
  <2> QED
    BY <1>0, <2>1, <2>2, <2>3, ThreadStep
<1> QED
  BY <1>1, <1>2, <1>3, <1>4, <1>5, <1>6, <1>7, <1>8, <1>9 DEF Chat

\* The rows are only added to.
LEMMA RowsStay ==
  ASSUME TInv, QueueStep
  PROVE  /\ UNCHANGED <<up, chatVars, bootVars>> /\ 1..Len(rows) \subseteq 1..Len(rows')
         /\ ~up => rows' = rows
<1>1. UNCHANGED <<chatVars, bootVars>>
  BY DEF QueueStep
<1>2. /\ up' = up
      /\ \/ rows' = rows
         \/ /\ up
            /\ \E w \in Workers : wpc[w] = "handle" /\ rows' = Append(rows, unacked[w])
  BY DEF QueueStep, Broker, Requeue, Worker, WorkerStep, Connect, Deliver, Consume, Insert, Ack,
         Stop, Die, At
<1>3. ASSUME NEW w \in Workers, wpc[w] = "handle", rows' = Append(rows, unacked[w])
      PROVE  1..Len(rows) \subseteq 1..Len(rows')
  <2>1. rows \in Seq(Messages) /\ unacked[w] \in Messages
    BY <1>3 DEF TInv, QueueTypeOK
  <2>2. Len(rows') = Len(rows) + 1 /\ Len(rows) \in Nat
    BY <1>3, <2>1, AppendProperties
  <2> QED
    BY <2>2
<1> QED
  BY <1>1, <1>2, <1>3

LEMMA ProcessSteps ==
  ASSUME ChatInv, QueueStep \/ ProcessCrash \/ BeginRestore \/ RestoreMessage \/ Boot
  PROVE  ChatShape' /\ AllAdded'
<1>1. CASE QueueStep
  <2>1. UNCHANGED <<up, chatVars, bootVars>> /\ restoring' \subseteq 1..Len(rows')
    BY <1>1, RowsStay DEF bootVars, ChatInv, ChatShape
  <2>2. ChatShape'
    BY <2>1 DEF chatVars, bootVars, ChatInv, ChatShape
  <2>3. AllAdded'
    BY <2>1 DEF chatVars, ChatInv, AllAdded, Added
  <2> QED
    BY <2>2, <2>3
<1>2. CASE ProcessCrash
  <2>1. \A t \in Threads : pc'[t] = "idle"
    BY <1>2 DEF ProcessCrash
  <2>2. ChatShape'
    BY <1>2, <2>1 DEF ProcessCrash, ChatInv, ChatShape, PCs
  <2>3. AllAdded'
    BY <2>1 DEF AllAdded
  <2> QED
    BY <2>2, <2>3
<1>3. CASE BeginRestore
  <2>1. errors' \in 0..MaxErrors /\ restoring' \subseteq 1..Len(rows)
    BY <1>3, Bounds DEF BeginRestore, ChatInv, ChatShape
  <2>2. UNCHANGED <<rows, up, pc, call, round, calls, clock, history>> /\ ~up
    BY <1>3 DEF BeginRestore, queueVars
  <2>3. ChatShape'
    BY <2>1, <2>2 DEF ChatInv, ChatShape
  <2>4. AllAdded'
    BY <2>2 DEF ChatInv, AllAdded, Added
  <2> QED
    BY <2>3, <2>4
<1>4. CASE RestoreMessage
  <2>1. /\ UNCHANGED <<rows, up, booting, pc, call, round, calls, clock, history, errors>>
        /\ restoring' \subseteq restoring
    BY <1>4 DEF RestoreMessage, queueVars
  <2>2. ChatShape'
    BY <2>1 DEF ChatInv, ChatShape
  <2>3. AllAdded'
    BY <2>1 DEF ChatInv, AllAdded, Added
  <2> QED
    BY <2>2, <2>3
<1>5. CASE Boot
  <2>1. UNCHANGED <<rows, chatVars, restoring>> /\ booting' = FALSE
    BY <1>5 DEF Boot, Start
  <2>2. ChatShape'
    BY <2>1 DEF chatVars, ChatInv, ChatShape
  <2>3. AllAdded'
    BY <2>1 DEF chatVars, ChatInv, AllAdded, Added
  <2> QED
    BY <2>2, <2>3
<1> QED
  BY <1>1, <1>2, <1>3, <1>4, <1>5

LEMMA StepChat ==
  ASSUME ChatInv, [Next]_vars
  PROVE  ChatInv'
<1>1. TInv'
  BY QueuePart, TypeStep DEF ChatInv
<1>2. CASE UNCHANGED vars
  <2>1. UNCHANGED <<queueVars, chatVars, bootVars>>
    BY <1>2 DEF vars
  <2>2. ChatShape'
    BY <2>1 DEF queueVars, chatVars, bootVars, ChatInv, ChatShape
  <2>3. AllAdded'
    BY <2>1 DEF chatVars, ChatInv, AllAdded, Added
  <2> QED
    BY <1>1, <2>2, <2>3 DEF ChatInv
<1>3. ASSUME NEW t \in Threads, Chat(t) PROVE ChatInv'
  BY <1>1, <1>3, ThreadChat DEF ChatInv
<1>4. CASE QueueStep \/ ProcessCrash \/ BeginRestore \/ RestoreMessage \/ Boot
  BY <1>1, <1>4, ProcessSteps DEF ChatInv
<1> QED
  BY <1>2, <1>3, <1>4 DEF Next

\* The values of AIHelper's state and what a thread's place in chat() says of the
\* call it makes and of its prompts.
THEOREM ChatTypeCorrect == ChatSpec => []ChatTypeOK
<1>1. ChatInv => ChatTypeOK
  BY DEF ChatInv, ChatShape, ChatTypeOK
<1> QED
  BY <1>1, InitChat, StepChat, PTL DEF ChatSpec

\* To the queue a chat session is nothing but a run of MsgQueue: chat() only
\* publishes, a crash stops the workers and readDataFromMySQL only reads.
THEOREM ChatIsQueueUser == ChatSpec => Spec
<1>1. Init => InitQueue
  BY DEF Init
<1>2. ChatInv /\ [Next]_vars => [QueueNext]_queueVars
  BY QueuePart DEF ChatInv
<1> QED
  BY <1>1, <1>2, InitChat, StepChat, PTL DEF ChatSpec, Spec

\* Delivery at least once, for the messages of a chat session.
THEOREM ChatNoLoss == ChatSpec => []NoLoss
BY ChatIsQueueUser, MsgQueueNoLoss, PTL

\* What the broker took had been added to the dialogue.
AcceptedSaid == accepted \subseteq Values(history)

\* The dialogue grows by entries that bear the time.
LEMMA HistorySteps ==
  ASSUME ChatInv, [Next]_vars
  PROVE  \/ UNCHANGED <<history, clock>>
         \/ /\ up /\ clock' \in {clock, clock + 1}
            /\ \E e \in Entries : e.ts = clock' /\ history' = Append(history, e)
<1>1. ASSUME NEW t \in Threads, NEW role \in {"user", "ai"}, Push(t, role), pc[t] # "idle"
      PROVE  /\ clock' \in {clock, clock + 1}
             /\ \E e \in Entries : e.ts = clock' /\ history' = Append(history, e)
  <2>1. /\ clock' \in {clock, clock + 1} /\ clock' \in 0..MaxClock
        /\ history' = Append(history, Entry(call[t], role, clock'))
    BY <1>1, Bounds DEF Push, ChatInv, ChatShape
  <2>2. Entry(call[t], role, clock') \in Entries /\ Entry(call[t], role, clock').ts = clock'
    BY <1>1, <2>1, Bounds DEF Entries, Entry, ChatInv, ChatShape
  <2> QED
    BY <2>1, <2>2
<1>2. ASSUME NEW t \in Threads, AddQuestion(t) \/ AddAnswer(t)
      PROVE  /\ up /\ clock' \in {clock, clock + 1}
             /\ \E e \in Entries : e.ts = clock' /\ history' = Append(history, e)
  <2>1. up /\ pc[t] # "idle" /\ \E role \in {"user", "ai"} : Push(t, role)
    BY <1>2 DEF AddQuestion, AddAnswer, In
  <2> QED
    BY <1>1, <2>1
<1>3. ASSUME NEW t \in Threads, Chat(t), ~AddQuestion(t), ~AddAnswer(t)
      PROVE  UNCHANGED <<history, clock>>
  BY <1>3 DEF Chat, Begin, PublishQuestion, PublishAnswer, PublishStep, PushPrompt, Answered,
              PopPrompt, Throw
<1>4. CASE QueueStep \/ ProcessCrash \/ BeginRestore \/ RestoreMessage \/ Boot
  BY <1>4 DEF QueueStep, ProcessCrash, BeginRestore, RestoreMessage, Boot, chatVars
<1>5. CASE UNCHANGED vars
  BY <1>5 DEF vars, chatVars
<1> QED
  BY <1>2, <1>3, <1>4, <1>5 DEF Next

LEMMA StepAccepted ==
  ASSUME ChatInv, AcceptedSaid, [Next]_vars
  PROVE  AcceptedSaid'
<1>1. Values(history) \subseteq Values(history')
  <2>1. history \in Seq(Entries)
    BY DEF ChatInv, ChatShape
  <2>2. ASSUME NEW e \in Entries, history' = Append(history, e)
        PROVE  Values(history) \subseteq Values(history')
    BY <2>1, <2>2, ValuesAppend
  <2> QED
    BY <2>2, HistorySteps
<1>2. accepted' \subseteq accepted \union Values(history)
  <2>1. ASSUME NEW t \in Threads, Chat(t) PROVE accepted' \subseteq accepted \union Values(history)
    BY <2>1, ChatStepPublishes DEF ChatInv, queueVars, Publish, Enqueue
  <2>2. CASE QueueStep
    BY <2>2 DEF QueueStep, Broker, Requeue, Worker, WorkerStep, Connect, Deliver, Consume, Insert,
                Ack, Stop, Die
  <2>3. CASE ProcessCrash \/ BeginRestore \/ RestoreMessage \/ Boot
    BY <2>3 DEF ProcessCrash, Crash, BeginRestore, RestoreMessage, Boot, Start, queueVars
  <2>4. CASE UNCHANGED vars
    BY <2>4 DEF vars, queueVars
  <2> QED
    BY <2>1, <2>2, <2>3, <2>4 DEF Next
<1> QED
  BY <1>1, <1>2 DEF AcceptedSaid

\* What the table holds was said in this session: no prompt and nothing that was
\* never added to the history, whatever crashed in between.
THEOREM TableHoldsDialogue == ChatSpec => []OnlyDialogueStored
<1>1. Init => AcceptedSaid /\ DInv
  BY InvariantInit DEF Init, InitQueue, AcceptedSaid
<1>2. ChatInv /\ DInv /\ [Next]_vars => DInv'
  BY QueuePart, InvariantStep DEF ChatInv
<1>3. DInv /\ AcceptedSaid => OnlyDialogueStored
  BY DEF DInv, Known, AcceptedSaid, OnlyDialogueStored
<1> QED
  BY <1>1, <1>2, <1>3, InitChat, StepChat, StepAccepted, PTL DEF ChatSpec

-----------------------------------------------------------------------------
(* A restart.                                                              *)

\* The clock does not go back.
Chronicle ==
  /\ \A i \in 1..Len(history) : history[i].ts <= clock
  /\ \A i, j \in 1..Len(history) : i < j => history[i].ts <= history[j].ts

\* The first k entries of the dialogue are back, and the rows of the others, and
\* no others, have still to be read.
BackTo(k) ==
  /\ messages = SubSeq(history, 1, k)
  /\ restoring = {j \in 1..Len(rows) : \A i \in 1..k : history[i] # rows[j]}

Restored ==
  /\ ~up /\ ~booting => messages = <<>>
  /\ booting /\ errors = 0 /\ Complete => \E k \in 0..Len(history) : BackTo(k)

LEMMA InitRestart == Init => Chronicle /\ Restored
BY DEF Init, InitQueue, Chronicle, Restored

LEMMA StepChronicle ==
  ASSUME ChatInv, Chronicle, [Next]_vars
  PROVE  Chronicle'
<1>1. CASE UNCHANGED <<history, clock>>
  BY <1>1 DEF Chronicle
<1>2. ASSUME NEW e \in Entries, clock' \in {clock, clock + 1}, e.ts = clock',
             history' = Append(history, e)
      PROVE  Chronicle'
  <2>1. history \in Seq(Entries) /\ clock \in Nat
    BY Bounds DEF ChatInv, ChatShape
  <2>2. \A i \in 1..Len(history) : history[i].ts \in Nat
    <3>1. \A i \in 1..Len(history) : history[i] \in Entries
      BY <2>1, ElementOfSeq
    <3> QED
      BY <3>1, Bounds DEF Entries
  <2>3. /\ Len(history') = Len(history) + 1 /\ Len(history) \in Nat
        /\ \A i \in 1..Len(history) : history'[i] = history[i]
        /\ history'[Len(history) + 1] = e
    BY <1>2, <2>1, AppendProperties
  <2>4. \A i \in 1..Len(history') : history'[i].ts <= clock'
    <3> TAKE i \in 1..Len(history')
    <3>1. CASE i = Len(history) + 1
      BY <1>2, <2>1, <2>3, <3>1
    <3>2. CASE i # Len(history) + 1
      <4>1. i \in 1..Len(history)
        BY <2>3, <3>2
      <4>2. history[i].ts <= clock /\ history'[i] = history[i]
        BY <2>3, <4>1 DEF Chronicle
      <4> QED
        BY <1>2, <2>1, <2>2, <4>1, <4>2
    <3> QED
      BY <3>1, <3>2
  <2>5. \A i, j \in 1..Len(history') : i < j => history'[i].ts <= history'[j].ts
    <3> TAKE i, j \in 1..Len(history')
    <3> HAVE i < j
    <3>1. i \in 1..Len(history) /\ history'[i] = history[i]
      BY <2>3
    <3>2. CASE j = Len(history) + 1
      <4>1. history'[i].ts <= clock'
        BY <2>4
      <4> QED
        BY <1>2, <2>3, <3>2, <4>1
    <3>3. CASE j # Len(history) + 1
      <4>1. j \in 1..Len(history) /\ history'[j] = history[j]
        BY <2>3, <3>3
      <4> QED
        BY <3>1, <4>1 DEF Chronicle
    <3> QED
      BY <3>2, <3>3
  <2> QED
    BY <2>4, <2>5 DEF Chronicle
<1> QED
  BY <1>1, <1>2, HistorySteps

\* A sequence whose members are as many as its places has none twice.
LEMMA AsManyMembers ==
  ASSUME NEW S, NEW s \in Seq(S), NEW t \in Seq(S), Len(s) = Len(t), Values(s) = Values(t),
         \A i, j \in 1..Len(s) : s[i] = s[j] => i = j
  PROVE  \A i, j \in 1..Len(t) : t[i] = t[j] => i = j
<1> DEFINE N == 1..Len(s)
           V == Values(s)
<1>1. Len(s) \in Int /\ 1 \in Int
  OBVIOUS
<1>2. IsFiniteSet(N)
  BY <1>1, FS_Interval
<1>3. s \in [N -> V] /\ t \in [N -> V]
  <2>1. s \in [1..Len(s) -> S] /\ t \in [1..Len(t) -> S]
    OBVIOUS
  <2>2. (\A i \in N : s[i] \in V) /\ (\A i \in N : t[i] \in V)
    BY DEF Values
  <2> QED
    BY <2>1, <2>2
<1>4. s \in Surjection(N, V) /\ t \in Surjection(N, V)
  <2>1. (\A v \in V : \E i \in N : s[i] = v) /\ (\A v \in V : \E i \in N : t[i] = v)
    BY DEF Values
  <2> QED
    BY <1>3, <2>1 DEF Surjection
<1>5. \A i, j \in N : s[i] = s[j] => i = j
  OBVIOUS
<1> HIDE DEF N, V
<1>9. s \in Injection(N, V)
  BY <1>3, <1>5 DEF Injection, IsInjective
<1>6. Cardinality(V) = Cardinality(N)
  BY <1>2, <1>4, <1>9, FS_Surjection
<1>7. t \in Injection(N, V)
  BY <1>2, <1>4, <1>6, FS_Surjection
<1>8. \A i, j \in N : t[i] = t[j] => i = j
  <2>1. DOMAIN t = N
    BY <1>3
  <2> QED
    BY <1>7, <2>1 DEF Injection, IsInjective
<1> QED
  BY <1>8 DEF N

LEMMA FrontStep ==
  ASSUME NEW S, NEW s \in Seq(S), NEW k \in Nat, k + 1 <= Len(s)
  PROVE  Append(SubSeq(s, 1, k), s[k + 1]) = SubSeq(s, 1, k + 1)
<1>1. k + 1 \in 1..Len(s) /\ s[k + 1] \in S /\ \A i \in 1..Len(s) : s[i] \in S
  BY ElementOfSeq
<1>2. /\ SubSeq(s, 1, k) \in Seq(S) /\ Len(SubSeq(s, 1, k)) = k
      /\ \A i \in 1..k : SubSeq(s, 1, k)[i] = s[i]
  BY <1>1
<1>3. /\ SubSeq(s, 1, k + 1) \in Seq(S) /\ Len(SubSeq(s, 1, k + 1)) = k + 1
      /\ \A i \in 1..(k + 1) : SubSeq(s, 1, k + 1)[i] = s[i]
  BY <1>1
<1> DEFINE a == SubSeq(s, 1, k)
           b == SubSeq(s, 1, k + 1)
<1>4. /\ a \in Seq(S) /\ Len(a) = k /\ \A i \in 1..k : a[i] = s[i]
      /\ b \in Seq(S) /\ Len(b) = k + 1 /\ \A i \in 1..(k + 1) : b[i] = s[i]
  BY <1>2, <1>3
<1> HIDE DEF a, b
<1>5. /\ Append(a, s[k + 1]) \in Seq(S) /\ Len(Append(a, s[k + 1])) = k + 1
      /\ \A i \in 1..k : Append(a, s[k + 1])[i] = a[i]
      /\ Append(a, s[k + 1])[k + 1] = s[k + 1]
  BY <1>1, <1>4, AppendProperties
<1>6. \A i \in 1..(k + 1) : Append(a, s[k + 1])[i] = b[i]
  BY <1>4, <1>5
<1>7. Append(a, s[k + 1]) = b
  BY <1>4, <1>5, <1>6, SeqEqual
<1> QED
  BY <1>7 DEF a, b

\* The row that ORDER BY ts puts next is the next entry of the dialogue.
LEMMA NextIsNext ==
  ASSUME ChatInv, Chronicle, Complete, NEW k \in 0..Len(history), BackTo(k),
         NEW r \in restoring, \A j \in restoring : rows[r].ts <= rows[j].ts
  PROVE  k + 1 <= Len(history) /\ rows[r] = history[k + 1]
<1>1. history \in Seq(Entries) /\ Len(history) \in Nat
  BY DEF ChatInv, ChatShape
<1>2. r \in 1..Len(rows) /\ \A i \in 1..k : history[i] # rows[r]
  BY DEF BackTo
<1>3. PICK m \in 1..Len(history) : history[m] = rows[r]
  BY <1>2 DEF Complete, Values
<1>4. m > k
  BY <1>1, <1>2, <1>3
<1>5. k + 1 \in 1..Len(history)
  BY <1>1, <1>3, <1>4
<1>6. PICK j \in 1..Len(rows) : rows[j] = history[k + 1]
  BY <1>5 DEF Complete, Values
<1>7. j \in restoring
  <2>1. \A i \in 1..k : history[i] # history[k + 1]
    <3> TAKE i \in 1..k
    <3>1. i \in 1..Len(history) /\ i # k + 1
      BY <1>1, <1>5
    <3> QED
      BY <1>1, <1>5, <3>1 DEF Complete
  <2> QED
    BY <1>6, <2>1 DEF BackTo
<1>8. history[m].ts <= history[k + 1].ts
  BY <1>3, <1>6, <1>7
<1>9. history[k + 1].ts \in Nat /\ history[m].ts \in Nat
  <2>1. \A i \in 1..Len(history) : history[i] \in Entries
    BY <1>1, ElementOfSeq
  <2> QED
    BY <1>5, <2>1, Bounds DEF Entries
<1>10. m = k + 1
  <2>1. CASE m # k + 1
    <3>1. k + 1 < m
      BY <1>1, <1>4, <2>1
    <3>2. history[k + 1].ts <= history[m].ts
      BY <1>5, <3>1 DEF Chronicle
    <3>3. history[k + 1].ts = history[m].ts
      BY <1>8, <1>9, <3>2
    <3>4. DOMAIN history = 1..Len(history)
      BY <1>1
    <3> QED
      BY <1>5, <2>1, <3>3, <3>4 DEF Complete
  <2> QED
    BY <2>1
<1> QED
  BY <1>3, <1>5, <1>10

LEMMA RestoreStep ==
  ASSUME ChatInv, Chronicle, Restored, RestoreMessage
  PROVE  Restored'
<1>1. PICK r \in restoring : /\ \A j \in restoring : rows[r].ts <= rows[j].ts
                             /\ messages' = Append(messages, rows[r])
                             /\ restoring' = restoring \ {r}
  BY DEF RestoreMessage
<1>2. UNCHANGED <<rows, history, up, booting, errors>> /\ booting
  BY DEF RestoreMessage, queueVars
<1>3. Complete' = Complete
  BY <1>2 DEF Complete
<1> SUFFICES ASSUME errors = 0, Complete
             PROVE  \E k \in 0..Len(history') : BackTo(k)'
  BY <1>2, <1>3 DEF Restored
<1>4. PICK k \in 0..Len(history) : BackTo(k)
  BY <1>2 DEF Restored
<1>5. k + 1 <= Len(history) /\ rows[r] = history[k + 1]
  BY <1>1, <1>4, NextIsNext
<1>6. history \in Seq(Entries) /\ rows \in Seq(Messages) /\ k \in Nat
  BY DEF ChatInv, ChatShape, TInv, QueueTypeOK
<1>7. messages' = SubSeq(history, 1, k + 1)
  BY <1>1, <1>4, <1>5, <1>6, FrontStep DEF BackTo
<1>8. \A i, j \in 1..Len(rows) : rows[i] = rows[j] => i = j
  <2>1. history \in Seq(Messages)
    BY <1>6, ChatAssumption
  <2>2. \A i, j \in 1..Len(history) : history[i] = history[j] => i = j
    BY <1>6 DEF Complete
  <2>3. Len(history) = Len(rows) /\ Values(history) = Values(rows)
    BY DEF Complete
  <2> QED
    BY <1>6, <2>1, <2>2, <2>3, AsManyMembers
<1>9. r \in 1..Len(rows) /\ \A i \in 1..(k + 1) : i \in 1..k \/ i = k + 1
  BY <1>4, <1>6 DEF BackTo
<1>10. restoring' = {j \in 1..Len(rows) : \A i \in 1..(k + 1) : history[i] # rows[j]}
  <2>1. ASSUME NEW j \in 1..Len(rows), \A i \in 1..(k + 1) : history[i] # rows[j]
        PROVE  j \in restoring'
    <3>1. k + 1 \in 1..(k + 1) /\ \A i \in 1..k : i \in 1..(k + 1)
      BY <1>6
    <3>2. j # r /\ \A i \in 1..k : history[i] # rows[j]
      BY <1>5, <2>1, <3>1
    <3> QED
      BY <1>1, <1>4, <3>2 DEF BackTo
  <2>2. ASSUME NEW j \in restoring'
        PROVE  j \in 1..Len(rows) /\ \A i \in 1..(k + 1) : history[i] # rows[j]
    <3>1. j # r /\ j \in 1..Len(rows) /\ \A i \in 1..k : history[i] # rows[j]
      BY <1>1, <1>4 DEF BackTo
    <3>2. history[k + 1] # rows[j]
      BY <1>5, <1>8, <1>9, <3>1
    <3> QED
      BY <1>9, <3>1, <3>2
  <2> QED
    BY <1>1, <1>4, <2>1, <2>2 DEF BackTo
<1>11. BackTo(k + 1)'
  BY <1>2, <1>7, <1>10 DEF BackTo
<1>12. k + 1 \in 0..Len(history')
  BY <1>2, <1>5, <1>6
<1> QED
  BY <1>11, <1>12

LEMMA StepRestored ==
  ASSUME ChatInv, Chronicle, Restored, [Next]_vars
  PROVE  Restored'
<1>1. ASSUME NEW t \in Threads, Chat(t) PROVE Restored'
  <2>1. up /\ up' = up /\ booting' = booting
    <3>1. up /\ booting' = booting
      BY <1>1 DEF Chat, Begin, AddQuestion, PublishQuestion, AddAnswer, PublishAnswer, Push,
                  PublishStep, PushPrompt, Answered, PopPrompt, Throw, In, bootVars
    <3>2. up' = up
      BY <1>1, ChatStepPublishes DEF ChatInv, queueVars, Publish
    <3> QED
      BY <3>1, <3>2
  <2>2. ~booting
    BY <2>1 DEF ChatInv, ChatShape
  <2> QED
    BY <2>1, <2>2 DEF Restored
<1>2. CASE QueueStep
  <2>1. UNCHANGED <<up, messages, errors, history, restoring, booting>> /\ (~up => rows' = rows)
    BY <1>2, RowsStay DEF ChatInv, chatVars, bootVars
  <2>2. CASE up
    BY <2>1, <2>2 DEF Restored, ChatInv, ChatShape
  <2>3. CASE ~up
    <3>1. \A k : BackTo(k)' = BackTo(k)
      BY <2>1, <2>3 DEF BackTo
    <3>2. Complete' = Complete
      BY <2>1, <2>3 DEF Complete
    <3> QED
      BY <2>1, <3>1, <3>2 DEF Restored
  <2> QED
    BY <2>2, <2>3
<1>3. CASE ProcessCrash
  BY <1>3 DEF ProcessCrash, Restored
<1>4. CASE BeginRestore
  <2>1. booting' /\ messages = <<>> /\ UNCHANGED <<rows, messages, history, up>>
    BY <1>4 DEF BeginRestore, Restored, queueVars
  <2>2. history \in Seq(Entries) /\ errors \in Nat
    BY Bounds DEF ChatInv, ChatShape
  <2>3. errors' = 0 => restoring' = 1..Len(rows)
    BY <1>4, <2>2 DEF BeginRestore
  <2>4. SubSeq(history, 1, 0) = <<>> /\ 0 \in 0..Len(history)
    BY <2>2
  <2>5. {j \in 1..Len(rows) : \A i \in 1..0 : history[i] # rows[j]} = 1..Len(rows)
    OBVIOUS
  <2>6. errors' = 0 => BackTo(0)'
    BY <2>1, <2>3, <2>4, <2>5 DEF BackTo
  <2> QED
    BY <2>1, <2>4, <2>6 DEF Restored
<1>5. CASE RestoreMessage
  BY <1>5, RestoreStep
<1>6. CASE Boot
  BY <1>6 DEF Boot, Start, Restored
<1>7. CASE UNCHANGED vars
  <2>1. UNCHANGED <<up, messages, errors, history, restoring, booting, rows>>
    BY <1>7 DEF vars, queueVars, chatVars, bootVars
  <2> QED
    BY <2>1 DEF Restored, BackTo, Complete
<1> QED
  BY <1>1, <1>2, <1>3, <1>4, <1>5, <1>6, <1>7 DEF Next

\* A restart brings back the dialogue as it was added, if the rows are all there
\* once and no two were added in the same millisecond: the asynchronous inserts
\* may reach the table in another order, ORDER BY ts puts them right.
THEOREM RestartRestoresDialogue == ChatSpec => RestartKeepsDialogue
<1>1. ASSUME ChatInv, Restored, Boot, Complete, errors = 0
      PROVE  messages = history
  <2>1. booting /\ restoring = {}
    BY <1>1 DEF Boot
  <2>2. PICK k \in 0..Len(history) : BackTo(k)
    BY <1>1, <2>1 DEF Restored
  <2>3. history \in Seq(Entries)
    BY <1>1 DEF ChatInv, ChatShape
  <2>4. k = Len(history)
    <3>1. CASE k # Len(history)
      <4>1. k + 1 \in 1..Len(history)
        BY <2>3, <3>1
      <4>2. PICK j \in 1..Len(rows) : rows[j] = history[k + 1]
        BY <1>1, <4>1 DEF Complete, Values
      <4>3. PICK i \in 1..k : history[i] = rows[j]
        BY <2>1, <2>2 DEF BackTo
      <4>4. i \in 1..Len(history) /\ i # k + 1 /\ DOMAIN history = 1..Len(history)
        BY <2>3, <4>1
      <4> QED
        BY <1>1, <4>1, <4>2, <4>3, <4>4 DEF Complete
    <3> QED
      BY <3>1
  <2>5. SubSeq(history, 1, Len(history)) = history
    BY <2>3, SubSeqFull
  <2> QED
    BY <2>2, <2>4, <2>5 DEF BackTo
<1>2. ChatInv /\ Restored /\ [Next]_vars => [Boot /\ Complete /\ errors = 0 => messages = history]_vars
  BY <1>1
<1> QED
  BY <1>2, InitChat, StepChat, InitRestart, StepChronicle, StepRestored, PTL
  DEF ChatSpec, RestartKeepsDialogue

-----------------------------------------------------------------------------
(* One thread.                                                             *)

Alternates(s) == \A i \in 1..Len(s) : s[i].role = IF i % 2 = 1 THEN "user" ELSE "ai"

\* Where thread t is between a question and its answer, and where its prompt is the
\* last entry.
Unanswered(t) == \/ pc[t] \in {"publishQuestion", "addAnswer"}
                 \/ pc[t] = "ask" /\ round[t] = 0
Prompting(t)  == \/ pc[t] = "popPrompt"
                 \/ pc[t] = "ask" /\ round[t] > 0

Dialogue(t) ==
  /\ up
  /\ Alternates(history)
  /\ Len(history) % 2 = IF Unanswered(t) THEN 1 ELSE 0
  /\ messages = IF Prompting(t) THEN Append(history, Entry(call[t], "prompt", 0)) ELSE history

Alone == errors = 0 /\ faults = 0 => \A t \in Threads : Threads = {t} => Dialogue(t)

LEMMA Parity ==
  \A n \in Nat : /\ n % 2 = 0 => (n + 1) % 2 = 1
                /\ n % 2 = 1 => (n + 1) % 2 = 0
OBVIOUS

LEMMA InitAlone == Init => Alone
<1> SUFFICES ASSUME Init, NEW t \in Threads PROVE Dialogue(t)
  BY DEF Alone
<1>1. up /\ history = <<>> /\ messages = <<>> /\ pc[t] = "idle"
  BY DEF Init, InitQueue
<1>2. Len(<<>>) % 2 = 0 /\ Alternates(<<>>)
  BY DEF Alternates
<1> QED
  BY <1>1, <1>2 DEF Dialogue, Unanswered, Prompting

LEMMA PushAlternates ==
  ASSUME ChatInv, NEW t \in Threads, Dialogue(t), NEW role \in {"user", "ai"}, Push(t, role),
         ~Prompting(t), Unanswered(t) <=> role = "ai"
  PROVE  /\ Alternates(history') /\ Len(history') % 2 = (IF role = "user" THEN 1 ELSE 0)
         /\ messages' = history'
<1>1. PICK now \in {clock, clock + 1} :
        /\ messages' = Append(messages, Entry(call[t], role, now))
        /\ history' = Append(history, Entry(call[t], role, now))
  BY DEF Push
<1> DEFINE e == Entry(call[t], role, now)
<1>2. e.role = role
  BY DEF Entry
<1>3. messages = history /\ messages' = Append(messages, e) /\ history' = Append(history, e)
  BY <1>1 DEF Dialogue
<1> HIDE DEF e
<1>4. history \in Seq(Entries) /\ Len(history) \in Nat
  BY DEF ChatInv, ChatShape
<1>5. /\ Len(history') = Len(history) + 1 /\ history'[Len(history) + 1] = e
      /\ \A i \in 1..Len(history) : history'[i] = history[i]
  BY <1>3, <1>4
<1>6. /\ role = "user" => Len(history) % 2 = 0
      /\ role = "ai" => Len(history) % 2 = 1
  BY DEF Dialogue
<1>7. /\ role = "user" => (Len(history) + 1) % 2 = 1
      /\ role = "ai" => (Len(history) + 1) % 2 = 0
  BY <1>4, <1>6, Parity
<1>8. Alternates(history')
  <2> SUFFICES ASSUME NEW i \in 1..Len(history')
               PROVE  history'[i].role = IF i % 2 = 1 THEN "user" ELSE "ai"
    BY DEF Alternates
  <2>1. CASE i = Len(history) + 1
    BY <1>2, <1>5, <1>7, <2>1
  <2>2. CASE i # Len(history) + 1
    <3>1. i \in 1..Len(history)
      BY <1>4, <1>5, <2>2
    <3> QED
      BY <1>5, <3>1 DEF Dialogue, Alternates
  <2> QED
    BY <2>1, <2>2
<1> QED
  BY <1>3, <1>5, <1>7, <1>8

LEMMA ChatAlone ==
  ASSUME ChatInv, NEW t \in Threads, Dialogue(t), Chat(t), errors' = 0
  PROVE  Dialogue(t)'
<1>0. /\ up' = up /\ up
      /\ \A p : Becomes(t, p) => pc'[t] = p
  <2>1. up' = up
    BY ChatStepPublishes DEF ChatInv, queueVars, Publish
  <2> QED
    BY <2>1 DEF Becomes, ChatInv, ChatShape, Dialogue
<1>1. CASE Begin(t)
  <2>1. /\ pc[t] = "idle" /\ pc'[t] \in {"addQuestion", "pushPrompt"}
        /\ UNCHANGED <<history, messages>>
    BY <1>0, <1>1 DEF Begin, In
  <2> QED
    BY <1>0, <2>1 DEF Dialogue, Unanswered, Prompting
<1>2. CASE AddQuestion(t)
  <2>1. pc[t] = "addQuestion" /\ pc'[t] = "publishQuestion" /\ Push(t, "user")
    BY <1>0, <1>2 DEF AddQuestion, In
  <2>2. /\ Alternates(history') /\ Len(history') % 2 = 1 /\ messages' = history'
    BY <2>1, PushAlternates DEF Unanswered, Prompting
  <2> QED
    BY <1>0, <2>1, <2>2 DEF Dialogue, Unanswered, Prompting
<1>3. CASE AddAnswer(t)
  <2>1. pc[t] = "addAnswer" /\ pc'[t] = "publishAnswer" /\ Push(t, "ai")
    BY <1>0, <1>3 DEF AddAnswer, In
  <2>2. /\ Alternates(history') /\ Len(history') % 2 = 0 /\ messages' = history'
    BY <2>1, PushAlternates DEF Unanswered, Prompting
  <2> QED
    BY <1>0, <2>1, <2>2 DEF Dialogue, Unanswered, Prompting
<1>4. CASE PublishQuestion(t)
  <2>1. /\ pc[t] = "publishQuestion" /\ UNCHANGED <<history, messages, round>>
        /\ pc'[t] = IF round[t] = 0 THEN "ask" ELSE "addAnswer"
    BY <1>0, <1>4 DEF PublishQuestion, PublishStep, In
  <2> QED
    BY <1>0, <2>1 DEF Dialogue, Unanswered, Prompting
<1>5. CASE PublishAnswer(t)
  <2>1. pc[t] = "publishAnswer" /\ pc'[t] = "idle" /\ UNCHANGED <<history, messages>>
    BY <1>0, <1>5 DEF PublishAnswer, PublishStep, In
  <2> QED
    BY <1>0, <2>1 DEF Dialogue, Unanswered, Prompting
<1>6. CASE PushPrompt(t)
  <2>1. /\ pc[t] = "pushPrompt" /\ pc'[t] = "ask" /\ UNCHANGED <<history, call>>
        /\ messages' = Append(messages, Entry(call[t], "prompt", 0))
    BY <1>0, <1>6 DEF PushPrompt, In
  <2>2. round'[t] = round[t] + 1 /\ round[t] \in 0..2
    BY <1>6 DEF PushPrompt, ChatInv, ChatShape
  <2>3. round'[t] > 0 /\ round'[t] # 0
    BY <2>2
  <2> QED
    BY <1>0, <2>1, <2>3 DEF Dialogue, Unanswered, Prompting
<1>7. CASE Answered(t)
  <2>1. /\ pc[t] = "ask" /\ UNCHANGED <<history, messages, round, call>>
        /\ pc'[t] = IF round[t] = 0 THEN "addAnswer" ELSE "popPrompt"
    BY <1>0, <1>7 DEF Answered, In
  <2>2. round[t] # 0 <=> round[t] > 0
    BY DEF ChatInv, ChatShape
  <2> QED
    BY <1>0, <2>1, <2>2 DEF Dialogue, Unanswered, Prompting
<1>8. CASE PopPrompt(t)
  <2>1. /\ pc[t] = "popPrompt" /\ history' = history
        /\ pc'[t] \in {"addQuestion", "pushPrompt"}
        /\ messages' = SubSeq(messages, 1, Len(messages) - 1)
    BY <1>0, <1>8 DEF PopPrompt, In
  <2> DEFINE x == Entry(call[t], "prompt", 0)
  <2>2. messages = Append(history, x)
    BY <2>1 DEF Dialogue, Prompting
  <2> HIDE DEF x
  <2>3. \A S : \A h \in Seq(S) : SubSeq(Append(h, x), 1, Len(Append(h, x)) - 1) = h
    OBVIOUS
  <2>4. messages' = history
    BY <2>1, <2>2, <2>3 DEF ChatInv, ChatShape
  <2> QED
    BY <1>0, <2>1, <2>4 DEF Dialogue, Unanswered, Prompting
<1>9. CASE Throw(t)
  BY <1>9 DEF Throw, ChatInv, ChatShape
<1> QED
  BY <1>1, <1>2, <1>3, <1>4, <1>5, <1>6, <1>7, <1>8, <1>9 DEF Chat

\* Failures are counted.
LEMMA FailuresGrow ==
  ASSUME ChatInv, [Next]_vars, errors' = 0, faults' = 0
  PROVE  errors = 0 /\ faults = 0
<1>0. errors \in Nat /\ faults \in Nat
  BY Bounds, MaxFaultsAssumption DEF ChatInv, ChatShape, TInv, QueueTypeOK
<1>1. errors' = errors \/ errors' = errors + 1
  BY DEF Next, Chat, Begin, AddQuestion, PublishQuestion, AddAnswer, PublishAnswer, Push, PublishStep,
         PushPrompt, Answered, PopPrompt, Throw, QueueStep, ProcessCrash, BeginRestore,
         RestoreMessage, Boot, chatVars, vars
<1>2. faults' = faults \/ faults' = faults + 1
  <2>1. [QueueNext]_queueVars
    BY QueuePart DEF ChatInv
  <2> QED
    BY <2>1 DEF QueueNext, Publish, Worker, WorkerStep, Connect, Deliver, Consume, Insert, Ack, Stop,
                Die, Broker, Requeue, Shutdown, Crash, Start, queueVars
<1> QED
  BY <1>0, <1>1, <1>2

LEMMA StepAlone ==
  ASSUME ChatInv, Alone, [Next]_vars
  PROVE  Alone'
<1> SUFFICES ASSUME errors' = 0, faults' = 0, NEW t \in Threads, Threads = {t}
             PROVE  Dialogue(t)'
  BY DEF Alone
<1>1. Dialogue(t) /\ up
  BY FailuresGrow DEF Alone, Dialogue
<1>2. ASSUME NEW u \in Threads, Chat(u) PROVE Dialogue(t)'
  BY <1>1, <1>2, ChatAlone
<1>3. CASE QueueStep
  <2>1. UNCHANGED <<up, history, messages, pc, call, round>>
    BY <1>3, RowsStay DEF ChatInv, chatVars
  <2> QED
    BY <1>1, <2>1 DEF Dialogue, Unanswered, Prompting
<1>4. CASE ProcessCrash
  <2>1. faults' = faults + 1 /\ faults \in Nat
    BY <1>4, MaxFaultsAssumption DEF ProcessCrash, Crash, ChatInv, TInv, QueueTypeOK
  <2> QED
    BY <2>1
<1>5. CASE BeginRestore \/ RestoreMessage \/ Boot
  BY <1>1, <1>5 DEF BeginRestore, RestoreMessage, Boot, ChatInv, ChatShape
<1>6. CASE UNCHANGED vars
  <2>1. UNCHANGED <<up, history, messages, pc, call, round>>
    BY <1>6 DEF vars, queueVars, chatVars
  <2> QED
    BY <1>1, <2>1 DEF Dialogue, Unanswered, Prompting
<1> QED
  BY <1>2, <1>3, <1>4, <1>5, <1>6 DEF Next

\* While requests come one after the other and nothing fails, the subscripts of
\* messages tell the speaker, as AIHelper.h says: however a call goes through its
\* one or two prompts, they are gone when it ends and one question and one answer
\* are there.
THEOREM DialogueAlternates == ChatSpec => []SequentialDialogue
<1>1. ChatInv /\ Alone => SequentialDialogue
  <2> SUFFICES ASSUME ChatInv, Alone, Cardinality(Threads) = 1, errors = 0, faults = 0, AllIdle
               PROVE  EvenUserOddAI /\ messages = history
    BY DEF SequentialDialogue, EvenUserOddAI
  <2>1. PICK t : Threads = {t}
    BY ChatAssumption, FS_Singleton
  <2>2. Dialogue(t) /\ pc[t] = "idle"
    BY <2>1 DEF Alone, AllIdle
  <2>3. messages = history /\ Alternates(history)
    BY <2>2 DEF Dialogue, Prompting
  <2>4. DOMAIN history = 1..Len(history)
    BY DEF ChatInv, ChatShape
  <2> QED
    BY <2>3, <2>4 DEF EvenUserOddAI, Alternates
<1> QED
  BY <1>1, InitChat, StepChat, InitAlone, StepAlone, PTL DEF ChatSpec
===============================================================================
