----------------------------- MODULE ChatHistory -----------------------------
(***************************************************************************)
(* One chat session: the messages of its AIHelper, the chat() calls the    *)
(* request threads make on it, their persistence through MsgQueue, and a   *)
(* restart that restores them from chat_message.                           *)
(*                                                                         *)
(* AIHelper has no lock: two requests of the same session run chat() on    *)
(* the same vector, so each access of messages is a step of its own.  An   *)
(* entry is [call, role, ts]: which chat() call wrote it, whether it is    *)
(* the user's question, the AI's answer or a temporary prompt, and its     *)
(* millisecond.  The contents of the strings play no part.                 *)
(***************************************************************************)
EXTENDS MsgQueue

CONSTANTS Threads,      \* request threads
          MaxCalls,     \* bound: chat() calls
          MaxClock,     \* bound: milliseconds
          MaxErrors     \* bound: exceptions thrown inside chat()

\* What chat() publishes.
Entries == [call : 1..MaxCalls, role : {"user", "ai"}, ts : 0..MaxClock]

ASSUME ChatAssumption == /\ IsFiniteSet(Threads) /\ Entries \subseteq Messages
                         /\ {MaxCalls, MaxClock, MaxErrors} \subseteq Nat

VARIABLES
  messages,    \* AIHelper::messages
  pc,          \* where each request thread is in chat()
  call,        \* the number of the call it makes
  round,       \* MCP: 1 for the first prompt, 2 for the one with the tool's result
  calls,       \* calls made so far
  clock,       \* system_clock, in ms
  history,     \* every question and answer added, in order
  restoring,   \* rows readDataFromMySQL has still to read
  booting,     \* readDataFromMySQL is running
  errors       \* exceptions so far

chatVars == <<messages, pc, call, round, calls, clock, history, errors>>
bootVars == <<restoring, booting>>
vars     == <<queueVars, chatVars, bootVars>>

Entry(c, r, t) == [call |-> c, role |-> r, ts |-> t]

Init == /\ InitQueue
        /\ messages = <<>> /\ history = <<>>
        /\ pc = [t \in Threads |-> "idle"]
        /\ call = [t \in Threads |-> 0]
        /\ round = [t \in Threads |-> 0]
        /\ calls = 0 /\ clock = 0 /\ errors = 0
        /\ restoring = {} /\ booting = FALSE

-----------------------------------------------------------------------------
(* chat().                                                                 *)

In(t, p)    == up /\ pc[t] = p
Becomes(t, p) == pc' = [pc EXCEPT ![t] = p]

\* A request arrives; the strategy of modelType is created.
Begin(t) == /\ In(t, "idle") /\ calls < MaxCalls
            /\ calls' = calls + 1
            /\ call' = [call EXCEPT ![t] = calls + 1]
            /\ round' = [round EXCEPT ![t] = 0]
            /\ \E p \in {"addQuestion", "pushPrompt"} : Becomes(t, p)   \* isMCPModel
            /\ UNCHANGED <<queueVars, bootVars, messages, clock, history, errors>>

\* addMessage: read the clock, push_back, ...
Push(t, role) ==
  /\ \E now \in {clock, clock + 1} :
       /\ now <= MaxClock
       /\ clock' = now
       /\ messages' = Append(messages, Entry(call[t], role, now))
       /\ history' = Append(history, Entry(call[t], role, now))
  /\ UNCHANGED <<queueVars, bootVars, call, round, calls, errors>>

\* Variant: the pushed entry is read back as messages.back().
PushedBack(t, role) == messages[Len(messages)]

\* ... then publish what was pushed.
Pushed(t, role) == CHOOSE e \in Values(history) : e.call = call[t] /\ e.role = role

PublishStep(t, role) ==
  /\ Publish(Pushed(t, role))
  /\ UNCHANGED <<bootVars, messages, call, round, calls, clock, history, errors>>

AddQuestion(t)     == In(t, "addQuestion") /\ Push(t, "user") /\ Becomes(t, "publishQuestion")
PublishQuestion(t) == /\ In(t, "publishQuestion") /\ PublishStep(t, "user")
                      /\ Becomes(t, IF round[t] = 0 THEN "ask" ELSE "addAnswer")
AddAnswer(t)       == In(t, "addAnswer") /\ Push(t, "ai") /\ Becomes(t, "publishAnswer")
PublishAnswer(t)   == /\ In(t, "publishAnswer") /\ PublishStep(t, "ai") /\ Becomes(t, "idle")

\* MCP: the prompt goes into messages for the time of the request to the model.
PushPrompt(t) == /\ In(t, "pushPrompt")
                 /\ messages' = Append(messages, Entry(call[t], "prompt", 0))
                 /\ round' = [round EXCEPT ![t] = @ + 1]
                 /\ Becomes(t, "ask")
                 /\ UNCHANGED <<queueVars, bootVars, call, calls, clock, history, errors>>

\* buildRequest, executeCurl, parseResponse.
Answered(t) == /\ In(t, "ask")
               /\ Becomes(t, IF round[t] = 0 THEN "addAnswer" ELSE "popPrompt")
               /\ UNCHANGED <<queueVars, bootVars, messages, call, round, calls,
                              clock, history, errors>>

\* Variants: the prompt stays; a second prompt may be followed by a third.
KeepPrompt(t) == /\ In(t, "popPrompt")
                 /\ \/ Becomes(t, "addQuestion")
                    \/ round[t] = 1 /\ Becomes(t, "pushPrompt")
                 /\ UNCHANGED <<queueVars, bootVars, messages, call, round, calls,
                                clock, history, errors>>

PopPromptAgain(t) == /\ In(t, "popPrompt")
                     /\ messages' = SubSeq(messages, 1, Len(messages) - 1)
                     /\ Becomes(t, "addQuestion") \/ Becomes(t, "pushPrompt")
                     /\ UNCHANGED <<queueVars, bootVars, call, round, calls, clock,
                                    history, errors>>

\* messages.pop_back(), whichever entry is last now.  After the first prompt the
\* model may ask for a tool; if it does not, or the tool fails, no second
\* prompt follows.
PopPrompt(t) == /\ In(t, "popPrompt")
                /\ messages' = SubSeq(messages, 1, Len(messages) - 1)
                /\ \/ Becomes(t, "addQuestion")
                   \/ round[t] = 1 /\ Becomes(t, "pushPrompt")
                /\ UNCHANGED <<queueVars, bootVars, call, round, calls, clock,
                               history, errors>>

\* An exception leaves chat(): the request to the model fails, or publish
\* throws, before or after the broker took the message.  Nothing is undone.
Throw(t) == /\ up /\ errors < MaxErrors
            /\ \/ /\ pc[t] = "ask" /\ UNCHANGED queueVars
               \/ \E role \in {"user", "ai"} :
                    /\ pc[t] = IF role = "user" THEN "publishQuestion" ELSE "publishAnswer"
                    /\ UNCHANGED queueVars \/ Publish(Pushed(t, role))
            /\ errors' = errors + 1
            /\ Becomes(t, "idle")
            /\ UNCHANGED <<bootVars, messages, call, round, calls, clock, history>>

Chat(t) == \/ Begin(t) \/ AddQuestion(t) \/ PublishQuestion(t) \/ AddAnswer(t)
           \/ PublishAnswer(t) \/ PushPrompt(t) \/ Answered(t) \/ PopPrompt(t) \/ Throw(t)

-----------------------------------------------------------------------------
(* Crash and restart.                                                      *)

ProcessCrash == /\ Crash
                /\ messages' = <<>>
                /\ pc' = [t \in Threads |-> "idle"]
                /\ booting' = FALSE /\ restoring' = {}
                /\ UNCHANGED <<call, round, calls, clock, history, errors>>

\* initChatMessage runs before the worker pool and the server are started; a
\* query that fails leaves the memory empty.
BeginRestore == /\ ~up /\ ~booting
                /\ booting' = TRUE
                /\ \/ restoring' = 1..Len(rows)
                   \/ errors < MaxErrors /\ restoring' = {}
                /\ errors' = IF restoring' = 1..Len(rows) THEN errors ELSE errors + 1
                /\ UNCHANGED <<queueVars, messages, pc, call, round, calls, clock, history>>

\* Variant: no ORDER BY.
RestoreUnordered == /\ booting
                    /\ \E i \in restoring :
                         /\ messages' = Append(messages, rows[i])
                         /\ restoring' = restoring \ {i}
                    /\ UNCHANGED <<queueVars, booting, pc, call, round, calls,
                                   clock, history, errors>>

\* ORDER BY ts: rows of the same millisecond come in any order.
RestoreMessage == /\ booting
                  /\ \E i \in restoring :
                       /\ \A j \in restoring : rows[i].ts <= rows[j].ts
                       /\ messages' = Append(messages, rows[i])
                       /\ restoring' = restoring \ {i}
                  /\ UNCHANGED <<queueVars, booting, pc, call, round, calls,
                                 clock, history, errors>>

Boot == /\ booting /\ restoring = {}
        /\ Start
        /\ booting' = FALSE
        /\ UNCHANGED <<chatVars, restoring>>

-----------------------------------------------------------------------------
QueueStep == /\ Broker \/ \E w \in Workers : Worker(w)
             /\ UNCHANGED <<chatVars, bootVars>>

Next == \/ \E t \in Threads : Chat(t)
        \/ QueueStep \/ ProcessCrash \/ BeginRestore \/ RestoreMessage \/ Boot

ChatSpec == Init /\ [][Next]_vars

-----------------------------------------------------------------------------
PCs == {"idle", "addQuestion", "publishQuestion", "ask", "addAnswer",
        "publishAnswer", "pushPrompt", "popPrompt"}

AllIdle  == \A t \in Threads : pc[t] = "idle"

\* The values of the variables, and what a thread's place in chat() says of them.
ChatTypeOK ==
  /\ pc \in [Threads -> PCs]
  /\ \A t \in Threads : /\ call[t] \in 0..calls
                        /\ round[t] \in 0..2
                        /\ pc[t] = "popPrompt" => round[t] > 0
  /\ calls \in 0..MaxCalls /\ clock \in 0..MaxClock /\ errors \in 0..MaxErrors
  /\ restoring \subseteq 1..Len(rows)
  /\ booting => ~up

\* AIHelper.h:66: even subscripts (from 0) hold what the user said, odd ones the
\* AI's answers.  buildRequest and ChatHistoryHandler tell the speaker by it.
EvenUserOddAI ==
  AllIdle => \A i \in DOMAIN messages :
               messages[i].role = IF i % 2 = 1 THEN "user" ELSE "ai"

\* While requests come one after the other and nothing fails, the subscripts do
\* tell the speaker: however a call goes through its one or two prompts, they are
\* gone when it ends and one question and one answer are there.
SequentialDialogue ==
  Cardinality(Threads) = 1 /\ errors = 0 /\ faults = 0
    => EvenUserOddAI /\ (AllIdle => messages = history)

\* What the table holds was said in this session: no prompt and nothing that was
\* never added to the history, whatever crashed in between.
OnlyDialogueStored == Values(rows) \subseteq Values(history)

\* A restart brings back the dialogue as it was added, if the rows are all there
\* once and no two were added in the same millisecond: the asynchronous inserts
\* may reach the table in another order, ORDER BY ts puts them right.
Complete == /\ Values(history) = Values(rows)
            /\ Len(history) = Len(rows)
            /\ \A i, j \in DOMAIN history : i # j => history[i].ts # history[j].ts

RestartKeepsDialogue ==
  [][Boot /\ Complete /\ errors = 0 => messages = history]_vars
=============================================================================
