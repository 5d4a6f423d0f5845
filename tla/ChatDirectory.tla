----------------------------- MODULE ChatDirectory -----------------------------
(***************************************************************************)
(* Which chats there are: chatInformation, sessionsIdsMap and the rows of  *)
(* chat_message, and the handlers /chat/send, /chat/send-new-session,      *)
(* /chat/history and /chat/sessions.  What is said in a chat is            *)
(* ChatHistory; here chat() stores its messages at once, or fails.         *)
(*                                                                         *)
(* chatInformation is read and written under mutexForChatInformation only: *)
(* a critical section is one step.  sessionsIdsMap is used under that      *)
(* mutex by one handler and under mutexForSessionsId by another.  So its   *)
(* operator[] is two steps, the search for the user's node and, if there   *)
(* was none, the insertion; two of them may insert a node each, of which   *)
(* later searches find the newer (unordered_map inserts at the front).     *)
(***************************************************************************)
EXTENDS Dispatch

CONSTANTS ChatUsers,      \* users with a login
          GeneratedIds    \* bound: what AISessionIdGenerator returns, in turn;
                        \* an id may come twice

VARIABLES
  chats,      \* chatInformation: per user, the AIHelper of each session id
  nodes,      \* sessionsIdsMap: per user the nodes, oldest first, each with
              \* its vector of ids and who inserted it
  rows,       \* chat_message: user and session id of each row, by ts
  generated,  \* ids generated so far
  helpers,    \* AIHelper objects made so far
  created,    \* the ids /chat/send-new-session made since the last start
  loaded      \* has the process read the table when it started?

chatVars == <<chats, nodes, rows, generated, helpers, created, loaded>>

DirectoryInit == /\ chats = [u \in ChatUsers |-> << >>]
                 /\ nodes = [u \in ChatUsers |-> <<>>]
                 /\ rows = <<>>
                 /\ generated = 0 /\ helpers = 0
                 /\ created = {}
                 /\ loaded = TRUE

UserOf(t) == th[t].req.user

\* Nobody is between the two steps of operator[] under that mutex.
ChatInformationFree == \A t \in Threads : ~At(t, "pushId")
SessionsIdFree      == \A t \in Threads : ~At(t, "copyIds")

ChatPcs == {"send", "create", "history", "sessions"}

\* The check at the head of each handler.
ChatUnauthorized(t) == /\ th[t].pc \in ChatPcs /\ UserOf(t) = ""
                       /\ Respond(t, 401)
                       /\ UNCHANGED chatVars

Authorized(t, p) == At(t, p) /\ UserOf(t) # ""

-----------------------------------------------------------------------------
\* Variant: emplace and operator[] replaced by an assignment.
AssignHelper(u, sid) ==
  /\ helpers' = helpers + 1
  /\ chats' = [chats EXCEPT ![u] = With(@, [id \in {sid} |-> helpers + 1])]

\* find and emplace.
EmplaceHelper(u, sid) ==
  IF sid \in DOMAIN chats[u] THEN UNCHANGED <<chats, helpers>>
  ELSE /\ helpers' = helpers + 1
       /\ chats' = [chats EXCEPT ![u] = With(@, [id \in {sid} |-> helpers + 1])]

\* /chat/send: an id the client names, known or not.
Send(t) == /\ Authorized(t, "send") /\ ChatInformationFree
           /\ EmplaceHelper(UserOf(t), th[t].req.sid)
           /\ Update(t, [pc |-> "chat", sid |-> th[t].req.sid,
                         helper |-> chats'[UserOf(t)][th[t].req.sid]])
           /\ UNCHANGED <<nodes, rows, generated, created, loaded>>

\* Variant: without the lock_guard.
CreateUnlocked(t) ==
  LET u   == UserOf(t)
      sid == GeneratedIds[generated + 1]
  IN /\ Authorized(t, "create") /\ generated < Len(GeneratedIds)
     /\ generated' = generated + 1
     /\ EmplaceHelper(u, sid)
     /\ Update(t, [pc |-> IF sid \in DOMAIN chats[u] THEN "chat" ELSE "pushId",
                   sid |-> sid, helper |-> chats'[u][sid], node |-> Len(nodes[u])])
     /\ UNCHANGED <<nodes, rows, created, loaded>>

\* /chat/send-new-session: a generated id, its helper, and the search in
\* sessionsIdsMap, unless a client has used that id before; the mutex is kept.
Create(t) ==
  LET u   == UserOf(t)
      sid == GeneratedIds[generated + 1]
  IN /\ Authorized(t, "create") /\ generated < Len(GeneratedIds) /\ ChatInformationFree
     /\ generated' = generated + 1
     /\ EmplaceHelper(u, sid)
     /\ Update(t, [pc |-> IF sid \in DOMAIN chats[u] THEN "chat" ELSE "pushId",
                   sid |-> sid, helper |-> chats'[u][sid], node |-> Len(nodes[u])])
     /\ UNCHANGED <<nodes, rows, created, loaded>>

\* push_back to the vector that was found, or to a new node.
PushId(t) ==
  LET u == UserOf(t) IN
  /\ At(t, "pushId")
  /\ nodes' = [nodes EXCEPT ![u] =
                 IF th[t].node = 0 THEN Append(@, [ids |-> <<th[t].sid>>, by |-> "create"])
                 ELSE [nodes[u] EXCEPT ![th[t].node].ids = Append(@, th[t].sid)]]
  /\ created' = created \union {<<u, th[t].sid>>}
  /\ Goto(t, "chat")
  /\ UNCHANGED <<chats, rows, generated, helpers, loaded>>

\* chat() on the helper: question and answer are stored; or the model fails,
\* the question alone is; or publishing the question fails.
Chat(t) ==
  LET row == <<UserOf(t), th[t].sid>> IN
  /\ At(t, "chat")
  /\ \/ rows' = rows \o <<row, row>> /\ Respond(t, 200)
     \/ rows' = Append(rows, row) /\ Respond(t, 400)
     \/ UNCHANGED rows /\ Respond(t, 400)
  /\ UNCHANGED <<chats, nodes, generated, helpers, created, loaded>>

\* /chat/history: an id nobody knows gets a helper, and an empty history.
History(t) == /\ Authorized(t, "history") /\ ChatInformationFree
              /\ EmplaceHelper(UserOf(t), th[t].req.sid)
              /\ Respond(t, 200)
              /\ UNCHANGED <<nodes, rows, generated, created, loaded>>

\* /chat/sessions.
FindIds(t) == /\ Authorized(t, "sessions") /\ SessionsIdFree
              /\ Update(t, [pc |-> "copyIds", node |-> Len(nodes[UserOf(t)])])
              /\ UNCHANGED chatVars

CopyIds(t) ==
  LET u == UserOf(t) IN
  /\ At(t, "copyIds")
  /\ IF th[t].node = 0
     THEN /\ nodes' = [nodes EXCEPT ![u] = Append(@, [ids |-> <<>>, by |-> "sessions"])]
          /\ Update(t, [pc |-> "after", code |-> 200, list |-> <<>>])
     ELSE /\ Update(t, [pc |-> "after", code |-> 200, list |-> nodes[u][th[t].node].ids])
          /\ UNCHANGED nodes
  /\ UNCHANGED <<chats, rows, generated, helpers, created, loaded>>

-----------------------------------------------------------------------------
\* A finite set of numbers as an increasing sequence.
InOrder(numbers) == CHOOSE order \in [1..Cardinality(numbers) -> numbers] :
                      \A i, j \in DOMAIN order : i < j => order[i] < order[j]

\* The session ids of a user in the table, in the order of their first rows.
StoredIds(u) ==
  LET first == {i \in DOMAIN rows : rows[i][1] = u /\ \A j \in 1..(i - 1) : rows[j] # rows[i]}
      order == InOrder(first)
  IN [k \in DOMAIN order |-> rows[order[k]][2]]

\* Variant: readDataFromMySQL pushes the id of every row.
RestoreAllIds ==
  /\ chats' = [u \in ChatUsers |-> [sid \in Range(StoredIds(u)) |-> 0]]
  /\ nodes' = [u \in ChatUsers |->
                 LET mine == SelectSeq(rows, LAMBDA row : row[1] = u)
                 IN <<[ids |-> [i \in DOMAIN mine |-> mine[i][2]], by |-> "start"]>>]
  /\ created' = {} /\ loaded' = TRUE
  /\ UNCHANGED <<rows, generated, helpers>>

\* readDataFromMySQL, before the server accepts a connection.  If the query
\* fails the server starts with no chats.
RestoreDirectory ==
  /\ loaded' \in BOOLEAN
  /\ chats' = [u \in ChatUsers |->
                 [sid \in {id \in Range(StoredIds(u)) : loaded'} |-> 0]]
  /\ nodes' = [u \in ChatUsers |-> IF StoredIds(u) = <<>> \/ ~loaded' THEN <<>>
                                   ELSE <<[ids |-> StoredIds(u), by |-> "start"]>>]
  /\ created' = {}
  /\ UNCHANGED <<rows, generated, helpers>>

DirectoryStep(t) == /\ \/ ChatUnauthorized(t)
                       \/ Send(t) \/ Create(t) \/ PushId(t) \/ Chat(t)
                       \/ History(t) \/ FindIds(t) \/ CopyIds(t)
                    /\ UNCHANGED dispatchVars

-----------------------------------------------------------------------------
\* chat() runs on the helper that the directory holds: two requests for one
\* session, one of them a /chat/history, never work on two histories
\* (ChatSendHandler 55-67).
OneHelper ==
  \A t \in Threads : At(t, "chat") => /\ th[t].sid \in DOMAIN chats[UserOf(t)]
                                      /\ chats[UserOf(t)][th[t].sid] = th[t].helper

Newest(u) == IF nodes[u] = <<>> THEN <<>> ELSE nodes[u][Len(nodes[u])].ids

\* A chat that /chat/send-new-session made is listed from then on, also while
\* others are made; only a listing that found no node while it was made may
\* hide it, as that is the one user of the map under another mutex
\* (ChatCreateAndSendHandler 68, ChatSessionsHandler 33).
CreatedIsListed ==
  \A c \in created : \/ Contains(Newest(c[1]), c[2])
                     \/ /\ Len(nodes[c[1]]) > 1
                        /\ \E i \in DOMAIN nodes[c[1]] : nodes[c[1]][i].by = "sessions"

\* Memory knows every chat that has a row unless the process could not read them,
\* a list names a chat once and only chats that are in memory, before and after
\* restarts (readDataFromMySQL).
DirectoryConsistent ==
  \A u \in ChatUsers :
    /\ loaded => Range(StoredIds(u)) \subseteq DOMAIN chats[u]
    /\ Range(Newest(u)) \subseteq DOMAIN chats[u]
    /\ IsInjective(Newest(u))
=============================================================================
