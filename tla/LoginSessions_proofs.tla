------------------------ MODULE LoginSessions_proofs ------------------------
(***************************************************************************)
(* Proofs about LoginSessions, for any clients, accounts, session ids and  *)
(* IO threads, and any number of requests: its type invariant, and that a  *)
(* handler acts for accounts only whose password its client gave.          *)
(***************************************************************************)
EXTENDS LoginSessions, TLAPS

Data == [userId : Users \union {None}, username : Users \union {None}, isLoggedIn : BOOLEAN]

Requests == [pc : Places, kind : {"login", "logout", "other"}, client : Clients \union {None},
             carried : Sessions \union {None}, session : Sessions \union {None},
             account : Users \union {None}, field : 1..3, setCookie : BOOLEAN]

Shape == /\ data \in [Sessions -> Data]
         /\ cookie \in [Clients -> Sessions \union {None}]
         /\ req \in [Threads -> Requests]
         /\ proved \in [Clients -> SUBSET Users]

\* What is known of an id that was not generated: nothing.
Unused == /\ sessions \union expired \union ended \union shared \subseteq used
          /\ used \subseteq Sessions
          /\ \A s \in Sessions \ used : data[s] = NoData
          /\ \A c \in Clients : cookie[c] \in used \union {None}
          /\ \A t \in Threads : /\ req[t].session \in used \union {None}
                                /\ req[t].carried \in used \union {None}

\* What a request knows where it is.
Progress(r) == /\ r.session = None <=> r.pc \in {"idle", "getSession"}
               /\ r.pc # "idle" => r.client \in Clients
               /\ r.pc \in Knowing => r.account \in Users
               /\ r.pc = "getSession" /\ r.kind = "login" => r.account \in Users

TInv == Shape /\ Unused /\ online \subseteq Users /\ \A t \in Threads : Progress(req[t])

\* A client knows a session id: its cookie, or one of its requests, has it.
Knows(c, s) == \/ cookie[c] = s
               \/ \E t \in Threads : req[t].client = c /\ s \in {req[t].session, req[t].carried}

OneKnower == \A c, d \in Clients, s \in Sessions : Knows(c, s) /\ Knows(d, s) => c = d

DataProved == \A c \in Clients, s \in Sessions :
                Knows(c, s) => {data[s].userId, data[s].username} \subseteq proved[c] \union {None}

AccountProved ==
  \A t \in Threads : req[t].account # None => /\ req[t].client \in Clients
                                              /\ req[t].account \in proved[req[t].client]

ActsByClients == \A a \in acted : a.client \in Clients

PInv == TInv /\ OneKnower /\ DataProved /\ AccountProved /\ ActsByClients /\ ActsAsProved

-----------------------------------------------------------------------------
(* A step replaces the request of one thread by another one of the right   *)
(* shape, and every variable keeps its type.                               *)

LEMMA InitTInv == Init => TInv
BY LoginAssumption DEF Init, TInv, Shape, Unused, Progress, Requests, Data, Idle, NoData, Places,
                       Knowing

LEMMA ArrivedShape ==
  ASSUME TInv, NEW c \in Clients, NEW kind \in {"login", "logout", "other"},
         NEW u \in Users \union {None}, kind = "login" => u \in Users
  PROVE  /\ Arrived(c, kind, u) \in Requests /\ Progress(Arrived(c, kind, u))
         /\ Arrived(c, kind, u).session = None /\ Arrived(c, kind, u).client = c
         /\ Arrived(c, kind, u).carried = cookie[c] /\ Arrived(c, kind, u).account = u
BY DEF TInv, Shape, Arrived, Requests, Progress, Places, Knowing

LEMMA HolderKnows ==
  ASSUME TInv, NEW t \in Threads, req[t].session # None
  PROVE  /\ req[t].client \in Clients /\ req[t].session \in Sessions
         /\ req[t].session \in used /\ Knows(req[t].client, req[t].session)
BY DEF TInv, Shape, Unused, Progress, Requests, Knows

LEMMA HandlerHolds ==
  ASSUME TInv, NEW t \in Threads, req[t].pc \notin {"idle", "getSession"}
  PROVE  req[t].session \in Sessions /\ req[t].session \in used /\ req[t].session # None
BY HolderKnows DEF TInv, Progress

LEMMA RequestTInv ==
  ASSUME TInv, NEW t \in Threads, NEW c \in Clients, Request(t, c)
  PROVE  TInv'
<1>1. ASSUME NEW r \in Requests, req' = [req EXCEPT ![t] = r], Progress(r),
             r.session = None, r.carried = cookie[c],
             proved' \in [Clients -> SUBSET Users]
      PROVE  TInv'
  <2>1. Shape'
    BY <1>1 DEF TInv, Shape, Request, storeVars
  <2>2. Unused'
    BY <1>1, LoginAssumption DEF TInv, Shape, Unused, Request, storeVars
  <2>3. online' \subseteq Users /\ \A o \in Threads : Progress(req[o])'
    BY <1>1 DEF TInv, Shape, Progress, Request, storeVars
  <2> QED BY <2>1, <2>2, <2>3 DEF TInv
<1>2. ASSUME NEW kind \in {"logout", "other"}, req' = [req EXCEPT ![t] = Arrived(c, kind, None)],
             UNCHANGED proved
      PROVE  TInv'
  <2>1. /\ Arrived(c, kind, None) \in Requests /\ Progress(Arrived(c, kind, None))
        /\ Arrived(c, kind, None).session = None
        /\ Arrived(c, kind, None).carried = cookie[c]
    BY ArrivedShape
  <2>2. proved' \in [Clients -> SUBSET Users]
    BY <1>2 DEF TInv, Shape
  <2> QED BY <1>1, <1>2, <2>1, <2>2
<1>3. ASSUME NEW u \in Users, req' = [req EXCEPT ![t] = Arrived(c, "login", u)],
             proved' = [proved EXCEPT ![c] = @ \union {u}]
      PROVE  TInv'
  <2>1. proved' \in [Clients -> SUBSET Users]
    BY <1>3 DEF TInv, Shape
  <2> QED BY <1>1, <1>3, <2>1, ArrivedShape
<1> QED BY <1>2, <1>3 DEF Request

LEMMA RespondTInv ==
  ASSUME TInv, NEW t \in Threads, Respond(t)
  PROVE  TInv'
BY LoginAssumption DEF TInv, Shape, Unused, Progress, Requests, Data, Idle, Places, Knowing,
   Respond, At, storeVars, seenVars

LEMMA LoadTInv ==
  ASSUME TInv, NEW t \in Threads, LoadSession(t)
  PROVE  TInv'
BY LoginAssumption DEF TInv, Shape, Unused, Progress, Requests, Data, Places, Knowing,
   LoadSession, Take, AfterSession, At, seenVars, storeVars

LEMMA CreateTInv ==
  ASSUME TInv, NEW t \in Threads, CreateSession(t)
  PROVE  TInv'
BY LoginAssumption DEF TInv, Shape, Unused, Progress, Requests, Data, Places, Knowing,
   CreateSession, NewId, Take, AfterSession, At, seenVars, storeVars

LEMMA ExpireTInv ==
  ASSUME TInv, NEW s \in Sessions, Expire(s)
  PROVE  TInv'
BY DEF TInv, Shape, Unused, Progress, Expire, storeVars, seenVars

LEMMA WriteFieldTInv ==
  ASSUME TInv, NEW t \in Threads, WriteField(t)
  PROVE  TInv'
<1> USE LoginAssumption DEF TInv
<1> DEFINE r == req[t]
           d == data[r.session]
<1>1. /\ r \in Requests /\ r.pc = "write" /\ r.session \in used /\ r.account \in Users
      /\ d \in Data /\ d = [userId |-> d.userId, username |-> d.username,
                             isLoggedIn |-> d.isLoggedIn]
  BY DEF Shape, Unused, Progress, Requests, Knowing, WriteField, At, Data
<1>2. \E e \in Data : data' = [data EXCEPT ![r.session] = e]
  <2>1. CASE r.field = 1
    BY <2>1, <1>1 DEF WriteField, Fields, Data
  <2>2. CASE r.field = 2
    BY <2>2, <1>1 DEF WriteField, Fields, Data
  <2>3. CASE r.field = 3
    BY <2>3, <1>1 DEF WriteField, Fields, Data
  <2> QED BY <1>1, <2>1, <2>2, <2>3 DEF Requests
<1>3. PICK e \in Data : data' = [data EXCEPT ![r.session] = e]
  BY <1>2
<1>4. /\ req' = [req EXCEPT ![t].pc = "save"]
      /\ UNCHANGED <<storeVars, online, cookie, shared, seenVars>>
  BY DEF WriteField, Goto
<1>5. Shape'
  BY <1>1, <1>3, <1>4 DEF Shape, Requests, Places, seenVars
<1>6. Unused'
  BY <1>1, <1>3, <1>4 DEF Shape, Unused, Requests, storeVars, seenVars
<1>7. online' \subseteq Users /\ \A o \in Threads : Progress(req[o])'
  BY <1>1, <1>4 DEF Shape, Requests, Progress, Knowing
<1> QED BY <1>5, <1>6, <1>7

LEMMA SaveSessionTInv ==
  ASSUME TInv, NEW t \in Threads, SaveSession(t)
  PROVE  TInv'
BY LoginAssumption DEF TInv, Shape, Unused, Progress, Requests, Data, NoData, Places, Knowing,
   SaveSession, At, Goto, Fields, storeVars, seenVars

LEMMA CheckOnlineTInv ==
  ASSUME TInv, NEW t \in Threads, CheckOnline(t)
  PROVE  TInv'
<1> USE LoginAssumption DEF TInv, CheckOnline, At, Goto, storeVars, seenVars
<1>1. Shape'
  BY DEF Shape, Requests, Data, NoData, Fields, Places, Unused, Progress, Knowing
<1>2. Unused'
  BY DEF Shape, Unused, Requests, NoData, Fields, Progress
<1>3. online' \subseteq Users /\ \A o \in Threads : Progress(req[o])'
  BY DEF Shape, Unused, Progress, Knowing, Requests
<1> QED BY <1>1, <1>2, <1>3

LEMMA MarkOnlineTInv ==
  ASSUME TInv, NEW t \in Threads, MarkOnline(t)
  PROVE  TInv'
BY LoginAssumption DEF TInv, Shape, Unused, Progress, Requests, Data, NoData, Places, Knowing,
   MarkOnline, At, Goto, Fields, storeVars, seenVars

\* A handler takes u for its account and goes on to p.
LEMMA AccountTInv ==
  ASSUME TInv, NEW t \in Threads, NEW u \in Users \union {None},
         NEW p \in Places \ {"idle", "getSession"}, p \in Knowing => u \in Users,
         req[t].pc \notin {"idle", "getSession"},
         req' = [req EXCEPT ![t].account = u, ![t].pc = p],
         UNCHANGED <<storeVars, data, online, cookie, shared, seenVars>>
  PROVE  TInv'
<1>1. req[t] \in Requests /\ req'[t] = [req[t] EXCEPT !.account = u, !.pc = p]
  BY DEF TInv, Shape
<1>2. req'[t] \in Requests
  <2>1. ASSUME NEW r \in Requests
        PROVE  [r EXCEPT !.account = u, !.pc = p] \in Requests
    BY DEF Requests
  <2> QED BY <1>1, <2>1
<1>3. Shape'
  BY <1>2 DEF TInv, Shape, seenVars
<1>4. /\ req'[t].session = req[t].session /\ req'[t].carried = req[t].carried
      /\ req'[t].pc = p /\ req'[t].account = u /\ req'[t].client = req[t].client
      /\ \A o \in Threads \ {t} : req'[o] = req[o]
  BY <1>1 DEF TInv, Shape, Requests
<1>5. Unused'
  BY <1>4 DEF TInv, Unused, storeVars, seenVars
<1>6. ASSUME NEW o \in Threads PROVE Progress(req[o])'
  <2>1. CASE o = t
    BY <1>4, <2>1 DEF TInv, Progress
  <2>2. CASE o # t
    BY <1>4, <2>2 DEF TInv, Progress
  <2> QED BY <2>1, <2>2
<1> QED BY <1>3, <1>5, <1>6 DEF TInv

LEMMA ReadUserTInv ==
  ASSUME TInv, NEW t \in Threads, ReadUser(t)
  PROVE  TInv'
<1> DEFINE u == data[req[t].session].userId
           p == IF u = None THEN "answer" ELSE "clear"
<1>1. u \in Users \union {None}
  BY HandlerHolds DEF TInv, Shape, Data, ReadUser, At
<1>2. p \in Places \ {"idle", "getSession"} /\ (p \in Knowing => u \in Users)
  BY <1>1 DEF Places, Knowing
<1>3. /\ req' = [req EXCEPT ![t].account = u, ![t].pc = p]
      /\ req[t].pc \notin {"idle", "getSession"}
      /\ UNCHANGED <<storeVars, data, online, cookie, shared, seenVars>>
  BY DEF ReadUser, At
<1> HIDE DEF u, p
<1> QED BY <1>1, <1>2, <1>3, AccountTInv

LEMMA ClearTInv ==
  ASSUME TInv, NEW t \in Threads, Clear(t)
  PROVE  TInv'
<1> USE LoginAssumption DEF TInv
<1>1. req[t].session \in used
  BY DEF Shape, Unused, Progress, Requests, Clear, At
<1>2. NoData \in Data
  BY DEF NoData, Data
<1> QED BY <1>1, <1>2 DEF Shape, Unused, Progress, Requests, Places, Knowing, Clear, At, Goto,
        storeVars, seenVars

LEMMA DestroyTInv ==
  ASSUME TInv, NEW t \in Threads, Destroy(t)
  PROVE  TInv'
<1> USE LoginAssumption DEF TInv, Destroy, At
<1>1. PICK p \in {"erase", "answer"} : req' = [req EXCEPT ![t].pc = p]
  BY DEF Goto
<1>2. req[t].session \in used /\ req[t].account \in Users
  BY HandlerHolds DEF Progress, Knowing
<1>3. Shape'
  BY <1>1 DEF Shape, Requests, Places
<1>4. Unused'
  BY <1>1, <1>2 DEF Shape, Unused, Requests
<1>5. online' \subseteq Users /\ \A o \in Threads : Progress(req[o])'
  BY <1>1, <1>2 DEF Shape, Requests, Progress, Knowing
<1> QED BY <1>3, <1>4, <1>5

LEMMA EraseOnlineTInv ==
  ASSUME TInv, NEW t \in Threads, EraseOnline(t)
  PROVE  TInv'
BY LoginAssumption DEF TInv, Shape, Unused, Progress, Requests, Data, NoData, Places, Knowing,
   EraseOnline, At, Goto, Fields, storeVars, seenVars

LEMMA CheckLoginTInv ==
  ASSUME TInv, NEW t \in Threads, CheckLogin(t)
  PROVE  TInv'
BY LoginAssumption DEF TInv, Shape, Unused, Progress, Requests, Data, NoData, Places, Knowing,
   CheckLogin, At, Goto, Fields, storeVars, seenVars

LEMMA ReadIdTInv ==
  ASSUME TInv, NEW t \in Threads, ReadId(t)
  PROVE  TInv'
<1> DEFINE u == data[req[t].session].userId
           p == IF u = None THEN "answer" ELSE "readName"
<1>1. u \in Users \union {None}
  BY HandlerHolds DEF TInv, Shape, Data, ReadId, At
<1>2. p \in Places \ {"idle", "getSession"} /\ (p \in Knowing => u \in Users)
  BY <1>1 DEF Places, Knowing
<1>3. /\ req' = [req EXCEPT ![t].account = u, ![t].pc = p]
      /\ req[t].pc \notin {"idle", "getSession"}
      /\ UNCHANGED <<storeVars, data, online, cookie, shared, seenVars>>
  BY DEF ReadId, At
<1> HIDE DEF u, p
<1> QED BY <1>1, <1>2, <1>3, AccountTInv

LEMMA ReadNameTInv ==
  ASSUME TInv, NEW t \in Threads, ReadName(t)
  PROVE  TInv'
<1> USE LoginAssumption DEF TInv, ReadName, At, Goto, storeVars, seenVars
<1>1. Shape'
  BY DEF Shape, Requests, Data, NoData, Fields, Places, Unused, Progress, Knowing
<1>2. Unused'
  BY DEF Shape, Unused, Requests, NoData, Fields, Progress
<1>3. online' \subseteq Users /\ \A o \in Threads : Progress(req[o])'
  BY DEF Shape, Unused, Progress, Knowing, Requests
<1> QED BY <1>1, <1>2, <1>3

LEMMA TStep == TInv /\ [Next]_vars => TInv'
<1> SUFFICES ASSUME TInv, [Next]_vars PROVE TInv'
  OBVIOUS
<1>1. ASSUME NEW t \in Threads, NEW c \in Clients, Request(t, c) PROVE TInv'
  BY <1>1, RequestTInv
<1>2. ASSUME NEW t \in Threads, LoadSession(t) PROVE TInv'
  BY <1>2, LoadTInv
<1>3. ASSUME NEW t \in Threads, CreateSession(t) PROVE TInv'
  BY <1>3, CreateTInv
<1>4. ASSUME NEW t \in Threads, Login(t) PROVE TInv'
  BY <1>4, WriteFieldTInv, SaveSessionTInv, CheckOnlineTInv, MarkOnlineTInv DEF Login
<1>5. ASSUME NEW t \in Threads, Logout(t) PROVE TInv'
  BY <1>5, ReadUserTInv, ClearTInv, DestroyTInv, EraseOnlineTInv DEF Logout
<1>6. ASSUME NEW t \in Threads, Serve(t) PROVE TInv'
  BY <1>6, CheckLoginTInv, ReadIdTInv, ReadNameTInv DEF Serve
<1>7. ASSUME NEW t \in Threads, Respond(t) PROVE TInv'
  BY <1>7, RespondTInv
<1>8. ASSUME NEW s \in Sessions, Expire(s) PROVE TInv'
  BY <1>8, ExpireTInv
<1>9. CASE UNCHANGED vars
  BY <1>9 DEF vars, storeVars, seenVars, TInv, Shape, Unused, Progress
<1> QED BY <1>1, <1>2, <1>3, <1>4, <1>5, <1>6, <1>7, <1>8, <1>9 DEF Next

LEMMA TInvTypes == TInv => LoginTypeOK
<1> SUFFICES ASSUME TInv PROVE LoginTypeOK
  OBVIOUS
<1>1. \A s \in Sessions : /\ data[s].userId \in Users \union {None}
                          /\ data[s].username \in Users \union {None}
                          /\ data[s].isLoggedIn \in BOOLEAN
  BY DEF TInv, Shape, Data
<1>2. \A t \in Threads : req[t].pc \in Places
  BY DEF TInv, Shape, Requests
<1> QED BY <1>1, <1>2 DEF TInv, Unused, Progress, LoginTypeOK

\* The values of the variables keep their types, and only session ids that
\* generateSessionId has returned are stored, kept as cookies, held by a handler
\* or destroyed: SessionManager and the login, logout and chat handlers, for any
\* clients, accounts, ids and IO threads.
THEOREM LoginSessionsTypeOK == Spec => []LoginTypeOK
<1>1. Spec => []TInv
  BY InitTInv, TStep, PTL DEF Spec
<1> QED BY <1>1, TInvTypes, PTL

-----------------------------------------------------------------------------
(* Steps of a handler that keep who knows which session: the account of a  *)
(* request may become the userId its session holds.                        *)

Quiet ==
  /\ cookie' = cookie /\ proved' = proved
  /\ \A t \in Threads :
       /\ req'[t].client = req[t].client
       /\ req'[t].session = req[t].session
       /\ req'[t].carried = req[t].carried
       /\ \/ req'[t].account \in {req[t].account, None}
          \/ req[t].session # None /\ req'[t].account = data[req[t].session].userId

LEMMA QuietKeeps ==
  ASSUME PInv, Quiet
  PROVE  /\ \A c \in Clients, s \in Sessions : Knows(c, s)' <=> Knows(c, s)
         /\ OneKnower' /\ AccountProved'
<1>1. \A c \in Clients, s \in Sessions : Knows(c, s)' <=> Knows(c, s)
  BY DEF Quiet, Knows
<1>2. OneKnower'
  BY <1>1 DEF OneKnower, PInv
<1>3. ASSUME NEW t \in Threads, req'[t].account # None
      PROVE  req'[t].client \in Clients /\ req'[t].account \in proved'[req'[t].client]
  <2>1. CASE req'[t].account \in {req[t].account, None}
    BY <2>1, <1>3 DEF Quiet, PInv, AccountProved
  <2>2. CASE req[t].session # None /\ req'[t].account = data[req[t].session].userId
    BY <2>2, <1>3, HolderKnows DEF Quiet, PInv, DataProved
  <2> QED BY <2>1, <2>2 DEF Quiet
<1> QED BY <1>1, <1>2, <1>3 DEF AccountProved

LEMMA QuietPInv ==
  ASSUME PInv, TInv', Quiet, acted' = acted,
         \A s \in Sessions : data'[s] \in {data[s], NoData}
  PROVE  PInv'
<1>1. DataProved'
  BY QuietKeeps DEF PInv, DataProved, Quiet, NoData
<1>2. ActsByClients' /\ ActsAsProved'
  BY DEF PInv, ActsByClients, ActsAsProved, Quiet
<1> QED BY <1>1, <1>2, QuietKeeps DEF PInv

-----------------------------------------------------------------------------
(* One lemma per action.                                                   *)

LEMMA SaveSessionPInv ==
  ASSUME PInv, NEW t \in Threads, SaveSession(t)
  PROVE  PInv'
<1>1. Quiet /\ acted' = acted
  BY DEF PInv, TInv, Shape, Unused, Progress, Requests, Quiet, SaveSession, At, Goto, storeVars, seenVars
<1>2. \A s \in Sessions : data'[s] \in {data[s], NoData}
  BY DEF PInv, TInv, Shape, SaveSession
<1> QED BY <1>1, <1>2, SaveSessionTInv, QuietPInv DEF PInv

LEMMA CheckOnlinePInv ==
  ASSUME PInv, NEW t \in Threads, CheckOnline(t)
  PROVE  PInv'
<1>1. Quiet /\ acted' = acted
  BY DEF PInv, TInv, Shape, Unused, Progress, Requests, Quiet, CheckOnline, At, Goto, storeVars, seenVars
<1>2. \A s \in Sessions : data'[s] \in {data[s], NoData}
  BY DEF PInv, TInv, Shape, CheckOnline
<1> QED BY <1>1, <1>2, CheckOnlineTInv, QuietPInv DEF PInv

LEMMA MarkOnlinePInv ==
  ASSUME PInv, NEW t \in Threads, MarkOnline(t)
  PROVE  PInv'
<1>1. Quiet /\ acted' = acted
  BY DEF PInv, TInv, Shape, Unused, Progress, Requests, Quiet, MarkOnline, At, Goto, storeVars, seenVars
<1>2. \A s \in Sessions : data'[s] \in {data[s], NoData}
  BY DEF PInv, TInv, Shape, MarkOnline
<1> QED BY <1>1, <1>2, MarkOnlineTInv, QuietPInv DEF PInv

LEMMA ReadUserPInv ==
  ASSUME PInv, NEW t \in Threads, ReadUser(t)
  PROVE  PInv'
<1>1. Quiet /\ acted' = acted
  BY DEF PInv, TInv, Shape, Unused, Progress, Requests, Quiet, ReadUser, At, Goto, storeVars, seenVars
<1>2. \A s \in Sessions : data'[s] \in {data[s], NoData}
  BY DEF PInv, TInv, Shape, ReadUser
<1> QED BY <1>1, <1>2, ReadUserTInv, QuietPInv DEF PInv

LEMMA ClearPInv ==
  ASSUME PInv, NEW t \in Threads, Clear(t)
  PROVE  PInv'
<1>1. Quiet /\ acted' = acted
  BY DEF PInv, TInv, Shape, Unused, Progress, Requests, Quiet, Clear, At, Goto, storeVars, seenVars
<1>2. \A s \in Sessions : data'[s] \in {data[s], NoData}
  BY DEF PInv, TInv, Shape, Clear
<1> QED BY <1>1, <1>2, ClearTInv, QuietPInv DEF PInv

LEMMA DestroyPInv ==
  ASSUME PInv, NEW t \in Threads, Destroy(t)
  PROVE  PInv'
<1>1. Quiet /\ acted' = acted
  BY DEF PInv, TInv, Shape, Unused, Progress, Requests, Quiet, Destroy, At, Goto, storeVars, seenVars
<1>2. \A s \in Sessions : data'[s] \in {data[s], NoData}
  BY DEF PInv, TInv, Shape, Destroy
<1> QED BY <1>1, <1>2, DestroyTInv, QuietPInv DEF PInv

LEMMA EraseOnlinePInv ==
  ASSUME PInv, NEW t \in Threads, EraseOnline(t)
  PROVE  PInv'
<1>1. Quiet /\ acted' = acted
  BY DEF PInv, TInv, Shape, Unused, Progress, Requests, Quiet, EraseOnline, At, Goto, storeVars, seenVars
<1>2. \A s \in Sessions : data'[s] \in {data[s], NoData}
  BY DEF PInv, TInv, Shape, EraseOnline
<1> QED BY <1>1, <1>2, EraseOnlineTInv, QuietPInv DEF PInv

LEMMA CheckLoginPInv ==
  ASSUME PInv, NEW t \in Threads, CheckLogin(t)
  PROVE  PInv'
<1>1. Quiet /\ acted' = acted
  BY DEF PInv, TInv, Shape, Unused, Progress, Requests, Quiet, CheckLogin, At, Goto, storeVars, seenVars
<1>2. \A s \in Sessions : data'[s] \in {data[s], NoData}
  BY DEF PInv, TInv, Shape, CheckLogin
<1> QED BY <1>1, <1>2, CheckLoginTInv, QuietPInv DEF PInv

LEMMA ReadIdPInv ==
  ASSUME PInv, NEW t \in Threads, ReadId(t)
  PROVE  PInv'
<1>1. Quiet /\ acted' = acted
  BY DEF PInv, TInv, Shape, Unused, Progress, Requests, Quiet, ReadId, At, Goto, storeVars, seenVars
<1>2. \A s \in Sessions : data'[s] \in {data[s], NoData}
  BY DEF PInv, TInv, Shape, ReadId
<1> QED BY <1>1, <1>2, ReadIdTInv, QuietPInv DEF PInv

LEMMA ExpirePInv ==
  ASSUME PInv, NEW s \in Sessions, Expire(s)
  PROVE  PInv'
BY ExpireTInv, QuietPInv DEF PInv, Expire, Quiet, seenVars

LEMMA WriteFieldPInv ==
  ASSUME PInv, NEW t \in Threads, WriteField(t)
  PROVE  PInv'
<1> DEFINE h == req[t].session
           u == req[t].account
<1>1. /\ req' = [req EXCEPT ![t].pc = "save"]
      /\ UNCHANGED <<cookie, proved, acted>>
  BY DEF WriteField, Goto, seenVars
<1>2. Quiet
  BY <1>1 DEF Quiet, PInv, TInv, Shape, Requests
<1>3. /\ h # None /\ u # None
      /\ data \in [Sessions -> Data]
      /\ h \in Sessions /\ Knows(req[t].client, h) /\ req[t].client \in Clients
  BY HolderKnows, LoginAssumption DEF PInv, TInv, Shape, Progress, Knowing, WriteField, At
<1>4. u \in proved[req[t].client]
  BY <1>3 DEF PInv, AccountProved
<1>5. PICK f \in {"userId", "username", "isLoggedIn"}, v \in {u, TRUE} :
        /\ f # "isLoggedIn" => v = u
        /\ data' = [data EXCEPT ![h] = [@ EXCEPT ![f] = v]]
  <2>1. Fields[req[t].field] \in {"userId", "username", "isLoggedIn"}
    BY DEF Fields, PInv, TInv, Shape, Requests
  <2> DEFINE f == Fields[req[t].field]
             v == IF f = "isLoggedIn" THEN TRUE ELSE u
  <2>2. data' = [data EXCEPT ![h] = [@ EXCEPT ![f] = v]]
    BY DEF WriteField
  <2>3. v \in {u, TRUE} /\ (f # "isLoggedIn" => v = u)
    OBVIOUS
  <2> HIDE DEF f, v
  <2> QED BY <2>1, <2>2, <2>3 DEF f
<1>6. data[h] = [userId |-> data[h].userId, username |-> data[h].username,
                 isLoggedIn |-> data[h].isLoggedIn]
  BY <1>3 DEF Data
<1>7. /\ data'[h].userId \in {data[h].userId, u}
      /\ data'[h].username \in {data[h].username, u}
  <2>1. CASE f = "userId"
    BY <1>3, <1>5, <1>6, <2>1
  <2>2. CASE f = "username"
    BY <1>3, <1>5, <1>6, <2>2
  <2>3. CASE f = "isLoggedIn"
    BY <1>3, <1>5, <1>6, <2>3
  <2> QED BY <2>1, <2>2, <2>3
<1>8. \A s \in Sessions \ {h} : data'[s] = data[s]
  BY <1>3, <1>5
<1>9. ASSUME NEW c \in Clients, NEW s \in Sessions, Knows(c, s)
      PROVE  {data'[s].userId, data'[s].username} \subseteq proved[c] \union {None}
  <2>1. CASE s # h
    BY <2>1, <1>8, <1>9 DEF PInv, DataProved
  <2>2. CASE s = h
    <3>1. c = req[t].client
      BY <1>3, <1>9, <2>2 DEF PInv, OneKnower
    <3>2. {data[h].userId, data[h].username} \subseteq proved[c] \union {None}
      BY <1>9, <2>2 DEF PInv, DataProved
    <3> QED BY <1>4, <1>7, <2>2, <3>1, <3>2
  <2> QED BY <2>1, <2>2
<1>10. DataProved'
  BY <1>1, <1>2, <1>9, QuietKeeps DEF DataProved
<1>11. ActsByClients' /\ ActsAsProved'
  BY <1>1 DEF PInv, ActsByClients, ActsAsProved
<1> QED BY <1>2, <1>10, <1>11, QuietKeeps, WriteFieldTInv DEF PInv

LEMMA ReadNamePInv ==
  ASSUME PInv, NEW t \in Threads, ReadName(t)
  PROVE  PInv'
<1>1. Quiet /\ data' = data
  BY DEF PInv, TInv, Shape, Requests, Quiet, ReadName, At, Goto, seenVars, storeVars
<1>2. DataProved'
  BY <1>1, QuietKeeps DEF PInv, DataProved, Quiet
<1>3. /\ req[t].client \in Clients /\ req[t].session # None
      /\ req[t].account \in Users
  BY DEF PInv, TInv, Progress, Knowing, ReadName, At
<1>4. /\ req[t].account \in proved[req[t].client]
      /\ data[req[t].session].username \in proved[req[t].client] \union {None}
  BY <1>3, HolderKnows, LoginAssumption DEF PInv, AccountProved, DataProved
<1>5. ActsByClients' /\ ActsAsProved'
  BY <1>1, <1>3, <1>4 DEF PInv, ActsByClients, ActsAsProved, ReadName, Quiet
<1> QED BY <1>1, <1>2, <1>5, QuietKeeps, ReadNameTInv DEF PInv

\* Steps after which no client knows a session that it did not know before.
LEMMA LessKnown ==
  ASSUME PInv, TInv', data' = data, acted' = acted, AccountProved',
         \A c \in Clients, s \in Sessions : Knows(c, s)' => Knows(c, s),
         \A c \in Clients : proved[c] \subseteq proved'[c]
  PROVE  PInv'
<1>1. OneKnower'
  BY DEF PInv, OneKnower
<1>2. ASSUME NEW c \in Clients, NEW s \in Sessions, Knows(c, s)'
      PROVE  {data[s].userId, data[s].username} \subseteq proved'[c] \union {None}
  BY <1>2 DEF PInv, DataProved
<1>3. DataProved'
  BY <1>2 DEF DataProved
<1>4. ActsByClients' /\ ActsAsProved'
  BY DEF PInv, ActsByClients, ActsAsProved
<1> QED BY <1>1, <1>3, <1>4 DEF PInv

LEMMA RequestPInv ==
  ASSUME PInv, NEW t \in Threads, NEW c \in Clients, Request(t, c)
  PROVE  PInv'
<1>1. ASSUME NEW u \in Users \union {None}, NEW kind \in {"login", "logout", "other"},
             req' = [req EXCEPT ![t] = Arrived(c, kind, u)],
             \A d \in Clients : proved[d] \subseteq proved'[d],
             u # None => u \in proved'[c]
      PROVE  PInv'
  <2>1. data' = data /\ acted' = acted /\ cookie' = cookie
    BY DEF Request
  <2>2. /\ req'[t].session = None /\ req'[t].carried = cookie[c]
        /\ req'[t].client = c /\ req'[t].account = u
        /\ \A o \in Threads \ {t} : req'[o] = req[o]
    BY <1>1 DEF Arrived, PInv, TInv, Shape
  <2>3. AccountProved'
    <3>1. ASSUME NEW o \in Threads, o # t, req[o].account # None
          PROVE  req[o].client \in Clients /\ req[o].account \in proved'[req[o].client]
      BY <1>1, <3>1 DEF PInv, AccountProved
    <3> QED BY <1>1, <2>2, <3>1 DEF AccountProved
  <2>4. \A d \in Clients, s \in Sessions : Knows(d, s)' => Knows(d, s)
    BY <2>1, <2>2, LoginAssumption DEF Knows
  <2> QED BY <1>1, <2>1, <2>3, <2>4, LessKnown, RequestTInv DEF PInv
<1>2. ASSUME NEW kind \in {"logout", "other"}, req' = [req EXCEPT ![t] = Arrived(c, kind, None)],
             UNCHANGED proved
      PROVE  PInv'
  BY <1>1, <1>2
<1>3. ASSUME NEW u \in Users, req' = [req EXCEPT ![t] = Arrived(c, "login", u)],
             proved' = [proved EXCEPT ![c] = @ \union {u}]
      PROVE  PInv'
  <2>1. u \in proved'[c] /\ \A d \in Clients : proved[d] \subseteq proved'[d]
    BY <1>3 DEF PInv, TInv, Shape
  <2> QED BY <1>1, <1>3, <2>1
<1> QED BY <1>2, <1>3 DEF Request

LEMMA RespondPInv ==
  ASSUME PInv, NEW t \in Threads, Respond(t)
  PROVE  PInv'
<1>1. /\ data' = data /\ acted' = acted /\ proved' = proved
      /\ req'[t] = Idle /\ \A o \in Threads \ {t} : req'[o] = req[o]
  BY DEF Respond, seenVars, PInv, TInv, Shape
<1>2. AccountProved'
  BY <1>1 DEF PInv, AccountProved, Idle
<1>3. ASSUME NEW c \in Clients, cookie'[c] # cookie[c]
      PROVE  c = req[t].client /\ cookie'[c] = req[t].session
  BY <1>3 DEF Respond, PInv, TInv, Shape
<1>4. \A c \in Clients, s \in Sessions : Knows(c, s)' => Knows(c, s)
  BY <1>1, <1>3, LoginAssumption DEF Knows, Idle
<1> QED BY <1>1, <1>2, <1>4, LessKnown, RespondTInv DEF PInv

LEMMA TakeKnows ==
  ASSUME TInv, NEW t \in Threads, NEW s, NEW new \in BOOLEAN, Take(t, s, new)
  PROVE  \A o \in Threads : /\ req'[o].client = req[o].client
                            /\ req'[o].carried = req[o].carried
                            /\ req'[o].account = req[o].account
                            /\ req'[o].session = IF o = t THEN s ELSE req[o].session
BY DEF TInv, Shape, Requests, Take

LEMMA LoadPInv ==
  ASSUME PInv, NEW t \in Threads, LoadSession(t)
  PROVE  PInv'
<1>1. /\ data' = data /\ acted' = acted /\ proved' = proved /\ cookie' = cookie
      /\ Take(t, req[t].carried, FALSE)
  BY DEF LoadSession, seenVars
<1>2. AccountProved'
  BY <1>1, TakeKnows DEF PInv, AccountProved
<1>3. \A o \in Threads :
        /\ req'[o].client = req[o].client
        /\ req'[o].carried = req[o].carried
        /\ req'[o].session = IF o = t THEN req[t].carried ELSE req[o].session
  <2> DEFINE s == req[t].carried
  <2>1. Take(t, s, FALSE) /\ TInv
    BY <1>1 DEF PInv
  <2> HIDE DEF s
  <2>2. \A o \in Threads : /\ req'[o].client = req[o].client
                           /\ req'[o].carried = req[o].carried
                           /\ req'[o].session = IF o = t THEN s ELSE req[o].session
    BY <2>1, TakeKnows
  <2> QED BY <2>2 DEF s
<1>4. \A c \in Clients, s \in Sessions : Knows(c, s)' => Knows(c, s)
  BY <1>1, <1>3 DEF Knows
<1> QED BY <1>1, <1>2, <1>4, LessKnown, LoadTInv DEF PInv

\* The client of the request knows the new id, and nobody else does.
LEMMA CreatePInv ==
  ASSUME PInv, NEW t \in Threads, CreateSession(t)
  PROVE  PInv'
<1>1. PICK n \in Sessions \ used : Take(t, n, TRUE)
  BY DEF CreateSession, NewId
<1>2. /\ data' = data /\ acted' = acted /\ proved' = proved /\ cookie' = cookie
  BY DEF CreateSession, seenVars
<1>3. AccountProved'
  BY <1>1, <1>2, TakeKnows DEF PInv, AccountProved
<1>4. \A c \in Clients : ~Knows(c, n)
  BY <1>1, LoginAssumption DEF PInv, TInv, Unused, Knows
<1>5. ASSUME NEW c \in Clients, NEW s \in Sessions, Knows(c, s)'
      PROVE  Knows(c, s) \/ (s = n /\ c = req[t].client)
  <2>1. \A o \in Threads : /\ req'[o].client = req[o].client
                           /\ req'[o].carried = req[o].carried
                           /\ req'[o].session = IF o = t THEN n ELSE req[o].session
    BY <1>1, TakeKnows DEF PInv
  <2> QED BY <1>2, <1>5, <2>1 DEF Knows
<1>6. OneKnower'
  BY <1>4, <1>5 DEF PInv, OneKnower
<1>7. data[n].userId = None /\ data[n].username = None
  BY <1>1 DEF PInv, TInv, Unused, NoData
<1>8. DataProved'
  BY <1>2, <1>5, <1>7 DEF PInv, DataProved
<1>9. ActsByClients' /\ ActsAsProved'
  BY <1>2 DEF PInv, ActsByClients, ActsAsProved
<1> QED BY <1>3, <1>6, <1>8, <1>9, CreateTInv DEF PInv

LEMMA InitPInv == Init => PInv
<1> SUFFICES ASSUME Init PROVE PInv
  OBVIOUS
<1>1. \A c \in Clients, s \in Sessions : ~Knows(c, s)
  BY LoginAssumption DEF Init, Knows, Idle
<1> QED BY <1>1, InitTInv DEF Init, PInv, OneKnower, DataProved, AccountProved,
                              ActsByClients, ActsAsProved, Idle

LEMMA PStep == PInv /\ [Next]_vars => PInv'
<1> SUFFICES ASSUME PInv, [Next]_vars PROVE PInv'
  OBVIOUS
<1>1. ASSUME NEW t \in Threads, NEW c \in Clients, Request(t, c) PROVE PInv'
  BY <1>1, RequestPInv
<1>2. ASSUME NEW t \in Threads, LoadSession(t) PROVE PInv'
  BY <1>2, LoadPInv
<1>3. ASSUME NEW t \in Threads, CreateSession(t) PROVE PInv'
  BY <1>3, CreatePInv
<1>4. ASSUME NEW t \in Threads, Login(t) PROVE PInv'
  BY <1>4, WriteFieldPInv, SaveSessionPInv, CheckOnlinePInv, MarkOnlinePInv DEF Login
<1>5. ASSUME NEW t \in Threads, Logout(t) PROVE PInv'
  BY <1>5, ReadUserPInv, ClearPInv, DestroyPInv, EraseOnlinePInv DEF Logout
<1>6. ASSUME NEW t \in Threads, Serve(t) PROVE PInv'
  BY <1>6, CheckLoginPInv, ReadIdPInv, ReadNamePInv DEF Serve
<1>7. ASSUME NEW t \in Threads, Respond(t) PROVE PInv'
  BY <1>7, RespondPInv
<1>8. ASSUME NEW s \in Sessions, Expire(s) PROVE PInv'
  BY <1>8, ExpirePInv
<1>9. CASE UNCHANGED vars
  <2>1. Quiet /\ data' = data /\ acted' = acted
    BY <1>9 DEF vars, seenVars, Quiet
  <2> QED BY <1>9, <2>1, TStep, QuietPInv DEF PInv
<1> QED BY <1>1, <1>2, <1>3, <1>4, <1>5, <1>6, <1>7, <1>8, <1>9 DEF Next

\* A handler acts for an account only if the client behind the request gave its
\* password, in every order of logins, logouts, expiries and late saves: two
\* clients never know the same session id, since generateSessionId returns none
\* twice, and what a session holds was proved by the client that knows it.
THEOREM LoginSessionsActAsProved == Spec => []ActsAsProved
<1>1. Spec => []PInv
  BY InitPInv, PStep, PTL DEF Spec
<1>2. PInv => ActsAsProved
  BY DEF PInv
<1> QED BY <1>1, <1>2, PTL

-----------------------------------------------------------------------------
(* Sessions that no two handlers had at the same time.                     *)

\* Such a session has one handler at most.
OneHolder == \A s \in Sessions \ shared, t, o \in Threads :
               req[t].session = s /\ req[o].session = s => t = o

\* Its handlers find it cleared when they destroy it, ...
ClearedFirst == \A t \in Threads : At(t, "destroy") /\ req[t].session \notin shared
                                     => data[req[t].session] = NoData

\* ... and no handler that could change it has it when it was destroyed.
EndedGone ==
  \A s \in ended \ shared :
    /\ s \notin sessions /\ data[s] = NoData
    /\ \A t \in Threads : req[t].session = s => req[t].pc \in {"erase", "answer"}

FInv == TInv /\ OneHolder /\ ClearedFirst /\ EndedGone

\* The userId and the username it holds are of one account, but between the
\* first two writes of a login.
Coherent(s) == data[s].userId = data[s].username

Halfway(t) == \/ At(t, "save") /\ req[t].field = 1
              \/ At(t, "write") /\ req[t].field = 2

Agreement ==
  /\ \A s \in Sessions \ shared :
       (\A t \in Threads : req[t].session = s => ~Halfway(t)) => Coherent(s)
  /\ \A t \in Threads :
       /\ At(t, "getSession") => req[t].field = 1
       /\ req[t].session \notin shared =>
            /\ Halfway(t) => data[req[t].session].userId = req[t].account
            /\ At(t, "readName") => data[req[t].session].userId = req[t].account

AInv == TInv /\ OneHolder /\ Agreement /\ OneIdentity

LEMMA HoldersKept ==
  ASSUME OneHolder, shared' = shared, LoginAssumption,
         \A t \in Threads : req'[t].session \in {req[t].session, None}
  PROVE  OneHolder'
BY DEF OneHolder, LoginAssumption

\* A session somebody has is shared once another handler takes it.
LEMMA TakeOneHolder ==
  ASSUME TInv, OneHolder, NEW t \in Threads, At(t, "getSession"),
         NEW n \in Sessions, NEW new \in BOOLEAN, Take(t, n, new)
  PROVE  OneHolder' /\ shared \subseteq shared' /\ (n \notin shared' => ~Busy(n))
<1>1. shared' = IF Busy(n) THEN shared \union {n} ELSE shared
  BY DEF Take
<1>2. ASSUME NEW s \in Sessions \ shared', NEW o \in Threads, NEW q \in Threads,
             req'[o].session = s, req'[q].session = s
      PROVE  o = q
  <2>1. CASE s = n
    BY <1>1, <1>2, <2>1, TakeKnows DEF Busy
  <2>2. CASE s # n
    BY <1>1, <1>2, <2>2, TakeKnows DEF OneHolder
  <2> QED BY <2>1, <2>2
<1> QED BY <1>1, <1>2 DEF OneHolder

LEMMA WriteFieldFInv ==
  ASSUME FInv, NEW t \in Threads, WriteField(t)
  PROVE  FInv'
<1>0. req[t].session \in Sessions
  BY HandlerHolds DEF FInv, WriteField, At
<1>1. /\ req' = [req EXCEPT ![t].pc = "save"]
      /\ UNCHANGED <<sessions, ended, shared>>
  BY DEF WriteField, Goto, storeVars, seenVars
<1>2. \A s \in Sessions \ {req[t].session} : data'[s] = data[s]
  BY <1>0 DEF WriteField, FInv, TInv, Shape
<1>3. /\ \A o \in Threads : req'[o].session = req[o].session
      /\ \A o \in Threads \ {t} : req'[o] = req[o]
      /\ req[t].pc = "write" /\ req'[t].pc = "save"
  BY <1>1 DEF FInv, TInv, Shape, Requests, WriteField, At
<1>4. OneHolder'
  BY <1>1, <1>3, HoldersKept, LoginAssumption DEF FInv
<1>5. ClearedFirst'
  <2>1. ASSUME NEW o \in Threads, o # t, req[o].pc = "destroy", req[o].session \notin shared
        PROVE  data'[req[o].session] = NoData
    <3>1. req[o].session \in Sessions
      BY <2>1, HandlerHolds DEF FInv
    <3>2. req[o].session # req[t].session
      BY <2>1, <3>1 DEF FInv, OneHolder
    <3> QED BY <1>2, <2>1, <3>1, <3>2 DEF FInv, ClearedFirst, At
  <2> QED BY <1>1, <1>3, <2>1 DEF ClearedFirst, At
<1>6. EndedGone'
  <2>1. req[t].session \notin ended \ shared
    BY <1>3 DEF FInv, EndedGone
  <2>2. ended \subseteq Sessions
    BY DEF FInv, TInv, Unused
  <2> QED BY <1>1, <1>2, <1>3, <2>1, <2>2 DEF FInv, EndedGone
<1> QED BY <1>4, <1>5, <1>6, WriteFieldTInv DEF FInv

LEMMA SaveSessionFInv ==
  ASSUME FInv, NEW t \in Threads, SaveSession(t)
  PROVE  FInv'
<1>0. req[t].session \in Sessions
  BY HandlerHolds DEF FInv, SaveSession, At
<1>1. /\ \A o \in Threads : req'[o].session = req[o].session
      /\ \A o \in Threads \ {t} : req'[o] = req[o]
      /\ shared' = shared
  BY DEF FInv, TInv, Shape, Requests, SaveSession, Goto
<1>2. OneHolder'
  BY <1>1, HoldersKept, LoginAssumption DEF FInv
<1>3. ClearedFirst'
  BY <1>0, <1>1 DEF FInv, TInv, Shape, Requests, OneHolder, ClearedFirst, EndedGone, SaveSession, At, Goto
<1>4. EndedGone'
  BY <1>0, <1>1 DEF FInv, TInv, Shape, Requests, OneHolder, ClearedFirst, EndedGone, SaveSession, At, Goto, storeVars,
     seenVars
<1> QED BY <1>2, <1>3, <1>4, SaveSessionTInv DEF FInv

LEMMA CheckOnlineFInv ==
  ASSUME FInv, NEW t \in Threads, CheckOnline(t)
  PROVE  FInv'
<1>0. req[t].session \in Sessions
  BY HandlerHolds DEF FInv, CheckOnline, At
<1>1. /\ \A o \in Threads : req'[o].session = req[o].session
      /\ \A o \in Threads \ {t} : req'[o] = req[o]
      /\ shared' = shared
  BY DEF FInv, TInv, Shape, Requests, CheckOnline, Goto
<1>2. OneHolder'
  BY <1>1, HoldersKept, LoginAssumption DEF FInv
<1>3. ClearedFirst'
  BY <1>0, <1>1 DEF FInv, TInv, Shape, Requests, OneHolder, ClearedFirst, EndedGone, CheckOnline, At, Goto
<1>4. EndedGone'
  BY <1>0, <1>1 DEF FInv, TInv, Shape, Requests, OneHolder, ClearedFirst, EndedGone, CheckOnline, At, Goto, storeVars,
     seenVars
<1> QED BY <1>2, <1>3, <1>4, CheckOnlineTInv DEF FInv

LEMMA MarkOnlineFInv ==
  ASSUME FInv, NEW t \in Threads, MarkOnline(t)
  PROVE  FInv'
<1>0. req[t].session \in Sessions
  BY HandlerHolds DEF FInv, MarkOnline, At
<1>1. /\ \A o \in Threads : req'[o].session = req[o].session
      /\ \A o \in Threads \ {t} : req'[o] = req[o]
      /\ shared' = shared
  BY DEF FInv, TInv, Shape, Requests, MarkOnline, Goto
<1>2. OneHolder'
  BY <1>1, HoldersKept, LoginAssumption DEF FInv
<1>3. ClearedFirst'
  BY <1>0, <1>1 DEF FInv, TInv, Shape, Requests, OneHolder, ClearedFirst, EndedGone, MarkOnline, At, Goto
<1>4. EndedGone'
  BY <1>0, <1>1 DEF FInv, TInv, Shape, Requests, OneHolder, ClearedFirst, EndedGone, MarkOnline, At, Goto, storeVars,
     seenVars
<1> QED BY <1>2, <1>3, <1>4, MarkOnlineTInv DEF FInv

LEMMA ReadUserFInv ==
  ASSUME FInv, NEW t \in Threads, ReadUser(t)
  PROVE  FInv'
<1>0. req[t].session \in Sessions
  BY HandlerHolds DEF FInv, ReadUser, At
<1>1. /\ \A o \in Threads : req'[o].session = req[o].session
      /\ \A o \in Threads \ {t} : req'[o] = req[o]
      /\ shared' = shared
  BY DEF FInv, TInv, Shape, Requests, ReadUser, Goto
<1>2. OneHolder'
  BY <1>1, HoldersKept, LoginAssumption DEF FInv
<1>3. ClearedFirst'
  BY <1>0, <1>1 DEF FInv, TInv, Shape, Requests, OneHolder, ClearedFirst, EndedGone, ReadUser, At, Goto
<1>4. EndedGone'
  BY <1>0, <1>1 DEF FInv, TInv, Shape, Requests, OneHolder, ClearedFirst, EndedGone, ReadUser, At, Goto, storeVars,
     seenVars
<1> QED BY <1>2, <1>3, <1>4, ReadUserTInv DEF FInv

LEMMA ClearFInv ==
  ASSUME FInv, NEW t \in Threads, Clear(t)
  PROVE  FInv'
<1>0. req[t].session \in Sessions
  BY HandlerHolds DEF FInv, Clear, At
<1>1. /\ \A o \in Threads : req'[o].session = req[o].session
      /\ \A o \in Threads \ {t} : req'[o] = req[o]
      /\ shared' = shared
  BY DEF FInv, TInv, Shape, Requests, Clear, Goto
<1>2. OneHolder'
  BY <1>1, HoldersKept, LoginAssumption DEF FInv
<1>3. ClearedFirst'
  BY <1>0, <1>1 DEF FInv, TInv, Shape, Requests, OneHolder, ClearedFirst, EndedGone, Clear, At, Goto
<1>4. EndedGone'
  BY <1>0, <1>1 DEF FInv, TInv, Shape, Requests, OneHolder, ClearedFirst, EndedGone, Clear, At, Goto, storeVars,
     seenVars
<1> QED BY <1>2, <1>3, <1>4, ClearTInv DEF FInv

LEMMA DestroyFInv ==
  ASSUME FInv, NEW t \in Threads, Destroy(t)
  PROVE  FInv'
<1>0. req[t].session \in Sessions
  BY HandlerHolds DEF FInv, Destroy, At
<1>1. /\ \A o \in Threads : req'[o].session = req[o].session
      /\ \A o \in Threads \ {t} : req'[o] = req[o]
      /\ shared' = shared
  BY DEF FInv, TInv, Shape, Requests, Destroy, Goto
<1>2. OneHolder'
  BY <1>1, HoldersKept, LoginAssumption DEF FInv
<1>3. ClearedFirst'
  BY <1>0, <1>1 DEF FInv, TInv, Shape, Requests, OneHolder, ClearedFirst, EndedGone, Destroy, At, Goto
<1>4. EndedGone'
  BY <1>0, <1>1 DEF FInv, TInv, Shape, Requests, OneHolder, ClearedFirst, EndedGone, Destroy, At, Goto, storeVars,
     seenVars
<1> QED BY <1>2, <1>3, <1>4, DestroyTInv DEF FInv

LEMMA EraseOnlineFInv ==
  ASSUME FInv, NEW t \in Threads, EraseOnline(t)
  PROVE  FInv'
<1>0. req[t].session \in Sessions
  BY HandlerHolds DEF FInv, EraseOnline, At
<1>1. /\ \A o \in Threads : req'[o].session = req[o].session
      /\ \A o \in Threads \ {t} : req'[o] = req[o]
      /\ shared' = shared
  BY DEF FInv, TInv, Shape, Requests, EraseOnline, Goto
<1>2. OneHolder'
  BY <1>1, HoldersKept, LoginAssumption DEF FInv
<1>3. ClearedFirst'
  BY <1>0, <1>1 DEF FInv, TInv, Shape, Requests, OneHolder, ClearedFirst, EndedGone, EraseOnline, At, Goto
<1>4. EndedGone'
  BY <1>0, <1>1 DEF FInv, TInv, Shape, Requests, OneHolder, ClearedFirst, EndedGone, EraseOnline, At, Goto, storeVars,
     seenVars
<1> QED BY <1>2, <1>3, <1>4, EraseOnlineTInv DEF FInv

LEMMA CheckLoginFInv ==
  ASSUME FInv, NEW t \in Threads, CheckLogin(t)
  PROVE  FInv'
<1>0. req[t].session \in Sessions
  BY HandlerHolds DEF FInv, CheckLogin, At
<1>1. /\ \A o \in Threads : req'[o].session = req[o].session
      /\ \A o \in Threads \ {t} : req'[o] = req[o]
      /\ shared' = shared
  BY DEF FInv, TInv, Shape, Requests, CheckLogin, Goto
<1>2. OneHolder'
  BY <1>1, HoldersKept, LoginAssumption DEF FInv
<1>3. ClearedFirst'
  BY <1>0, <1>1 DEF FInv, TInv, Shape, Requests, OneHolder, ClearedFirst, EndedGone, CheckLogin, At, Goto
<1>4. EndedGone'
  BY <1>0, <1>1 DEF FInv, TInv, Shape, Requests, OneHolder, ClearedFirst, EndedGone, CheckLogin, At, Goto, storeVars,
     seenVars
<1> QED BY <1>2, <1>3, <1>4, CheckLoginTInv DEF FInv

LEMMA ReadIdFInv ==
  ASSUME FInv, NEW t \in Threads, ReadId(t)
  PROVE  FInv'
<1>0. req[t].session \in Sessions
  BY HandlerHolds DEF FInv, ReadId, At
<1>1. /\ \A o \in Threads : req'[o].session = req[o].session
      /\ \A o \in Threads \ {t} : req'[o] = req[o]
      /\ shared' = shared
  BY DEF FInv, TInv, Shape, Requests, ReadId, Goto
<1>2. OneHolder'
  BY <1>1, HoldersKept, LoginAssumption DEF FInv
<1>3. ClearedFirst'
  BY <1>0, <1>1 DEF FInv, TInv, Shape, Requests, OneHolder, ClearedFirst, EndedGone, ReadId, At, Goto
<1>4. EndedGone'
  BY <1>0, <1>1 DEF FInv, TInv, Shape, Requests, OneHolder, ClearedFirst, EndedGone, ReadId, At, Goto, storeVars,
     seenVars
<1> QED BY <1>2, <1>3, <1>4, ReadIdTInv DEF FInv

LEMMA ReadNameFInv ==
  ASSUME FInv, NEW t \in Threads, ReadName(t)
  PROVE  FInv'
<1>0. req[t].session \in Sessions
  BY HandlerHolds DEF FInv, ReadName, At
<1>1. /\ \A o \in Threads : req'[o].session = req[o].session
      /\ \A o \in Threads \ {t} : req'[o] = req[o]
      /\ shared' = shared
  BY DEF FInv, TInv, Shape, Requests, ReadName, Goto
<1>2. OneHolder'
  BY <1>1, HoldersKept, LoginAssumption DEF FInv
<1>3. ClearedFirst'
  BY <1>0, <1>1 DEF FInv, TInv, Shape, Requests, OneHolder, ClearedFirst, EndedGone, ReadName, At, Goto
<1>4. EndedGone'
  BY <1>0, <1>1 DEF FInv, TInv, Shape, Requests, OneHolder, ClearedFirst, EndedGone, ReadName, At, Goto, storeVars,
     seenVars
<1> QED BY <1>2, <1>3, <1>4, ReadNameTInv DEF FInv

\* A request begins or ends, and no session changes.
LEMMA EdgeFInv ==
  ASSUME FInv, NEW t \in Threads, TInv',
         req'[t].session = None, req'[t].pc # "destroy",
         \A o \in Threads \ {t} : req'[o] = req[o],
         UNCHANGED <<sessions, data, ended, shared>>
  PROVE  FInv'
<1>1. OneHolder'
  BY HoldersKept, LoginAssumption DEF FInv
<1>2. ClearedFirst'
  BY DEF FInv, ClearedFirst, At
<1>3. EndedGone'
  BY LoginAssumption DEF FInv, TInv, Unused, EndedGone
<1> QED BY <1>1, <1>2, <1>3 DEF FInv

LEMMA RequestEdge ==
  ASSUME TInv, NEW t \in Threads, NEW c \in Clients, Request(t, c)
  PROVE  /\ req'[t].session = None /\ req'[t].pc = "getSession" /\ req'[t].field = 1
         /\ \A o \in Threads \ {t} : req'[o] = req[o]
         /\ UNCHANGED <<sessions, data, ended, shared, acted>>
<1>1. PICK kind \in {"login", "logout", "other"}, u \in Users \union {None} :
        req' = [req EXCEPT ![t] = Arrived(c, kind, u)]
  BY DEF Request
<1>2. req'[t] = Arrived(c, kind, u) /\ \A o \in Threads \ {t} : req'[o] = req[o]
  BY <1>1 DEF TInv, Shape
<1>3. UNCHANGED <<sessions, data, ended, shared, acted>>
  BY DEF Request, storeVars
<1> QED BY <1>2, <1>3 DEF Arrived

LEMMA RespondEdge ==
  ASSUME TInv, NEW t \in Threads, Respond(t)
  PROVE  /\ req'[t] = Idle /\ req[t].pc = "answer"
         /\ \A o \in Threads \ {t} : req'[o] = req[o]
         /\ UNCHANGED <<sessions, data, ended, shared, acted>>
BY DEF TInv, Shape, Respond, At, storeVars, seenVars

\* What a handler does when getSession has returned session n to it.
LEMMA TakePlace ==
  ASSUME TInv, NEW t \in Threads, NEW n, NEW new \in BOOLEAN, Take(t, n, new)
  PROVE  /\ req'[t].pc \in {"write", "readUser", "check"} /\ req'[t].session = n
         /\ req'[t].field = req[t].field
         /\ \A o \in Threads \ {t} : req'[o] = req[o]
BY DEF TInv, Shape, Requests, Take, AfterSession

LEMMA TakeFInv ==
  ASSUME FInv, TInv', NEW t \in Threads, At(t, "getSession"), NEW n \in Sessions,
         NEW new \in BOOLEAN, Take(t, n, new), n \notin ended \ shared,
         sessions' \subseteq sessions \union {n}, UNCHANGED <<data, ended>>
  PROVE  FInv'
<1>1. OneHolder' /\ shared \subseteq shared'
  BY TakeOneHolder DEF FInv
<1>2. /\ req'[t].pc \in {"write", "readUser", "check"} /\ req'[t].session = n
      /\ \A o \in Threads \ {t} : req'[o] = req[o]
  BY TakePlace DEF FInv
<1>3. ClearedFirst'
  BY <1>1, <1>2 DEF FInv, ClearedFirst, At
<1>4. EndedGone'
  BY <1>1, <1>2 DEF FInv, EndedGone
<1> QED BY <1>1, <1>3, <1>4 DEF FInv

LEMMA LoadFInv ==
  ASSUME FInv, NEW t \in Threads, LoadSession(t)
  PROVE  FInv'
<1>1. /\ At(t, "getSession") /\ Take(t, req[t].carried, FALSE)
      /\ req[t].carried \in sessions
      /\ UNCHANGED <<sessions, data, ended>>
  BY DEF LoadSession, storeVars, seenVars
<1>2. req[t].carried \in Sessions /\ req[t].carried \notin ended \ shared
  BY <1>1 DEF FInv, TInv, Unused, EndedGone
<1> QED BY <1>1, <1>2, LoadTInv, TakeFInv DEF FInv

LEMMA CreateFInv ==
  ASSUME FInv, NEW t \in Threads, CreateSession(t)
  PROVE  FInv'
<1>1. PICK n \in Sessions \ used : /\ Take(t, n, TRUE)
                                   /\ sessions' \subseteq sessions \union {n}
  BY DEF CreateSession, NewId
<1>2. At(t, "getSession") /\ UNCHANGED <<data, ended>>
  BY DEF CreateSession, seenVars
<1>3. n \notin ended
  BY <1>1 DEF FInv, TInv, Unused
<1> QED BY <1>1, <1>2, <1>3, CreateTInv, TakeFInv DEF FInv

LEMMA InitFInv == Init => FInv
BY InitTInv, LoginAssumption DEF Init, FInv, OneHolder, ClearedFirst, EndedGone, At, Idle

LEMMA FStep == FInv /\ [Next]_vars => FInv'
<1> SUFFICES ASSUME FInv, [Next]_vars PROVE FInv'
  OBVIOUS
<1>1. ASSUME NEW t \in Threads, NEW c \in Clients, Request(t, c) PROVE FInv'
  BY <1>1, RequestEdge, RequestTInv, EdgeFInv DEF FInv
<1>2. ASSUME NEW t \in Threads, LoadSession(t) PROVE FInv'
  BY <1>2, LoadFInv
<1>3. ASSUME NEW t \in Threads, CreateSession(t) PROVE FInv'
  BY <1>3, CreateFInv
<1>4. ASSUME NEW t \in Threads, Login(t) PROVE FInv'
  BY <1>4, WriteFieldFInv, SaveSessionFInv, CheckOnlineFInv, MarkOnlineFInv DEF Login
<1>5. ASSUME NEW t \in Threads, Logout(t) PROVE FInv'
  BY <1>5, ReadUserFInv, ClearFInv, DestroyFInv, EraseOnlineFInv DEF Logout
<1>6. ASSUME NEW t \in Threads, Serve(t) PROVE FInv'
  BY <1>6, CheckLoginFInv, ReadIdFInv, ReadNameFInv DEF Serve
<1>7. ASSUME NEW t \in Threads, Respond(t) PROVE FInv'
  BY <1>7, RespondEdge, RespondTInv, EdgeFInv DEF FInv, Idle
<1>8. ASSUME NEW s \in Sessions, Expire(s) PROVE FInv'
  BY <1>8, ExpireTInv DEF FInv, OneHolder, ClearedFirst, EndedGone, At, Expire, seenVars
<1>9. CASE UNCHANGED vars
  BY <1>9, TStep DEF FInv, OneHolder, ClearedFirst, EndedGone, At, vars, storeVars, seenVars
<1> QED BY <1>1, <1>2, <1>3, <1>4, <1>5, <1>6, <1>7, <1>8, <1>9 DEF Next

\* A session destroyed by a logout that was its only handler is gone for good:
\* no later save (updateSession stores whatever it is given) brings it back, and
\* its data stays cleared.
THEOREM LoginSessionsLogoutIsFinal == Spec => []LogoutIsFinal
<1>1. Spec => []FInv
  BY InitFInv, FStep, PTL DEF Spec
<1>2. FInv => LogoutIsFinal
  BY DEF FInv, EndedGone, LogoutIsFinal
<1> QED BY <1>1, <1>2, PTL

-----------------------------------------------------------------------------
(* Steps that change no session: only the request of t may change.         *)

LEMMA KeptAInv ==
  ASSUME AInv, TInv', NEW t \in Threads,
         \A o \in Threads : req'[o].session = req[o].session,
         \A o \in Threads \ {t} : req'[o] = req[o],
         shared' = shared, data' = data, acted' = acted,
         Halfway(t)' <=> Halfway(t),
         Halfway(t) => req'[t].account = req[t].account,
         ~At(t, "getSession")',
         At(t, "readName")' => req'[t].account = data[req[t].session].userId
  PROVE  AInv'
<1>1. OneHolder'
  BY HoldersKept, LoginAssumption DEF AInv
<1>2. \A o \in Threads : Halfway(o)' <=> Halfway(o)
  BY DEF Halfway, At
<1>3. ASSUME NEW s \in Sessions \ shared, ~Coherent(s)
      PROVE  \E o \in Threads : req'[o].session = s /\ Halfway(o)'
  BY <1>2, <1>3 DEF AInv, Agreement
<1>4. ASSUME NEW o \in Threads
      PROVE  /\ At(o, "getSession")' => req'[o].field = 1
             /\ req'[o].session \notin shared =>
                  /\ Halfway(o)' => data[req'[o].session].userId = req'[o].account
                  /\ At(o, "readName")' => data[req'[o].session].userId = req'[o].account
  <2>1. CASE o = t
    BY <2>1, <1>2 DEF AInv, Agreement
  <2>2. CASE o # t
    BY <2>2, <1>2 DEF AInv, Agreement, At
  <2> QED BY <2>1, <2>2
<1>5. Agreement'
  BY <1>3, <1>4 DEF Agreement, Coherent
<1> QED BY <1>1, <1>5 DEF AInv, OneIdentity

LEMMA SaveSessionAInv ==
  ASSUME AInv, NEW t \in Threads, SaveSession(t)
  PROVE  AInv'
<1>1. /\ \A o \in Threads : req'[o].session = req[o].session
      /\ \A o \in Threads \ {t} : req'[o] = req[o]
      /\ shared' = shared /\ data' = data /\ acted' = acted
  BY DEF AInv, TInv, Shape, Requests, SaveSession, Goto, seenVars
<1>2. /\ Halfway(t)' <=> Halfway(t)
      /\ Halfway(t) => req'[t].account = req[t].account
      /\ ~At(t, "getSession")'
      /\ At(t, "readName")' => req'[t].account = data[req[t].session].userId
  BY DEF AInv, TInv, Shape, Requests, SaveSession, At, Goto, Halfway, Fields
<1> QED BY <1>1, <1>2, SaveSessionTInv, KeptAInv DEF AInv

LEMMA CheckOnlineAInv ==
  ASSUME AInv, NEW t \in Threads, CheckOnline(t)
  PROVE  AInv'
<1>1. /\ \A o \in Threads : req'[o].session = req[o].session
      /\ \A o \in Threads \ {t} : req'[o] = req[o]
      /\ shared' = shared /\ data' = data /\ acted' = acted
  BY DEF AInv, TInv, Shape, Requests, CheckOnline, Goto, seenVars
<1>2. /\ Halfway(t)' <=> Halfway(t)
      /\ Halfway(t) => req'[t].account = req[t].account
      /\ ~At(t, "getSession")'
      /\ At(t, "readName")' => req'[t].account = data[req[t].session].userId
  BY DEF AInv, TInv, Shape, Requests, CheckOnline, At, Goto, Halfway, Fields
<1> QED BY <1>1, <1>2, CheckOnlineTInv, KeptAInv DEF AInv

LEMMA MarkOnlineAInv ==
  ASSUME AInv, NEW t \in Threads, MarkOnline(t)
  PROVE  AInv'
<1>1. /\ \A o \in Threads : req'[o].session = req[o].session
      /\ \A o \in Threads \ {t} : req'[o] = req[o]
      /\ shared' = shared /\ data' = data /\ acted' = acted
  BY DEF AInv, TInv, Shape, Requests, MarkOnline, Goto, seenVars
<1>2. /\ Halfway(t)' <=> Halfway(t)
      /\ Halfway(t) => req'[t].account = req[t].account
      /\ ~At(t, "getSession")'
      /\ At(t, "readName")' => req'[t].account = data[req[t].session].userId
  BY DEF AInv, TInv, Shape, Requests, MarkOnline, At, Goto, Halfway, Fields
<1> QED BY <1>1, <1>2, MarkOnlineTInv, KeptAInv DEF AInv

LEMMA ReadUserAInv ==
  ASSUME AInv, NEW t \in Threads, ReadUser(t)
  PROVE  AInv'
<1>1. /\ \A o \in Threads : req'[o].session = req[o].session
      /\ \A o \in Threads \ {t} : req'[o] = req[o]
      /\ shared' = shared /\ data' = data /\ acted' = acted
  BY DEF AInv, TInv, Shape, Requests, ReadUser, Goto, seenVars
<1>2. /\ Halfway(t)' <=> Halfway(t)
      /\ Halfway(t) => req'[t].account = req[t].account
      /\ ~At(t, "getSession")'
      /\ At(t, "readName")' => req'[t].account = data[req[t].session].userId
  BY DEF AInv, TInv, Shape, Requests, ReadUser, At, Goto, Halfway, Fields
<1> QED BY <1>1, <1>2, ReadUserTInv, KeptAInv DEF AInv

LEMMA DestroyAInv ==
  ASSUME AInv, NEW t \in Threads, Destroy(t)
  PROVE  AInv'
<1>1. /\ \A o \in Threads : req'[o].session = req[o].session
      /\ \A o \in Threads \ {t} : req'[o] = req[o]
      /\ shared' = shared /\ data' = data /\ acted' = acted
  BY DEF AInv, TInv, Shape, Requests, Destroy, Goto, seenVars
<1>2. /\ Halfway(t)' <=> Halfway(t)
      /\ Halfway(t) => req'[t].account = req[t].account
      /\ ~At(t, "getSession")'
      /\ At(t, "readName")' => req'[t].account = data[req[t].session].userId
  BY DEF AInv, TInv, Shape, Requests, Destroy, At, Goto, Halfway, Fields
<1> QED BY <1>1, <1>2, DestroyTInv, KeptAInv DEF AInv

LEMMA EraseOnlineAInv ==
  ASSUME AInv, NEW t \in Threads, EraseOnline(t)
  PROVE  AInv'
<1>1. /\ \A o \in Threads : req'[o].session = req[o].session
      /\ \A o \in Threads \ {t} : req'[o] = req[o]
      /\ shared' = shared /\ data' = data /\ acted' = acted
  BY DEF AInv, TInv, Shape, Requests, EraseOnline, Goto, seenVars
<1>2. /\ Halfway(t)' <=> Halfway(t)
      /\ Halfway(t) => req'[t].account = req[t].account
      /\ ~At(t, "getSession")'
      /\ At(t, "readName")' => req'[t].account = data[req[t].session].userId
  BY DEF AInv, TInv, Shape, Requests, EraseOnline, At, Goto, Halfway, Fields
<1> QED BY <1>1, <1>2, EraseOnlineTInv, KeptAInv DEF AInv

LEMMA CheckLoginAInv ==
  ASSUME AInv, NEW t \in Threads, CheckLogin(t)
  PROVE  AInv'
<1>1. /\ \A o \in Threads : req'[o].session = req[o].session
      /\ \A o \in Threads \ {t} : req'[o] = req[o]
      /\ shared' = shared /\ data' = data /\ acted' = acted
  BY DEF AInv, TInv, Shape, Requests, CheckLogin, Goto, seenVars
<1>2. /\ Halfway(t)' <=> Halfway(t)
      /\ Halfway(t) => req'[t].account = req[t].account
      /\ ~At(t, "getSession")'
      /\ At(t, "readName")' => req'[t].account = data[req[t].session].userId
  BY DEF AInv, TInv, Shape, Requests, CheckLogin, At, Goto, Halfway, Fields
<1> QED BY <1>1, <1>2, CheckLoginTInv, KeptAInv DEF AInv

LEMMA ReadIdAInv ==
  ASSUME AInv, NEW t \in Threads, ReadId(t)
  PROVE  AInv'
<1>1. /\ \A o \in Threads : req'[o].session = req[o].session
      /\ \A o \in Threads \ {t} : req'[o] = req[o]
      /\ shared' = shared /\ data' = data /\ acted' = acted
  BY DEF AInv, TInv, Shape, Requests, ReadId, Goto, seenVars
<1>2. /\ Halfway(t)' <=> Halfway(t)
      /\ Halfway(t) => req'[t].account = req[t].account
      /\ ~At(t, "getSession")'
      /\ At(t, "readName")' => req'[t].account = data[req[t].session].userId
  BY DEF AInv, TInv, Shape, Requests, ReadId, At, Goto, Halfway, Fields
<1> QED BY <1>1, <1>2, ReadIdTInv, KeptAInv DEF AInv

-----------------------------------------------------------------------------
(* Steps that write or read the fields of a session.                       *)

\* The handler t is the only one that can disturb what a session h holds.
LEMMA OwnerAInv ==
  ASSUME AInv, TInv', NEW t \in Threads, NEW h \in Sessions, req[t].session = h,
         \A o \in Threads : req'[o].session = req[o].session,
         \A o \in Threads \ {t} : req'[o] = req[o],
         shared' = shared, acted' = acted,
         \A s \in Sessions \ {h} : data'[s] = data[s],
         ~Halfway(t) => Coherent(h) \/ h \in shared,
         h \notin shared => /\ Coherent(h)' \/ Halfway(t)'
                            /\ Halfway(t)' => data'[h].userId = req'[t].account,
         ~At(t, "getSession")', ~At(t, "readName")'
  PROVE  AInv'
<1>1. OneHolder'
  BY HoldersKept, LoginAssumption DEF AInv
<1>2. ASSUME NEW s \in Sessions \ shared, ~Coherent(s)'
      PROVE  \E o \in Threads : req'[o].session = s /\ Halfway(o)'
  <2>1. CASE s = h
    BY <2>1, <1>2
  <2>2. CASE s # h
    <3>1. ~Coherent(s)
      BY <1>2, <2>2 DEF Coherent
    <3>2. PICK o \in Threads : req[o].session = s /\ Halfway(o)
      BY <3>1 DEF AInv, Agreement
    <3> QED BY <3>2, <2>2 DEF Halfway, At
  <2> QED BY <2>1, <2>2
<1>3. ASSUME NEW o \in Threads
      PROVE  /\ At(o, "getSession")' => req'[o].field = 1
             /\ req'[o].session \notin shared =>
                  /\ Halfway(o)' => data'[req'[o].session].userId = req'[o].account
                  /\ At(o, "readName")' => data'[req'[o].session].userId = req'[o].account
  <2>1. CASE o = t
    BY <2>1
  <2>2. CASE o # t
    <3>1. ASSUME req[o].session \notin shared, req[o].pc \in {"save", "write", "readName"}
          PROVE  data'[req[o].session] = data[req[o].session]
      BY <2>2, <3>1, HandlerHolds DEF AInv, OneHolder
    <3> QED BY <2>2, <3>1 DEF AInv, Agreement, Halfway, At
  <2> QED BY <2>1, <2>2
<1>4. Agreement'
  BY <1>2, <1>3 DEF Agreement
<1> QED BY <1>1, <1>4 DEF AInv, OneIdentity

LEMMA OwnCoherent ==
  ASSUME AInv, NEW t \in Threads, req[t].session \in Sessions, ~Halfway(t),
         req[t].session \notin shared
  PROVE  Coherent(req[t].session)
BY DEF AInv, Agreement, OneHolder

LEMMA ClearAInv ==
  ASSUME AInv, NEW t \in Threads, Clear(t)
  PROVE  AInv'
<1> DEFINE h == req[t].session
<1>1. h \in Sessions
  BY HandlerHolds DEF AInv, Clear, At
<1>2. /\ \A o \in Threads : req'[o].session = req[o].session
      /\ \A o \in Threads \ {t} : req'[o] = req[o]
      /\ req[t].pc = "clear" /\ req'[t].pc = "destroy"
      /\ shared' = shared /\ acted' = acted
  BY DEF AInv, TInv, Shape, Requests, Clear, At, Goto, seenVars
<1>3. data'[h] = NoData /\ \A s \in Sessions \ {h} : data'[s] = data[s]
  BY <1>1 DEF AInv, TInv, Shape, Clear
<1>4. ~Halfway(t) /\ ~Halfway(t)' /\ ~At(t, "getSession")' /\ ~At(t, "readName")'
  BY <1>2 DEF Halfway, At
<1>5. Coherent(h)'
  BY <1>2, <1>3 DEF Coherent, NoData
<1> QED BY <1>1, <1>2, <1>3, <1>4, <1>5, ClearTInv, OwnerAInv, OwnCoherent DEF AInv

LEMMA WriteFieldAInv ==
  ASSUME AInv, NEW t \in Threads, WriteField(t)
  PROVE  AInv'
<1> DEFINE h == req[t].session
           u == req[t].account
<1>1. h \in Sessions /\ data \in [Sessions -> Data] /\ data[h] \in Data
  BY HandlerHolds DEF AInv, TInv, Shape, WriteField, At
<1>2. /\ req' = [req EXCEPT ![t].pc = "save"] /\ req[t].pc = "write"
      /\ UNCHANGED <<shared, acted>>
  BY DEF WriteField, Goto, At, seenVars
<1>3. /\ \A o \in Threads : req'[o].session = req[o].session
      /\ \A o \in Threads \ {t} : req'[o] = req[o]
      /\ req'[t].pc = "save" /\ req'[t].field = req[t].field /\ req'[t].account = u
  BY <1>2 DEF AInv, TInv, Shape, Requests
<1>4. \A s \in Sessions \ {h} : data'[s] = data[s]
  BY <1>1 DEF WriteField
<1>5. ~At(t, "getSession")' /\ ~At(t, "readName")'
  BY <1>3 DEF At
<1>6. data[h] = [userId |-> data[h].userId, username |-> data[h].username,
                 isLoggedIn |-> data[h].isLoggedIn]
  BY <1>1 DEF Data
<1>7. ~Halfway(t) => Coherent(h) \/ h \in shared
  BY <1>1, OwnCoherent
<1>8. h \notin shared => /\ Coherent(h)' \/ Halfway(t)'
                         /\ Halfway(t)' => data'[h].userId = u
  <2>1. CASE req[t].field = 1
    <3>1. data'[h].userId = u
      BY <1>1, <1>6, <2>1 DEF WriteField, Fields
    <3> QED BY <1>3, <2>1, <3>1 DEF Halfway, At
  <2>2. CASE req[t].field = 2
    <3>1. data'[h].userId = data[h].userId /\ data'[h].username = u
      BY <1>1, <1>6, <2>2 DEF WriteField, Fields
    <3>2. h \notin shared => data[h].userId = u
      BY <1>2, <2>2 DEF AInv, Agreement, Halfway, At
    <3> QED BY <1>3, <2>2, <3>1, <3>2 DEF Halfway, At, Coherent
  <2>3. CASE req[t].field = 3
    <3>1. data'[h].userId = data[h].userId /\ data'[h].username = data[h].username
      BY <1>1, <1>6, <2>3 DEF WriteField, Fields
    <3>2. ~Halfway(t) /\ ~Halfway(t)'
      BY <1>2, <1>3, <2>3 DEF Halfway, At
    <3> QED BY <1>3, <1>7, <3>1, <3>2 DEF Coherent
  <2> QED BY <2>1, <2>2, <2>3 DEF AInv, TInv, Shape, Requests
<1> QED BY <1>1, <1>2, <1>3, <1>4, <1>5, <1>7, <1>8, WriteFieldTInv, OwnerAInv DEF AInv

\* The second read of a handler: it has read the userId of its session.
LEMMA ReadNameAInv ==
  ASSUME AInv, NEW t \in Threads, ReadName(t)
  PROVE  AInv'
<1> DEFINE h == req[t].session
<1>1. /\ h \in Sessions /\ req[t].pc = "readName"
      /\ \A o \in Threads : req'[o].session = req[o].session
      /\ \A o \in Threads \ {t} : req'[o] = req[o]
      /\ req'[t].pc = "answer"
      /\ shared' = shared /\ data' = data
  BY HandlerHolds DEF AInv, TInv, Shape, Requests, ReadName, At, Goto
<1>2. ASSUME h \notin shared
      PROVE  req[t].account = data[h].userId /\ data[h].userId = data[h].username
  BY <1>1, <1>2, OwnCoherent DEF AInv, Agreement, Halfway, At, Coherent
<1>3. OneIdentity'
  <2> DEFINE seen == [client |-> req[t].client, userId |-> req[t].account,
                      username |-> data[h].username, alone |-> h \notin shared]
  <2>1. acted' = acted \union {seen}
    BY DEF ReadName
  <2>2. seen.alone => seen.userId = seen.username
    BY <1>2
  <2> QED BY <2>1, <2>2 DEF AInv, OneIdentity
<1>4. OneHolder'
  BY <1>1, HoldersKept, LoginAssumption DEF AInv
<1>5. Agreement'
  BY <1>1 DEF AInv, Agreement, Halfway, At, Coherent
<1> QED BY <1>3, <1>4, <1>5, ReadNameTInv DEF AInv

-----------------------------------------------------------------------------
(* Requests, responses and getSession.                                     *)

LEMMA EdgeAInv ==
  ASSUME AInv, TInv', NEW t \in Threads, req[t].pc \in {"idle", "answer"},
         req'[t].session = None, req'[t].pc \in {"idle", "getSession"}, req'[t].field = 1,
         \A o \in Threads \ {t} : req'[o] = req[o],
         UNCHANGED <<data, shared, acted>>
  PROVE  AInv'
<1>1. OneHolder'
  BY HoldersKept, LoginAssumption DEF AInv
<1>2. ~Halfway(t) /\ ~Halfway(t)' /\ ~At(t, "readName")'
  BY DEF Halfway, At
<1>3. Agreement'
  BY <1>2 DEF AInv, Agreement, Halfway, At, Coherent
<1> QED BY <1>1, <1>3 DEF AInv, OneIdentity

LEMMA TakeAInv ==
  ASSUME AInv, TInv', NEW t \in Threads, At(t, "getSession"), NEW n \in Sessions,
         NEW new \in BOOLEAN, Take(t, n, new), UNCHANGED <<data, acted>>
  PROVE  AInv'
<1>1. OneHolder' /\ shared \subseteq shared'
  BY TakeOneHolder DEF AInv
<1>2. /\ req'[t].pc \in {"write", "readUser", "check"} /\ req'[t].session = n
      /\ req'[t].field = 1
      /\ \A o \in Threads \ {t} : req'[o] = req[o]
  BY TakePlace DEF AInv, Agreement
<1>3. ~Halfway(t) /\ ~Halfway(t)' /\ ~At(t, "readName")' /\ ~At(t, "getSession")'
  BY <1>2 DEF Halfway, At
<1>4. Agreement'
  BY <1>1, <1>2, <1>3 DEF AInv, Agreement, Halfway, At, Coherent
<1> QED BY <1>1, <1>4 DEF AInv, OneIdentity

LEMMA LoadAInv ==
  ASSUME AInv, NEW t \in Threads, LoadSession(t)
  PROVE  AInv'
<1>1. /\ At(t, "getSession") /\ Take(t, req[t].carried, FALSE)
      /\ req[t].carried \in Sessions
      /\ UNCHANGED <<data, acted>>
  BY DEF LoadSession, seenVars, AInv, TInv, Unused
<1> QED BY <1>1, LoadTInv, TakeAInv DEF AInv

LEMMA CreateAInv ==
  ASSUME AInv, NEW t \in Threads, CreateSession(t)
  PROVE  AInv'
<1>1. PICK n \in Sessions : Take(t, n, TRUE)
  BY DEF CreateSession, NewId
<1>2. At(t, "getSession") /\ UNCHANGED <<data, acted>>
  BY DEF CreateSession, seenVars
<1> QED BY <1>1, <1>2, CreateTInv, TakeAInv DEF AInv

LEMMA InitAInv == Init => AInv
BY InitTInv, InitFInv DEF FInv, Init, AInv, Agreement, OneIdentity, Coherent, Halfway, At, Idle,
   NoData

LEMMA AStep == AInv /\ [Next]_vars => AInv'
<1> SUFFICES ASSUME AInv, [Next]_vars PROVE AInv'
  OBVIOUS
<1>1. ASSUME NEW t \in Threads, NEW c \in Clients, Request(t, c) PROVE AInv'
  BY <1>1, RequestEdge, RequestTInv, EdgeAInv DEF AInv, Request, At
<1>2. ASSUME NEW t \in Threads, LoadSession(t) PROVE AInv'
  BY <1>2, LoadAInv
<1>3. ASSUME NEW t \in Threads, CreateSession(t) PROVE AInv'
  BY <1>3, CreateAInv
<1>4. ASSUME NEW t \in Threads, Login(t) PROVE AInv'
  BY <1>4, WriteFieldAInv, SaveSessionAInv, CheckOnlineAInv, MarkOnlineAInv DEF Login
<1>5. ASSUME NEW t \in Threads, Logout(t) PROVE AInv'
  BY <1>5, ReadUserAInv, ClearAInv, DestroyAInv, EraseOnlineAInv DEF Logout
<1>6. ASSUME NEW t \in Threads, Serve(t) PROVE AInv'
  BY <1>6, CheckLoginAInv, ReadIdAInv, ReadNameAInv DEF Serve
<1>7. ASSUME NEW t \in Threads, Respond(t) PROVE AInv'
  BY <1>7, RespondEdge, RespondTInv, EdgeAInv DEF AInv, Idle
<1>8. ASSUME NEW s \in Sessions, Expire(s) PROVE AInv'
  BY <1>8, ExpireTInv DEF AInv, OneHolder, Agreement, OneIdentity, Halfway, At, Coherent, Expire,
     seenVars
<1>9. CASE UNCHANGED vars
  BY <1>9, TStep DEF AInv, OneHolder, Agreement, OneIdentity, Halfway, At, Coherent, vars,
     storeVars, seenVars
<1> QED BY <1>1, <1>2, <1>3, <1>4, <1>5, <1>6, <1>7, <1>8, <1>9 DEF Next

\* The userId and the username a handler reads one after the other are of one
\* account when no second handler had its session: the two differ only between
\* the first two writes of a login, and then the login is the handler.
THEOREM LoginSessionsOneIdentity == Spec => []OneIdentity
<1>1. Spec => []AInv
  BY InitAInv, AStep, PTL DEF Spec
<1>2. AInv => OneIdentity
  BY DEF AInv
<1> QED BY <1>1, <1>2, PTL

=============================================================================
