---------------------------- MODULE LoginSessions ----------------------------
(***************************************************************************)
(* Who is logged in: SessionManager and MemorySessionStorage, the data of  *)
(* a Session, onlineUsers_, and the handlers that use them (login, logout, *)
(* and the check at the head of every handler that needs a login).         *)
(*                                                                         *)
(* Requests run on several IO threads, also two of one client on two of    *)
(* its connections.  getSession, updateSession and destroySession are one  *)
(* step each, under SessionManager's mutex; each access of a session's     *)
(* data_ and of onlineUsers_ is a step of its own.  A session id stands    *)
(* for the Session object that was created with it, which a handler may    *)
(* still hold after the storage has dropped it.                            *)
(***************************************************************************)
EXTENDS Naturals, Sequences

CONSTANTS Clients,      \* browsers, each with its cookie jar
          Users,        \* accounts
          Sessions,     \* bound: the session ids that can be generated
          Threads,      \* IO threads
          MaxRequests,  \* bound: requests
          None

ASSUME LoginAssumption == None \notin Sessions \union Users /\ MaxRequests \in Nat

VARIABLES
  sessions,   \* the ids in MemorySessionStorage::sessions_
  used,       \* ids generateSessionId has returned
  expired,    \* sessions whose expiryTime_ has passed
  data,       \* data_ of each session
  online,     \* the users onlineUsers_ holds
  cookie,     \* the sessionId cookie each client keeps
  req,        \* the request each thread serves
  requests,   \* requests so far
  proved,     \* accounts each client gave the password of
  acted,      \* what handlers took their client for
  ended,      \* sessions a logout has destroyed
  shared      \* sessions two handlers had at the same time

storeVars == <<sessions, used, expired>>
seenVars  == <<requests, proved, acted, ended>>
vars == <<storeVars, data, online, cookie, req, shared, seenVars>>

Fields   == <<"userId", "username", "isLoggedIn">>
NoData   == [userId |-> None, username |-> None, isLoggedIn |-> FALSE]

Idle == [pc |-> "idle", kind |-> "other", client |-> None, carried |-> None,
         session |-> None, account |-> None, field |-> 1, setCookie |-> FALSE]

Init == /\ sessions = {} /\ used = {} /\ expired = {}
        /\ data = [s \in Sessions |-> NoData]
        /\ online = {}
        /\ cookie = [c \in Clients |-> None]
        /\ req = [t \in Threads |-> Idle]
        /\ requests = 0
        /\ proved = [c \in Clients |-> {}]
        /\ acted = {} /\ ended = {} /\ shared = {}

At(t, p)   == req[t].pc = p
Goto(t, p) == req' = [req EXCEPT ![t].pc = p]
Busy(s)    == \E t \in Threads : req[t].session = s

-----------------------------------------------------------------------------
(* Requests.  What comes in with a wrong content type, an empty body or a  *)
(* wrong password is answered before any session is touched.               *)

Arrived(c, kind, account) ==
  [pc |-> "getSession", kind |-> kind, client |-> c, carried |-> cookie[c],
   session |-> None, account |-> account, field |-> 1, setCookie |-> FALSE]

Request(t, c) ==
  /\ At(t, "idle") /\ requests < MaxRequests
  /\ requests' = requests + 1
  /\ \/ /\ \E kind \in {"logout", "other"} : req' = [req EXCEPT ![t] = Arrived(c, kind, None)]
        /\ UNCHANGED proved
     \/ \E u \in Users :       \* queryUserId returned the id of u
          /\ req' = [req EXCEPT ![t] = Arrived(c, "login", u)]
          /\ proved' = [proved EXCEPT ![c] = @ \union {u}]
  /\ UNCHANGED <<storeVars, data, online, cookie, acted, ended, shared>>

\* The response arrives, with its Set-Cookie.
Respond(t) ==
  /\ At(t, "answer")
  /\ cookie' = IF req[t].setCookie THEN [cookie EXCEPT ![req[t].client] = req[t].session]
                                   ELSE cookie
  /\ req' = [req EXCEPT ![t] = Idle]
  /\ UNCHANGED <<storeVars, data, online, shared, seenVars>>

-----------------------------------------------------------------------------
(* SessionManager.                                                         *)

AfterSession(t) == CASE req[t].kind = "login"  -> "write"
                     [] req[t].kind = "logout" -> "readUser"
                     [] req[t].kind = "other"  -> "check"

Take(t, s, new) ==
  /\ req' = [req EXCEPT ![t].session = s, ![t].setCookie = new, ![t].pc = AfterSession(t)]
  /\ shared' = IF Busy(s) THEN shared \union {s} ELSE shared

\* Variant: ids of sessions that are gone may be generated again.
NewIdReused == Sessions \ sessions

\* 32 random digits: an id nobody has.
NewId == Sessions \ used

\* load() found the session of the cookie.
LoadSession(t) == /\ At(t, "getSession")
                  /\ req[t].carried \in sessions \ expired
                  /\ Take(t, req[t].carried, FALSE)
                  /\ UNCHANGED <<storeVars, data, online, cookie, seenVars>>

\* No cookie, an unknown one, one that load() finds expired and erases, or one
\* that expires between load() and the test that follows it.
CreateSession(t) ==
  /\ At(t, "getSession")
  /\ \E s \in NewId :
       /\ used' = used \union {s}
       /\ Take(t, s, TRUE)
       /\ \/ /\ req[t].carried \notin sessions \ expired
             /\ sessions' = (sessions \ {req[t].carried}) \union {s}
             /\ UNCHANGED expired
          \/ /\ req[t].carried \in sessions \ expired /\ ~Busy(req[t].carried)
             /\ sessions' = sessions \union {s}
             /\ expired' = expired \union {req[t].carried}
  /\ UNCHANGED <<data, online, cookie, seenVars>>

\* An hour without a request.  The expiry of a session that is in use was
\* refreshed when its request got it.
Expire(s) == /\ s \in sessions \ expired /\ ~Busy(s)
             /\ expired' = expired \union {s}
             /\ UNCHANGED <<sessions, used, data, online, cookie, req, shared, seenVars>>

-----------------------------------------------------------------------------
(* ChatLoginHandler.                                                       *)

\* setValue: data_[key] = value, ...
WriteField(t) ==
  /\ At(t, "write")
  /\ LET f == Fields[req[t].field]
         v == IF f = "isLoggedIn" THEN TRUE ELSE req[t].account
     IN  data' = [data EXCEPT ![req[t].session] = [@ EXCEPT ![f] = v]]
  /\ Goto(t, "save")
  /\ UNCHANGED <<storeVars, online, cookie, shared, seenVars>>

\* Variant: the second setValue is missing.
SaveSkippingName(t) ==
  /\ At(t, "save")
  /\ sessions' = sessions \union {req[t].session}
  /\ req' = IF req[t].field < Len(Fields)
            THEN [req EXCEPT ![t].field = @ + 2, ![t].pc = "write"]
            ELSE [req EXCEPT ![t].pc = "checkOnline"]
  /\ UNCHANGED <<used, expired, data, online, cookie, shared, seenVars>>

\* ... then updateSession, which puts the session into the storage also when
\* it is not there any more.
SaveSession(t) ==
  /\ At(t, "save")
  /\ sessions' = sessions \union {req[t].session}
  /\ req' = IF req[t].field < Len(Fields)
            THEN [req EXCEPT ![t].field = @ + 1, ![t].pc = "write"]
            ELSE [req EXCEPT ![t].pc = "checkOnline"]
  /\ UNCHANGED <<used, expired, data, online, cookie, shared, seenVars>>

\* onlineUsers_ is read without its mutex: while another thread changes the
\* map the reader may see the account there or not.
CheckOnline(t) ==
  /\ At(t, "checkOnline")
  /\ \/ Goto(t, IF req[t].account \in online THEN "answer" ELSE "mark")
     \/ /\ \E o \in Threads : req[o].pc \in {"mark", "erase"}
        /\ \E p \in {"answer", "mark"} : Goto(t, p)
  /\ UNCHANGED <<storeVars, data, online, cookie, shared, seenVars>>

MarkOnline(t) == /\ At(t, "mark")
                 /\ online' = online \union {req[t].account}
                 /\ Goto(t, "answer")
                 /\ UNCHANGED <<storeVars, data, cookie, shared, seenVars>>

Login(t) == WriteField(t) \/ SaveSession(t) \/ CheckOnline(t) \/ MarkOnline(t)

-----------------------------------------------------------------------------
(* ChatLogoutHandler.                                                      *)

\* Variant: a conversion that does not throw on an empty string.
ReadUserUnchecked(t) ==
  /\ At(t, "readUser")
  /\ req' = [req EXCEPT ![t].account = data[req[t].session].userId, ![t].pc = "clear"]
  /\ UNCHANGED <<storeVars, data, online, cookie, shared, seenVars>>

\* stoi throws if there is no userId.
ReadUser(t) ==
  /\ At(t, "readUser")
  /\ LET u == data[req[t].session].userId
     IN  req' = [req EXCEPT ![t].account = u,
                            ![t].pc = IF u = None THEN "answer" ELSE "clear"]
  /\ UNCHANGED <<storeVars, data, online, cookie, shared, seenVars>>

Clear(t) == /\ At(t, "clear")
            /\ data' = [data EXCEPT ![req[t].session] = NoData]
            /\ Goto(t, "destroy")
            /\ UNCHANGED <<storeVars, online, cookie, shared, seenVars>>

\* Variant: the session is cleared and stays in the storage.
KeepSession(t) ==
  /\ At(t, "destroy")
  /\ ended' = ended \union {req[t].session}
  /\ \E p \in {"erase", "answer"} : Goto(t, p)
  /\ UNCHANGED <<storeVars, data, online, cookie, shared, requests, proved, acted>>

\* Then the body is parsed: if it is no JSON, the account stays online.
Destroy(t) ==
  /\ At(t, "destroy")
  /\ sessions' = sessions \ {req[t].session}
  /\ ended' = ended \union {req[t].session}
  /\ \E p \in {"erase", "answer"} : Goto(t, p)
  /\ UNCHANGED <<used, expired, data, online, cookie, shared, requests, proved, acted>>

EraseOnline(t) == /\ At(t, "erase")
                  /\ online' = online \ {req[t].account}
                  /\ Goto(t, "answer")
                  /\ UNCHANGED <<storeVars, data, cookie, shared, seenVars>>

Logout(t) == ReadUser(t) \/ Clear(t) \/ Destroy(t) \/ EraseOnline(t)

-----------------------------------------------------------------------------
(* The head of the handlers that need a login: isLoggedIn, then userId,    *)
(* then username.                                                          *)

CheckLogin(t) ==
  /\ At(t, "check")
  /\ Goto(t, IF data[req[t].session].isLoggedIn THEN "readId" ELSE "answer")
  /\ UNCHANGED <<storeVars, data, online, cookie, shared, seenVars>>

ReadId(t) ==
  /\ At(t, "readId")
  /\ LET u == data[req[t].session].userId
     IN  req' = [req EXCEPT ![t].account = u,
                            ![t].pc = IF u = None THEN "answer" ELSE "readName"]
  /\ UNCHANGED <<storeVars, data, online, cookie, shared, seenVars>>

ReadName(t) ==
  /\ At(t, "readName")
  /\ acted' = acted \union
       {[client |-> req[t].client, userId |-> req[t].account,
         username |-> data[req[t].session].username,
         alone |-> req[t].session \notin shared]}
  /\ Goto(t, "answer")
  /\ UNCHANGED <<storeVars, data, online, cookie, shared, requests, proved, ended>>

Serve(t) == CheckLogin(t) \/ ReadId(t) \/ ReadName(t)

-----------------------------------------------------------------------------
Next == \/ \E t \in Threads : \/ \E c \in Clients : Request(t, c)
                              \/ LoadSession(t) \/ CreateSession(t)
                              \/ Login(t) \/ Logout(t) \/ Serve(t) \/ Respond(t)
        \/ \E s \in Sessions : Expire(s)

Spec == Init /\ [][Next]_vars

-----------------------------------------------------------------------------
Places == {"idle", "getSession", "write", "save", "checkOnline", "mark", "readUser",
           "clear", "destroy", "erase", "check", "readId", "readName", "answer"}

Knowing == {"write", "save", "checkOnline", "mark", "clear", "destroy", "erase", "readName"}

\* The values of the variables; a request past getSession has a session, a
\* handler that acts for a user has one, and only ids that were generated are
\* stored, kept as cookies or destroyed.
LoginTypeOK ==
  /\ sessions \union expired \union ended \union shared \subseteq used
  /\ used \subseteq Sessions /\ online \subseteq Users
  /\ \A s \in Sessions : /\ data[s].userId \in Users \union {None}
                         /\ data[s].username \in Users \union {None}
                         /\ data[s].isLoggedIn \in BOOLEAN
                         /\ s \notin used => data[s] = NoData
  /\ \A c \in Clients : cookie[c] \in used \union {None}
  /\ \A t \in Threads : /\ req[t].pc \in Places
                        /\ req[t].session \in used \union {None}
                        /\ req[t].session = None <=> req[t].pc \in {"idle", "getSession"}
                        /\ req[t].pc \in Knowing => req[t].account \in Users

\* A handler acts for an account only if the client behind the request gave its
\* password: no order of logins, logouts, expiries and late saves lets a cookie
\* reach what another client logged in to.  It rests on ids that never return:
\* a browser keeps the cookie of a session that is gone.
ActsAsProved == \A a \in acted : /\ a.userId \in proved[a.client]
                                 /\ a.username \in proved[a.client] \union {None}

\* The userId and the username a handler reads one after the other name the same
\* account, if no second handler had the session at the same time.
OneIdentity == \A a \in acted : a.alone => a.userId = a.username

\* A logout is final for its session, if no other handler had the session at the
\* same time: a handler that holds it could save it again.
LogoutIsFinal == \A s \in ended \ shared : s \notin sessions /\ data[s] = NoData

\* ChatLoginHandler.cpp:60, "Account already logged in elsewhere": when no
\* request is being served, at most one session is logged in to an account.
LoggedIn(s, u) == s \in sessions \ expired /\ data[s].isLoggedIn /\ data[s].userId = u

OneLoginPerAccount ==
  (\A t \in Threads : req[t].pc = "idle")
    => \A u \in Users, s1, s2 \in Sessions : LoggedIn(s1, u) /\ LoggedIn(s2, u) => s1 = s2
=============================================================================
