------------------------------- MODULE DbPool --------------------------------
(***************************************************************************)
(* The MySQL connection pool, HttpServer/src/utils/db/DbConnectionPool.cpp *)
(* as the request and queue threads use it through MysqlUtil.h.            *)
(*                                                                         *)
(* Every access of connections_ and initialized_ is made under mutex_, so  *)
(* a critical section of a caller is one action, enabled while the mutex   *)
(* is free.  Two critical sections last: init() opens its connections with *)
(* the mutex held, and the check thread sleeps a second with it when the   *)
(* queue is empty.  ping, reconnect and the SQL statement run outside the  *)
(* mutex; their results are a nondeterministic choice of the server.       *)
(***************************************************************************)
EXTENDS Naturals, Sequences, FiniteSets

CONSTANTS Users,     \* threads that call MysqlUtil: IO threads, queue workers
          Conns,     \* the connections the MySQL server can grant
          PoolSize,  \* the poolSize argument of init()
          None       \* no connection

ASSUME UsersAssumption == IsFiniteSet(Users) /\ None \notin Conns
ASSUME PoolSizeAssumption == PoolSize \in Nat \ {0}

VARIABLES connections,   \* the queue connections_
          initialized,   \* initialized_
          created,       \* connections createConnection() has opened
          mutex,         \* who keeps mutex_ across steps
          fresh,         \* i, the loop counter of a running init()
          pc,            \* where each caller is
          conn,          \* the connection a caller took off the queue
          cpc,           \* where the check thread is
          connsToCheck   \* its snapshot of the queue

vars == <<connections, initialized, created, mutex, fresh, pc, conn, cpc,
          connsToCheck>>
initVars    == <<initialized, created, fresh>>
userVars    == <<pc, conn>>
checkVars   == <<cpc, connsToCheck>>

Waiting == {u \in Users : pc[u] = "waiting"}   \* blocked in cv_.wait
Woken   == {u \in Users : pc[u] = "woken"}     \* notified, wants mutex_ back

Init == /\ connections = <<>>
        /\ initialized = FALSE
        /\ created = {}
        /\ mutex = "free"
        /\ fresh = 0
        /\ pc = [u \in Users |-> "idle"]
        /\ conn = [u \in Users |-> None]
        /\ cpc = "lock"
        /\ connsToCheck = <<>>

-----------------------------------------------------------------------------
(* init(): opens poolSize connections under the mutex; an exception of     *)
(* createConnection leaves the ones already pushed in the queue.           *)

InitEnter == /\ mutex = "free" /\ ~initialized
             /\ mutex' = "init"
             /\ fresh' = 0
             /\ UNCHANGED <<connections, initialized, created, userVars, checkVars>>

InitPush(c) == /\ mutex = "init" /\ fresh < PoolSize
               /\ c \notin created
               /\ created' = created \union {c}
               /\ connections' = Append(connections, c)
               /\ fresh' = fresh + 1
               /\ UNCHANGED <<initialized, mutex, userVars, checkVars>>

InitThrow == /\ mutex = "init" /\ fresh < PoolSize
             /\ mutex' = "free"
             /\ UNCHANGED <<connections, initVars, userVars, checkVars>>

InitDone == /\ mutex = "init" /\ fresh = PoolSize
            /\ initialized' = TRUE
            /\ mutex' = "free"
            /\ UNCHANGED <<connections, created, fresh, userVars, checkVars>>

-----------------------------------------------------------------------------
(* getConnection() and the deleter of the pointer it returns.              *)

Call(u) == /\ pc[u] = "idle"
           /\ pc' = [pc EXCEPT ![u] = "call"]
           /\ UNCHANGED <<connections, initVars, mutex, conn, checkVars>>

\* The caller is inside the critical section: it has just locked mutex_, or
\* cv_.wait has locked it again and the while condition is tested once more.
AtLoopHead(u) == mutex = "free" /\ pc[u] \in {"call", "woken"}

Wait(u) == /\ AtLoopHead(u)
           /\ connections = <<>> /\ initialized
           /\ pc' = [pc EXCEPT ![u] = "waiting"]
           /\ UNCHANGED <<connections, initVars, mutex, conn, checkVars>>

NotInitialized(u) == /\ AtLoopHead(u)
                     /\ connections = <<>> /\ ~initialized
                     /\ pc' = [pc EXCEPT ![u] = "idle"]
                     /\ UNCHANGED <<connections, initVars, mutex, conn, checkVars>>

\* Variant: the connection is read off the queue and not popped.
TakeNoPop(u) == /\ AtLoopHead(u)
                /\ connections # <<>>
                /\ conn' = [conn EXCEPT ![u] = Head(connections)]
                /\ pc' = [pc EXCEPT ![u] = "ping"]
                /\ UNCHANGED <<connections, initVars, mutex, checkVars>>

Take(u) == /\ AtLoopHead(u)
           /\ connections # <<>>
           /\ conn' = [conn EXCEPT ![u] = Head(connections)]
           /\ connections' = Tail(connections)
           /\ pc' = [pc EXCEPT ![u] = "ping"]
           /\ UNCHANGED <<initVars, mutex, checkVars>>

\* The standard lets cv_.wait return although nobody notified.
SpuriousWakeup(u) == /\ pc[u] = "waiting"
                     /\ pc' = [pc EXCEPT ![u] = "woken"]
                     /\ UNCHANGED <<connections, initVars, mutex, conn, checkVars>>

\* ping, or ping and reconnect, succeeded: the caller has the connection.
Ping(u) == /\ pc[u] = "ping"
           /\ pc' = [pc EXCEPT ![u] = "use"]
           /\ UNCHANGED <<connections, initVars, mutex, conn, checkVars>>

\* reconnect threw: the catch block gives the connection back.
PingThrow(u) == /\ pc[u] = "ping"
                /\ pc' = [pc EXCEPT ![u] = "throw"]
                /\ UNCHANGED <<connections, initVars, mutex, conn, checkVars>>

\* executeQuery/executeUpdate of MysqlUtil ends, with a result or a
\* DbException; either way the shared pointer goes out of scope.
Use(u) == /\ pc[u] = "use"
          /\ pc' = [pc EXCEPT ![u] = "return"]
          /\ UNCHANGED <<connections, initVars, mutex, conn, checkVars>>

\* Variant: the connection is pushed and nobody is notified.
PushSilently(u) == /\ connections' = Append(connections, conn[u])
                   /\ conn' = [conn EXCEPT ![u] = None]
                   /\ pc' = [pc EXCEPT ![u] = "idle"]

\* connections_.push(conn); cv_.notify_one(), for caller u: the scheduler
\* picks the waiter that wakes, if there is one.
PushAndNotify(u) ==
  /\ connections' = Append(connections, conn[u])
  /\ conn' = [conn EXCEPT ![u] = None]
  /\ \/ /\ Waiting = {}
        /\ pc' = [pc EXCEPT ![u] = "idle"]
     \/ \E w \in Waiting : pc' = [pc EXCEPT ![u] = "idle", ![w] = "woken"]

Return(u) == /\ pc[u] = "return" /\ mutex = "free"
             /\ PushAndNotify(u)
             /\ UNCHANGED <<initVars, mutex, checkVars>>

\* Variant: the catch block rethrows without giving the connection back.
KeepAfterThrow(u) == /\ pc[u] = "throw" /\ mutex = "free"
                     /\ pc' = [pc EXCEPT ![u] = "idle"]
                     /\ UNCHANGED <<connections, initVars, mutex, conn, checkVars>>

ReturnAfterThrow(u) == /\ pc[u] = "throw" /\ mutex = "free"
                       /\ PushAndNotify(u)
                       /\ UNCHANGED <<initVars, mutex, checkVars>>

-----------------------------------------------------------------------------
(* checkConnections(), the detached check thread.                          *)

\* Queue empty: sleep_for(1s) inside the scope of the lock.
CheckEmpty == /\ cpc = "lock" /\ mutex = "free" /\ connections = <<>>
              /\ mutex' = "check"
              /\ cpc' = "sleepLocked"
              /\ UNCHANGED <<connections, initVars, userVars, connsToCheck>>

CheckWakeLocked == /\ cpc = "sleepLocked"
                   /\ mutex' = "free"
                   /\ cpc' = "lock"
                   /\ UNCHANGED <<connections, initVars, userVars, connsToCheck>>

CheckSnapshot == /\ cpc = "lock" /\ mutex = "free" /\ connections # <<>>
                 /\ connsToCheck' = connections
                 /\ cpc' = "check"
                 /\ UNCHANGED <<connections, initVars, mutex, userVars>>

\* ping and, if it fails, reconnect of one connection of the snapshot, which a
\* caller may have taken meanwhile; a failed reconnect is caught in the loop.
CheckOne == /\ cpc = "check" /\ connsToCheck # <<>>
            /\ connsToCheck' = Tail(connsToCheck)
            /\ UNCHANGED <<connections, initVars, mutex, userVars, cpc>>

\* The list is done, or an exception that is no SQLException abandoned it.
CheckEnd == /\ cpc = "check"
            /\ connsToCheck' = <<>>
            /\ cpc' = "sleep"
            /\ UNCHANGED <<connections, initVars, mutex, userVars>>

CheckWake == /\ cpc = "sleep"
             /\ cpc' = "lock"
             /\ UNCHANGED <<connections, initVars, mutex, userVars, connsToCheck>>

-----------------------------------------------------------------------------
DoInit == InitEnter \/ InitThrow \/ InitDone \/ \E c \in Conns : InitPush(c)

\* The steps of a caller that need mutex_, and the ones that do not.
Locking(u)   == Wait(u) \/ NotInitialized(u) \/ Take(u) \/ Return(u) \/ ReturnAfterThrow(u)
Unlocked(u)  == Ping(u) \/ PingThrow(u) \/ Use(u)

Caller(u) == Call(u) \/ SpuriousWakeup(u) \/ Locking(u) \/ Unlocked(u)

Check == \/ CheckEmpty \/ CheckWakeLocked \/ CheckSnapshot
         \/ CheckOne \/ CheckEnd \/ CheckWake

Next == DoInit \/ Check \/ \E u \in Users : Caller(u)

Spec == Init /\ [][Next]_vars

(***************************************************************************)
(* Threads run on (weak fairness) and a thread that asks for mutex_ again  *)
(* and again while it is repeatedly free gets it once (strong fairness):   *)
(* the check thread unlocks and locks in a loop while the queue is empty,  *)
(* so weak fairness would let it keep the mutex from everybody.  Nothing   *)
(* makes a caller call, wakes a waiter without a notification, or makes    *)
(* init() begin.                                                           *)
(***************************************************************************)
Fairness == /\ \A u \in Users : SF_vars(Locking(u)) /\ WF_vars(Unlocked(u))
            /\ WF_vars(Check)
            /\ WF_vars(InitThrow \/ InitDone \/ \E c \in Conns : InitPush(c))

FairSpec == Spec /\ Fairness

-----------------------------------------------------------------------------
PCs == {"idle", "call", "waiting", "woken", "ping", "throw", "use", "return"}

\* The values of the variables; a caller holds a connection exactly between
\* the pop of getConnection and the push that gives it back.
TypeOK ==
  /\ connections \in Seq(Conns)
  /\ initialized \in BOOLEAN
  /\ created \subseteq Conns
  /\ mutex \in {"free", "init", "check"}
  /\ fresh \in 0..PoolSize
  /\ pc \in [Users -> PCs]
  /\ conn \in [Users -> Conns \union {None}]
  /\ \A u \in Users : conn[u] # None <=> pc[u] \in {"ping", "throw", "use", "return"}
  /\ cpc \in {"lock", "sleepLocked", "check", "sleep"}
  /\ connsToCheck \in Seq(Conns)
  /\ mutex = "check" <=> cpc = "sleepLocked"

\* Every connection createConnection() opened is in the queue or with a caller,
\* once: none is lost or doubled by the exception path, the deleter or the
\* check thread's copy of the queue, also after an init() that threw midway.
Conservation ==
  /\ \A i, j \in 1..Len(connections) : connections[i] = connections[j] => i = j
  /\ \A u, v \in Users : conn[u] # None /\ conn[u] = conn[v] => u = v
  /\ \A u \in Users, i \in 1..Len(connections) : conn[u] # connections[i]
  /\ \A c \in created : \/ \E i \in 1..Len(connections) : connections[i] = c
                        \/ \E u \in Users : conn[u] = c

\* While somebody is blocked in cv_.wait, each queued connection has a notified
\* caller on its way to it: no connection sits in the queue with all callers
\* asleep, although init() never notifies and newcomers overtake the woken.
NoLostWakeup == Waiting # {} => Len(connections) <= Cardinality(Woken)

\* The pool implements the lease of ConnLease.
Lease == INSTANCE ConnLease WITH made <- created, lease <- conn
LeaseSpec == Lease!Spec

\* A caller blocked in getConnection means that somebody obtains a connection
\* later, also through failing reconnects and the check thread's sleep with
\* the mutex: the callers never all block for good.
WaitersServed == Waiting # {} ~> \E u \in Users : pc[u] = "ping"

\* Whoever took a connection gives it back: a failed ping or statement does not
\* keep it.
Returned == \A u \in Users : conn[u] # None ~> conn[u] = None
=============================================================================
