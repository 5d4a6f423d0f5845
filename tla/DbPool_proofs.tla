---------------------------- MODULE DbPool_proofs ----------------------------
(***************************************************************************)
(* Proofs about DbPool, for any finite set of callers and any pool size:   *)
(* its type invariant, conservation of connections, absence of lost        *)
(* wakeups, and the implementation of the lease of ConnLease.              *)
(***************************************************************************)
EXTENDS DbPool, FiniteSetTheorems, TLAPS

\* Queued and held connections are ones that createConnection() has opened.
Opened == /\ \A i \in 1..Len(connections) : connections[i] \in created
          /\ \A u \in Users : conn[u] # None => conn[u] \in created

IInv == TypeOK /\ Opened /\ Conservation

-----------------------------------------------------------------------------
(* Type correctness.                                                       *)

LEMMA TypeInit == Init => TypeOK
<1> SUFFICES ASSUME Init PROVE TypeOK
  OBVIOUS
<1>1. connections \in Seq(Conns) /\ connsToCheck \in Seq(Conns)
  BY DEF Init
<1>2. fresh \in 0..PoolSize
  BY PoolSizeAssumption DEF Init
<1>3. pc \in [Users -> PCs] /\ conn \in [Users -> Conns \union {None}]
  BY DEF Init, PCs
<1>4. \A u \in Users : conn[u] # None <=> pc[u] \in {"ping", "throw", "use", "return"}
  BY DEF Init
<1> QED BY <1>1, <1>2, <1>3, <1>4 DEF Init, TypeOK

LEMMA TypePush ==
  ASSUME TypeOK, NEW u \in Users, pc[u] \in {"return", "throw"}, PushAndNotify(u),
         UNCHANGED <<initVars, mutex, checkVars>>
  PROVE  TypeOK'
<1>1. conn[u] \in Conns
  BY DEF TypeOK
<1>2. connections' \in Seq(Conns)
  BY <1>1 DEF TypeOK, PushAndNotify
<1>3. CASE pc' = [pc EXCEPT ![u] = "idle"]
  BY <1>2, <1>3, UsersAssumption DEF TypeOK, PCs, PushAndNotify, initVars, checkVars
<1>4. ASSUME NEW w \in Waiting, pc' = [pc EXCEPT ![u] = "idle", ![w] = "woken"]
      PROVE  TypeOK'
  <2>1. w \in Users /\ pc[w] = "waiting" /\ w # u
    BY DEF Waiting
  <2>2. conn[w] = None
    BY <2>1 DEF TypeOK
  <2> QED
    BY <1>2, <1>4, <2>1, <2>2, UsersAssumption
    DEF TypeOK, PCs, PushAndNotify, initVars, checkVars
<1> QED BY <1>3, <1>4 DEF PushAndNotify

LEMMA TypeStep == TypeOK /\ [Next]_vars => TypeOK'
<1> SUFFICES ASSUME TypeOK, [Next]_vars PROVE TypeOK'
  OBVIOUS
<1> USE DEF TypeOK, PCs, initVars, userVars, checkVars
<1>1. CASE InitEnter   BY <1>1, PoolSizeAssumption DEF InitEnter
<1>2. ASSUME NEW c \in Conns, InitPush(c) PROVE TypeOK'
  BY <1>2, PoolSizeAssumption DEF InitPush
<1>3. CASE InitThrow   BY <1>3 DEF InitThrow
<1>4. CASE InitDone    BY <1>4 DEF InitDone
<1>5. ASSUME NEW u \in Users, Caller(u) PROVE TypeOK'
  <2>1. CASE Call(u)            BY <2>1 DEF Call
  <2>2. CASE SpuriousWakeup(u)  BY <2>2 DEF SpuriousWakeup
  <2>3. CASE Wait(u)            BY <2>3 DEF Wait, AtLoopHead
  <2>4. CASE NotInitialized(u)  BY <2>4 DEF NotInitialized, AtLoopHead
  <2>5. CASE Take(u)
    <3>1. Head(connections) \in Conns /\ Tail(connections) \in Seq(Conns)
      BY <2>5 DEF Take
    <3> QED BY <2>5, <3>1, UsersAssumption DEF Take, AtLoopHead
  <2>6. CASE Return(u)          BY <2>6, TypePush DEF Return
  <2>7. CASE ReturnAfterThrow(u) BY <2>7, TypePush DEF ReturnAfterThrow
  <2>8. CASE Ping(u)            BY <2>8 DEF Ping
  <2>9. CASE PingThrow(u)       BY <2>9 DEF PingThrow
  <2>10. CASE Use(u)            BY <2>10 DEF Use
  <2> QED BY <1>5, <2>1, <2>2, <2>3, <2>4, <2>5, <2>6, <2>7, <2>8, <2>9, <2>10
          DEF Caller, Locking, Unlocked
<1>6. CASE Check
  <2>1. CASE CheckEmpty         BY <2>1 DEF CheckEmpty
  <2>2. CASE CheckWakeLocked    BY <2>2 DEF CheckWakeLocked
  <2>3. CASE CheckSnapshot      BY <2>3 DEF CheckSnapshot
  <2>4. CASE CheckOne
    <3>1. Tail(connsToCheck) \in Seq(Conns)
      BY <2>4 DEF CheckOne
    <3> QED BY <2>4, <3>1 DEF CheckOne
  <2>5. CASE CheckEnd           BY <2>5 DEF CheckEnd
  <2>6. CASE CheckWake          BY <2>6 DEF CheckWake
  <2> QED BY <1>6, <2>1, <2>2, <2>3, <2>4, <2>5, <2>6 DEF Check
<1>7. CASE UNCHANGED vars       BY <1>7 DEF vars
<1> QED BY <1>1, <1>2, <1>3, <1>4, <1>5, <1>6, <1>7 DEF Next, DoInit

\* DbPoolTypeOK: the values the pool's variables and its callers can have.
THEOREM DbPoolTypeOK == Spec => []TypeOK
BY TypeInit, TypeStep, PTL DEF Spec

-----------------------------------------------------------------------------
(* Conservation: only three steps move a connection.                       *)

\* A step leaves queue and holders alone, or opens, pops or pushes.
LEMMA Moves ==
  ASSUME TypeOK, [Next]_vars
  PROVE  \/ UNCHANGED <<connections, conn, created>>
         \/ \E c \in Conns : InitPush(c)
         \/ \E u \in Users : Take(u)
         \/ \E u \in Users : /\ pc[u] \in {"return", "throw"}
                             /\ PushAndNotify(u) /\ created' = created
<1>1. CASE DoInit
  BY <1>1 DEF DoInit, InitEnter, InitThrow, InitDone, initVars, userVars
<1>2. CASE Check
  BY <1>2 DEF Check, CheckEmpty, CheckWakeLocked, CheckSnapshot, CheckOne,
              CheckEnd, CheckWake, initVars, userVars
<1>3. ASSUME NEW u \in Users, Caller(u)
      PROVE  \/ UNCHANGED <<connections, conn, created>>
             \/ Take(u)
             \/ /\ pc[u] \in {"return", "throw"}
                /\ PushAndNotify(u) /\ created' = created
  BY <1>3 DEF Caller, Locking, Unlocked, Call, SpuriousWakeup, Wait, NotInitialized,
              Return, ReturnAfterThrow, Ping, PingThrow, Use, initVars
<1>4. CASE UNCHANGED vars
  BY <1>4 DEF vars
<1> QED BY <1>1, <1>2, <1>3, <1>4 DEF Next

LEMMA OpenConserves ==
  ASSUME IInv, NEW c \in Conns, InitPush(c)
  PROVE  Opened' /\ Conservation'
<1> USE DEF IInv, TypeOK, Opened, Conservation
<1>1. /\ connections' = Append(connections, c) /\ c \notin created
      /\ created' = created \union {c} /\ conn' = conn
  BY DEF InitPush, userVars
<1>2. /\ Len(connections') = Len(connections) + 1
      /\ connections'[Len(connections) + 1] = c
      /\ \A i \in 1..Len(connections) : connections'[i] = connections[i]
  BY <1>1
<1>3. \A u \in Users : conn[u] # c
  BY <1>1, UsersAssumption
<1>4. \A i \in 1..Len(connections) : connections[i] # c
  BY <1>1
<1>5. \A i \in 1..Len(connections') : i \in 1..Len(connections) \/ i = Len(connections) + 1
  BY <1>2
<1>6. Opened'
  BY <1>1, <1>2, <1>5
<1>7. \A i, j \in 1..Len(connections') : connections'[i] = connections'[j] => i = j
  BY <1>2, <1>4, <1>5
<1>8. \A u \in Users, i \in 1..Len(connections') : conn'[u] # connections'[i]
  BY <1>1, <1>2, <1>3, <1>5
<1>9. \A d \in created' : \/ \E i \in 1..Len(connections') : connections'[i] = d
                          \/ \E u \in Users : conn'[u] = d
  <2> SUFFICES ASSUME NEW d \in created'
               PROVE  \/ \E i \in 1..Len(connections') : connections'[i] = d
                      \/ \E u \in Users : conn'[u] = d
    OBVIOUS
  <2>1. CASE d = c
    <3>1. Len(connections) + 1 \in 1..Len(connections')
      BY <1>2
    <3> QED BY <1>2, <2>1, <3>1
  <2>2. CASE d \in created
    <3>1. CASE \E u \in Users : conn[u] = d
      BY <1>1, <3>1
    <3>2. ASSUME NEW i \in 1..Len(connections), connections[i] = d
          PROVE  \E k \in 1..Len(connections') : connections'[k] = d
      <4>1. i \in 1..Len(connections')
        BY <1>2
      <4> QED BY <1>2, <3>2, <4>1
    <3> QED BY <2>2, <3>1, <3>2
  <2> QED BY <1>1, <2>1, <2>2
<1> QED BY <1>1, <1>6, <1>7, <1>8, <1>9

LEMMA TakeConserves ==
  ASSUME IInv, NEW u \in Users, Take(u)
  PROVE  Opened' /\ Conservation'
<1> USE DEF IInv, TypeOK, Opened, Conservation
<1> DEFINE n == Len(connections)
<1>1. /\ connections # <<>> /\ connections' = Tail(connections)
      /\ conn' = [conn EXCEPT ![u] = Head(connections)]
      /\ created' = created
      /\ conn[u] = None
  BY DEF Take, AtLoopHead, initVars
<1>2. /\ n \in Nat /\ n > 0 /\ Len(connections') = n - 1
      /\ \A i \in 1..(n - 1) : connections'[i] = connections[i + 1] /\ i + 1 \in 1..n
      /\ Head(connections) = connections[1] /\ 1 \in 1..n
  BY <1>1
<1>3. conn'[u] = connections[1] /\ \A v \in Users \ {u} : conn'[v] = conn[v]
  BY <1>1, <1>2
<1>4. connections[1] # None
  BY <1>2, UsersAssumption
<1>5. Opened'
  BY <1>1, <1>2, <1>3
<1>6. \A i, j \in 1..Len(connections') : connections'[i] = connections'[j] => i = j
  <2> SUFFICES ASSUME NEW i \in 1..(n - 1), NEW j \in 1..(n - 1),
                      connections'[i] = connections'[j]
               PROVE  i = j
    BY <1>2
  <2>1. i + 1 = j + 1
    BY <1>2
  <2> QED BY <1>2, <2>1
<1>7. \A v, w \in Users : conn'[v] # None /\ conn'[v] = conn'[w] => v = w
  BY <1>2, <1>3, <1>4
<1>8. \A v \in Users, i \in 1..Len(connections') : conn'[v] # connections'[i]
  <2> SUFFICES ASSUME NEW v \in Users, NEW i \in 1..(n - 1)
               PROVE  conn'[v] # connections[i + 1]
    BY <1>2
  <2>1. i + 1 \in 1..n /\ i + 1 # 1
    BY <1>2
  <2>2. connections[1] # connections[i + 1]
    BY <1>2, <2>1
  <2> QED BY <1>3, <2>1, <2>2
<1>9. \A d \in created' : \/ \E i \in 1..Len(connections') : connections'[i] = d
                          \/ \E v \in Users : conn'[v] = d
  <2> SUFFICES ASSUME NEW d \in created
               PROVE  \/ \E i \in 1..Len(connections') : connections'[i] = d
                      \/ \E v \in Users : conn'[v] = d
    BY <1>1
  <2>1. ASSUME NEW v \in Users, conn[v] = d PROVE \E w \in Users : conn'[w] = d
    <3>1. d # None
      BY UsersAssumption
    <3> QED BY <1>1, <1>3, <2>1, <3>1
  <2>2. ASSUME NEW i \in 1..n, connections[i] = d
        PROVE  \/ \E k \in 1..Len(connections') : connections'[k] = d
               \/ \E w \in Users : conn'[w] = d
    <3>1. CASE i = 1
      BY <1>3, <2>2, <3>1
    <3>2. CASE i # 1
      <4>1. i - 1 \in 1..(n - 1) /\ (i - 1) + 1 = i
        BY <1>2, <3>2
      <4>2. connections'[i - 1] = connections[i] /\ i - 1 \in 1..Len(connections')
        BY <1>2, <4>1
      <4> QED BY <2>2, <4>2
    <3> QED BY <3>1, <3>2
  <2> QED BY <2>1, <2>2
<1> QED BY <1>5, <1>6, <1>7, <1>8, <1>9

LEMMA PushConserves ==
  ASSUME IInv, NEW u \in Users, pc[u] \in {"return", "throw"}, PushAndNotify(u),
         created' = created
  PROVE  Opened' /\ Conservation'
<1> USE DEF IInv, TypeOK, Opened, Conservation
<1> DEFINE n == Len(connections)
<1>1. /\ conn[u] \in Conns /\ conn[u] # None
      /\ connections' = Append(connections, conn[u])
      /\ conn' = [conn EXCEPT ![u] = None]
  BY DEF PushAndNotify
<1>2. /\ n \in Nat /\ Len(connections') = n + 1
      /\ connections'[n + 1] = conn[u] /\ n + 1 \in 1..Len(connections')
      /\ \A i \in 1..n : connections'[i] = connections[i] /\ i \in 1..Len(connections')
      /\ \A i \in 1..Len(connections') : i \in 1..n \/ i = n + 1
  BY <1>1
<1>3. conn'[u] = None /\ \A v \in Users \ {u} : conn'[v] = conn[v]
  BY <1>1
<1>4. Opened'
  BY <1>1, <1>2, <1>3
<1>5. \A i, j \in 1..Len(connections') : connections'[i] = connections'[j] => i = j
  BY <1>1, <1>2
<1>6. \A v, w \in Users : conn'[v] # None /\ conn'[v] = conn'[w] => v = w
  BY <1>3
<1>7. \A v \in Users, i \in 1..Len(connections') : conn'[v] # connections'[i]
  <2> SUFFICES ASSUME NEW v \in Users, NEW i \in 1..Len(connections')
               PROVE  conn'[v] # connections'[i]
    OBVIOUS
  <2>1. connections'[i] \in Conns
    BY <1>1, <1>2
  <2>2. CASE v = u
    BY <1>3, <2>1, <2>2, UsersAssumption
  <2>3. CASE v # u
    BY <1>1, <1>2, <1>3, <2>3
  <2> QED BY <2>2, <2>3
<1>8. \A d \in created' : \/ \E i \in 1..Len(connections') : connections'[i] = d
                          \/ \E v \in Users : conn'[v] = d
  <2> SUFFICES ASSUME NEW d \in created
               PROVE  \/ \E i \in 1..Len(connections') : connections'[i] = d
                      \/ \E v \in Users : conn'[v] = d
    OBVIOUS
  <2>1. ASSUME NEW i \in 1..n, connections[i] = d
        PROVE  \E k \in 1..Len(connections') : connections'[k] = d
    BY <1>2, <2>1
  <2>2. ASSUME NEW v \in Users, conn[v] = d
        PROVE  \/ \E k \in 1..Len(connections') : connections'[k] = d
               \/ \E w \in Users : conn'[w] = d
    BY <1>2, <1>3, <2>2
  <2> QED BY <2>1, <2>2
<1> QED BY <1>4, <1>5, <1>6, <1>7, <1>8

LEMMA IInvInit == Init => IInv
<1> SUFFICES ASSUME Init PROVE Opened /\ Conservation
  BY TypeInit DEF IInv
<1> QED BY DEF Init, Opened, Conservation

LEMMA IInvStep == IInv /\ [Next]_vars => IInv'
<1> SUFFICES ASSUME IInv, [Next]_vars PROVE Opened' /\ Conservation'
  BY TypeStep DEF IInv
<1>1. CASE UNCHANGED <<connections, conn, created>>
  BY <1>1 DEF IInv, Opened, Conservation
<1> QED BY <1>1, Moves, OpenConserves, TakeConserves, PushConserves DEF IInv

\* DbPoolConservation: each opened connection is in the queue or with one caller.
THEOREM DbPoolConservation == Spec => []Conservation
<1>1. IInv => Conservation
  BY DEF IInv
<1> QED BY <1>1, IInvInit, IInvStep, PTL DEF Spec

-----------------------------------------------------------------------------
(* No lost wakeup.  A push wakes one more caller if any is waiting; whoever *)
(* pops was woken or overtakes; a caller starts waiting on an empty queue. *)

WInv == TypeOK /\ NoLostWakeup

LEMMA WokenFinite == Woken \subseteq Users /\ IsFiniteSet(Woken) /\ Cardinality(Woken) \in Nat
<1>1. Woken \subseteq Users
  BY DEF Woken
<1>2. IsFiniteSet(Woken)
  BY <1>1, UsersAssumption, FS_Subset
<1> QED BY <1>1, <1>2, FS_CardinalityType

\* Neither a queue that grows nor fewer woken callers nor a new waiter.
LEMMA WakeupFrame ==
  ASSUME WInv, Len(connections') <= Len(connections),
         Waiting' \subseteq Waiting, Woken' = Woken
  PROVE  NoLostWakeup'
BY WokenFinite DEF WInv, NoLostWakeup, TypeOK

LEMMA WakeupCaller ==
  ASSUME WInv, NEW u \in Users, Call(u) \/ SpuriousWakeup(u) \/ NotInitialized(u) \/ Unlocked(u)
  PROVE  NoLostWakeup'
<1> USE DEF WInv, TypeOK
<1>1. connections' = connections
  BY DEF Call, SpuriousWakeup, NotInitialized, Unlocked, Ping, PingThrow, Use
<1>2. CASE Call(u) \/ Unlocked(u)
  <2>1. Waiting' = Waiting /\ Woken' = Woken
    BY <1>2 DEF Call, Unlocked, Ping, PingThrow, Use, Waiting, Woken
  <2> QED BY <1>1, <2>1, WakeupFrame
<1>3. CASE SpuriousWakeup(u)
  <2>1. Waiting' \subseteq Waiting /\ Woken' = Woken \union {u} /\ u \notin Woken
    BY <1>3 DEF SpuriousWakeup, Waiting, Woken
  <2>2. Cardinality(Woken') = Cardinality(Woken) + 1
    BY <2>1, WokenFinite, FS_AddElement
  <2> QED BY <1>1, <2>1, <2>2, WokenFinite DEF NoLostWakeup
<1>4. CASE NotInitialized(u)
  <2>1. Len(connections') = 0
    BY <1>1, <1>4 DEF NotInitialized
  <2>2. Woken' \subseteq Users
    BY DEF Woken
  <2>3. Cardinality(Woken') \in Nat
    BY <2>2, UsersAssumption, FS_Subset, FS_CardinalityType
  <2> QED BY <2>1, <2>3 DEF NoLostWakeup
<1> QED BY <1>2, <1>3, <1>4

LEMMA WakeupWait ==
  ASSUME WInv, NEW u \in Users, Wait(u)
  PROVE  NoLostWakeup'
<1>1. Len(connections') = 0
  BY DEF Wait
<1>2. Woken' \subseteq Users
  BY DEF Woken
<1>3. Cardinality(Woken') \in Nat
  BY <1>2, UsersAssumption, FS_Subset, FS_CardinalityType
<1> QED BY <1>1, <1>3 DEF NoLostWakeup

LEMMA WakeupTake ==
  ASSUME WInv, NEW u \in Users, Take(u)
  PROVE  NoLostWakeup'
<1> USE DEF WInv, TypeOK
<1>1. /\ pc[u] \in {"call", "woken"} /\ pc' = [pc EXCEPT ![u] = "ping"]
      /\ Len(connections') = Len(connections) - 1
  BY DEF Take, AtLoopHead
<1>2. Waiting' = Waiting /\ Woken' = Woken \ {u}
  BY <1>1 DEF Waiting, Woken
<1>3. CASE u \in Woken
  <2>1. Cardinality(Woken') = Cardinality(Woken) - 1
    BY <1>2, <1>3, WokenFinite, FS_RemoveElement
  <2> QED BY <1>1, <1>2, <2>1, WokenFinite DEF NoLostWakeup
<1>4. CASE u \notin Woken
  <2>1. Woken' = Woken
    BY <1>2, <1>4
  <2> QED BY <1>1, <1>2, <2>1, WakeupFrame
<1> QED BY <1>3, <1>4

LEMMA WakeupPush ==
  ASSUME WInv, NEW u \in Users, pc[u] \in {"return", "throw"}, PushAndNotify(u)
  PROVE  NoLostWakeup'
<1> USE DEF WInv, TypeOK
<1>1. Len(connections') = Len(connections) + 1
  BY DEF PushAndNotify
<1>2. CASE Waiting = {} /\ pc' = [pc EXCEPT ![u] = "idle"]
  <2>1. Waiting' = {}
    BY <1>2 DEF Waiting
  <2> QED BY <2>1 DEF NoLostWakeup
<1>3. ASSUME NEW w \in Waiting, pc' = [pc EXCEPT ![u] = "idle", ![w] = "woken"]
      PROVE  NoLostWakeup'
  <2>1. w \in Users /\ pc[w] = "waiting" /\ w # u
    BY DEF Waiting
  <2>2. Woken' = Woken \union {w} /\ w \notin Woken
    BY <1>3, <2>1 DEF Woken
  <2>3. Cardinality(Woken') = Cardinality(Woken) + 1
    BY <2>2, WokenFinite, FS_AddElement
  <2>4. Len(connections) <= Cardinality(Woken)
    BY <1>3 DEF NoLostWakeup
  <2> QED BY <1>1, <2>3, <2>4, WokenFinite DEF NoLostWakeup
<1> QED BY <1>2, <1>3 DEF PushAndNotify

\* init() pushes without a notification, but nobody waits before it is done.
NoEarlyWaiter == ~initialized => Waiting = {}

LEMMA EarlyStep == TypeOK /\ NoEarlyWaiter /\ [Next]_vars => NoEarlyWaiter'
<1> SUFFICES ASSUME TypeOK, NoEarlyWaiter, [Next]_vars PROVE NoEarlyWaiter'
  OBVIOUS
<1> USE DEF TypeOK, NoEarlyWaiter, Waiting, initVars, userVars
<1>1. CASE DoInit
  BY <1>1 DEF DoInit, InitEnter, InitPush, InitThrow, InitDone
<1>2. CASE Check
  BY <1>2 DEF Check, CheckEmpty, CheckWakeLocked, CheckSnapshot, CheckOne, CheckEnd, CheckWake
<1>3. ASSUME NEW u \in Users, Caller(u) PROVE NoEarlyWaiter'
  <2>1. CASE Return(u) \/ ReturnAfterThrow(u)
    BY <2>1 DEF Return, ReturnAfterThrow, PushAndNotify
  <2>2. CASE Wait(u)
    BY <2>2 DEF Wait
  <2>3. CASE Call(u) \/ SpuriousWakeup(u) \/ NotInitialized(u) \/ Take(u) \/ Unlocked(u)
    BY <2>3 DEF Call, SpuriousWakeup, NotInitialized, Take, Unlocked, Ping, PingThrow, Use
  <2> QED BY <1>3, <2>1, <2>2, <2>3 DEF Caller, Locking
<1>4. CASE UNCHANGED vars
  BY <1>4 DEF vars
<1> QED BY <1>1, <1>2, <1>3, <1>4 DEF Next

\* An init() that pushes has not set initialized_.
InitBeforeDone == mutex = "init" => ~initialized

LEMMA InitStep == InitBeforeDone /\ [Next]_vars => InitBeforeDone'
<1> USE DEF InitBeforeDone, initVars, userVars
<1>1. DoInit /\ InitBeforeDone => InitBeforeDone'
  BY DEF DoInit, InitEnter, InitPush, InitThrow, InitDone
<1>2. Check /\ InitBeforeDone => InitBeforeDone'
  BY DEF Check, CheckEmpty, CheckWakeLocked, CheckSnapshot, CheckOne, CheckEnd, CheckWake
<1>3. ASSUME NEW u \in Users PROVE Caller(u) /\ InitBeforeDone => InitBeforeDone'
  BY DEF Caller, Locking, Unlocked, Call, SpuriousWakeup, Wait, NotInitialized,
         Take, Return, ReturnAfterThrow, Ping, PingThrow, Use
<1>4. UNCHANGED vars /\ InitBeforeDone => InitBeforeDone'
  BY DEF vars
<1> QED BY <1>1, <1>2, <1>3, <1>4 DEF Next

WakeInv == WInv /\ NoEarlyWaiter /\ InitBeforeDone

LEMMA WakeInit == Init => WakeInv
<1> SUFFICES ASSUME Init PROVE NoLostWakeup /\ NoEarlyWaiter /\ InitBeforeDone
  BY TypeInit DEF WakeInv, WInv
<1>1. Waiting = {}
  BY DEF Init, Waiting
<1> QED BY <1>1 DEF Init, NoLostWakeup, NoEarlyWaiter, InitBeforeDone

LEMMA WakeStep == WakeInv /\ [Next]_vars => WakeInv'
<1> SUFFICES ASSUME WakeInv, [Next]_vars PROVE NoLostWakeup'
  BY TypeStep, EarlyStep, InitStep DEF WakeInv, WInv
<1> USE DEF WakeInv, initVars, userVars
<1>1. CASE pc' = pc /\ connections' = connections
  <2>1. Waiting' = Waiting /\ Woken' = Woken
    BY <1>1 DEF Waiting, Woken
  <2> QED BY <1>1, <2>1, WakeupFrame DEF WInv, TypeOK
<1>2. ASSUME NEW c \in Conns, InitPush(c) PROVE NoLostWakeup'
  <2>1. Waiting' = {}
    BY <1>2 DEF InitPush, InitBeforeDone, NoEarlyWaiter, Waiting
  <2> QED BY <2>1 DEF NoLostWakeup
<1>3. CASE InitEnter \/ InitThrow \/ InitDone
  BY <1>1, <1>3 DEF InitEnter, InitThrow, InitDone
<1>4. CASE Check
  BY <1>1, <1>4 DEF Check, CheckEmpty, CheckWakeLocked, CheckSnapshot, CheckOne,
                    CheckEnd, CheckWake
<1>5. ASSUME NEW u \in Users, Caller(u) PROVE NoLostWakeup'
  BY <1>5, WakeupCaller, WakeupWait, WakeupTake, WakeupPush
  DEF Caller, Locking, Return, ReturnAfterThrow
<1>6. CASE UNCHANGED vars
  BY <1>1, <1>6 DEF vars
<1> QED BY <1>2, <1>3, <1>4, <1>5, <1>6 DEF Next, DoInit

\* DbPoolNoLostWakeup: while a caller is blocked in cv_.wait, every queued
\* connection has a notified caller on its way to it.
THEOREM DbPoolNoLostWakeup == Spec => []NoLostWakeup
<1>1. WakeInv => NoLostWakeup
  BY DEF WakeInv, WInv
<1> QED BY <1>1, WakeInit, WakeStep, PTL DEF Spec

-----------------------------------------------------------------------------
(* The lease.                                                              *)

LEMMA LeaseInit == Init => Lease!Init
BY DEF Init, Lease!Init

LEMMA LeaseStep == IInv /\ [Next]_vars => [Lease!Next]_(Lease!lvars)
<1> SUFFICES ASSUME IInv, [Next]_vars PROVE [Lease!Next]_(Lease!lvars)
  OBVIOUS
<1>1. CASE UNCHANGED <<connections, conn, created>>
  BY <1>1 DEF Lease!lvars
<1>2. ASSUME NEW c \in Conns, InitPush(c) PROVE Lease!Next
  <2>1. Lease!Open(c)
    BY <1>2 DEF InitPush, userVars, Lease!Open
  <2> QED BY <2>1 DEF Lease!Next
<1>3. ASSUME NEW u \in Users, Take(u) PROVE Lease!Next
  <2> DEFINE c == Head(connections)
  <2>1. 1 \in 1..Len(connections) /\ c = connections[1]
    BY <1>3 DEF Take, IInv, TypeOK
  <2>2. c \in created /\ c \in Conns
    BY <2>1 DEF IInv, Opened, TypeOK
  <2>3. \A v \in Users : conn[v] # c
    BY <2>1 DEF IInv, Conservation
  <2>4. conn[u] = None
    BY <1>3 DEF Take, AtLoopHead, IInv, TypeOK
  <2>5. Lease!Acquire(u, c)
    BY <1>3, <2>2, <2>3, <2>4 DEF Take, initVars, Lease!Acquire, Lease!Leased
  <2> QED BY <2>2, <2>5 DEF Lease!Next
<1>4. ASSUME NEW u \in Users, pc[u] \in {"return", "throw"}, PushAndNotify(u),
             created' = created
      PROVE  Lease!Next
  <2>1. Lease!Release(u)
    BY <1>4 DEF PushAndNotify, IInv, TypeOK, Lease!Release
  <2> QED BY <2>1 DEF Lease!Next
<1> QED BY <1>1, <1>2, <1>3, <1>4, Moves DEF IInv

\* DbPoolImplementsLease: a connection has one holder at a time, and is taken
\* again only after it was given back.
THEOREM DbPoolImplementsLease == Spec => LeaseSpec
<1>1. Spec => []IInv
  BY IInvInit, IInvStep, PTL DEF Spec
<1> QED BY <1>1, LeaseInit, LeaseStep, PTL DEF Spec, LeaseSpec, Lease!Spec

=============================================================================
