------------------------------ MODULE ConnLease ------------------------------
(***************************************************************************)
(* What the database connection pool promises to its callers: a connection *)
(* that exists is leased to at most one caller at a time, a lease ends     *)
(* before the connection is leased again, and connections never disappear. *)
(***************************************************************************)
CONSTANTS Users, Conns, None

VARIABLES made,    \* the connections that were ever opened
          lease    \* the connection each caller holds, None if it has none

lvars == <<made, lease>>

Leased == {lease[u] : u \in Users} \ {None}

Init == /\ made = {}
        /\ lease = [u \in Users |-> None]

Open(c) == /\ c \in Conns \ made
           /\ made' = made \union {c}
           /\ UNCHANGED lease

Acquire(u, c) == /\ lease[u] = None
                 /\ c \in made \ Leased
                 /\ lease' = [lease EXCEPT ![u] = c]
                 /\ UNCHANGED made

Release(u) == /\ lease[u] # None
              /\ lease' = [lease EXCEPT ![u] = None]
              /\ UNCHANGED made

Next == \/ \E c \in Conns : Open(c)
        \/ \E u \in Users : Release(u)
        \/ \E u \in Users, c \in Conns : Acquire(u, c)

Spec == Init /\ [][Next]_lvars
=============================================================================
