------------------------------- MODULE ChatApp --------------------------------
(***************************************************************************)
(* The chat server: its handlers behind the dispatcher, on several IO      *)
(* threads, with restarts of the process.                                  *)
(***************************************************************************)
EXTENDS Accounts, ChatDirectory, Media

CONSTANT MaxRestarts    \* bound

VARIABLE restarts

vars == <<dispatchVars, th, accountVars, chatVars, recognizers, restarts>>

Init == DispatchInit /\ AccountsInit /\ DirectoryInit /\ MediaInit /\ restarts = 0

\* initializeRouter: the routes that have a handler here.
ChatRoutes ==
  LET route(method, path, pc) ==
        [kind |-> "handlers", method |-> method, path |-> path, target |-> <<pc, 0>>]
  IN <<route("GET", <<"">>, "page"), route("GET", <<"menu">>, "page"),
       route("POST", <<"login">>, "login"), route("POST", <<"register">>, "register"),
       route("POST", <<"chat", "send">>, "send"),
       route("POST", <<"chat", "history">>, "history"),
       route("POST", <<"chat", "send-new-session">>, "create"),
       route("GET", <<"chat", "sessions">>, "sessions"),
       route("POST", <<"upload", "send">>, "upload"),
       route("POST", <<"chat", "tts">>, "speech")>>

\* Where a route's handler starts.
HandlerPcs == {"page", "login", "register", "send", "history", "create", "sessions",
               "upload", "speech"}

\* Whatever routes a program has, a request finds the start of a handler behind
\* them or nothing; a session belongs to a user with a login; an upload carries an
\* image or nothing that is one.
ASSUME ProgramsAssumption ==
  /\ MaxLoops \in Nat /\ MaxRestarts \in Nat /\ GeneratedIds \in Seq(STRING)
  /\ \A s \in DOMAIN Servers :
       /\ Servers[s].max \in Nat
       /\ Servers[s].routes \in Seq(Range(Servers[s].routes))
       /\ \A i \in DOMAIN Servers[s].routes :
            LET route == Servers[s].routes[i]
            IN route.kind \in Range(Kinds) /\ route.path \in Seq(Range(route.path))
       /\ \A r \in Servers[s].requests :
            LET found == Meant(Servers[s].routes, r.method, r.path)
            IN /\ r.path \in Seq(Range(r.path))
               /\ r.user \in ChatUsers \union {""}
               /\ found # NotFound => found.target[1] \in HandlerPcs
               /\ found # NotFound /\ found.target[1] \in {"login", "register"} =>
                    r.password \in Passwords
               /\ found # NotFound /\ found.target[1] = "upload" => IsUpload(r)

\* A thread in the pool of a process that ends is gone; what is in the tables
\* stays, and readDataFromMySQL runs before the server listens.
Restart == /\ restarts < MaxRestarts
           /\ restarts' = restarts + 1
           /\ Reset
           /\ RestoreDirectory
           /\ MediaReset
           /\ UNCHANGED accountVars

Step(t) == \/ Dispatcher(t) /\ UNCHANGED <<accountVars, chatVars, recognizers, restarts>>
           \/ AccountStep(t) /\ UNCHANGED <<chatVars, recognizers, restarts>>
           \/ DirectoryStep(t) /\ UNCHANGED <<accountVars, recognizers, restarts>>
           \/ MediaStep(t) /\ UNCHANGED <<accountVars, chatVars, restarts>>

Next == \/ RegisterRoute /\ UNCHANGED <<accountVars, chatVars, recognizers, restarts>>
        \/ Restart
        \/ \E t \in Threads : Step(t)

Spec == Init /\ [][Next]_vars

-----------------------------------------------------------------------------
\* The values of the variables; a speech request makes MaxLoops queries at most.
AppTypeOK ==
  /\ server \in DOMAIN Servers
  /\ registered \in 0..Len(Program.routes)
  /\ received \in 0..Program.max
  /\ \A t \in Threads :
       /\ th[t].code \in {0, 200, 204, 400, 401, 403, 404, 409, 500}
       /\ th[t].code # 0 <=> th[t].pc \in {"after", "done"}
       /\ th[t].overlapped \in BOOLEAN
       /\ "loops" \in DOMAIN th[t] => th[t].loops \in 0..MaxLoops
  /\ recognizers \subseteq ChatUsers
  /\ dbErrors \in 0..MaxDbErrors
  /\ generated \in 0..Len(GeneratedIds)
  /\ restarts \in 0..MaxRestarts
=============================================================================
