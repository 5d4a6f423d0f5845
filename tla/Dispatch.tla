------------------------------- MODULE Dispatch -------------------------------
(***************************************************************************)
(* HttpServer::handleRequest on several IO threads: the middleware chain   *)
(* with its one CorsMiddleware, the Router, a handler, the chain again.    *)
(* Handlers are modules of their own: they start where Dispatcher leaves a *)
(* thread, at a pc named like the route's target, and end with Respond or  *)
(* Throw.                                                                  *)
(*                                                                         *)
(* The chain and the router are locked for readers all the way through,    *)
(* which keeps writers out and lets the threads run side by side.          *)
(***************************************************************************)
EXTENDS Router

CONSTANTS Threads,          \* IO threads
          Servers,          \* a sequence of programs: their routes, the requests
                            \* their clients may send, and a bound on how many
          AllowedOrigins,   \* CorsConfig::allowedOrigins
          AllowCredentials  \* CorsConfig::allowCredentials

VARIABLES
  server,         \* which program runs
  table,          \* the four maps of its Router
  registered,     \* how many of its routes it has registered
  requestOrigin,  \* CorsMiddleware::requestOrigin_
  th,             \* what each IO thread is doing
  received        \* requests so far

program      == <<server, table, registered>>
dispatchVars == <<program, requestOrigin, received>>

\* allow is the Access-Control-Allow-Origin header of the response, "" if it
\* has none.  overlapped: another request's before() ran since this one's.
Idle == [pc |-> "idle", code |-> 0, allow |-> "", overlapped |-> FALSE]

DispatchInit == /\ server \in DOMAIN Servers
                /\ table = EmptyTable /\ registered = 0
                /\ requestOrigin = ""
                /\ th = [t \in Threads |-> Idle]
                /\ received = 0

Program == Servers[server]

\* A record or a map with other values of some keys, which may be new.
With(map, changes) == [k \in DOMAIN map \union DOMAIN changes |->
                         IF k \in DOMAIN changes THEN changes[k] ELSE map[k]]

At(t, p)           == th[t].pc = p
Finished(t)        == th[t].pc \in {"idle", "done"}
Update(t, changes) == th' = [th EXCEPT ![t] = With(@, changes)]
Goto(t, p)         == Update(t, [pc |-> p])
Respond(t, code)   == Update(t, [pc |-> "after", code |-> code])

\* An exception that leaves the handler: the 500 of handleRequest, and the
\* rest of the chain is skipped.
Throw(t) == Update(t, [pc |-> "done", code |-> 500])

-----------------------------------------------------------------------------
(* CorsMiddleware.                                                         *)

IsOriginAllowed(o) == AllowedOrigins = {} \/ "*" \in AllowedOrigins \/ o \in AllowedOrigins

ResolveAllowOrigin(o) ==
  IF o = "" \/ ~IsOriginAllowed(o) THEN ""
  ELSE IF "*" \in AllowedOrigins /\ ~AllowCredentials THEN "*" ELSE o

-----------------------------------------------------------------------------
\* The program registers its routes and then starts the server.
RegisterRoute == /\ registered < Len(Program.routes)
                 /\ registered' = registered + 1
                 /\ table' = Register(table, Program.routes[registered'])
                 /\ UNCHANGED <<server, requestOrigin, th, received>>

Listening == registered = Len(Program.routes)

Receive(t) == /\ Finished(t) /\ Listening /\ received < Program.max
              /\ \E r \in Program.requests :
                   th' = [th EXCEPT ![t] = With(Idle, [pc |-> "before", req |-> r])]
              /\ received' = received + 1
              /\ UNCHANGED <<program, requestOrigin>>

\* Variant: a request without an Origin header leaves the member alone.
BeforeKeeps(t) ==
  LET r == th[t].req IN
  /\ At(t, "before") /\ r.method # "OPTIONS"
  /\ requestOrigin' = IF r.origin = "" THEN requestOrigin ELSE r.origin
  /\ th' = [u \in Threads |-> IF u = t THEN [th[t] EXCEPT !.pc = "route"]
                              ELSE [th[u] EXCEPT !.overlapped = @ \/ ~Finished(u)]]
  /\ UNCHANGED <<program, received>>

\* processBefore, which writes the one requestOrigin_ of all threads.  A
\* preflight request ends here: the response is thrown.
Before(t) ==
  LET r == th[t].req
      preflight == ResolveAllowOrigin(r.origin)
  IN /\ At(t, "before")
     /\ requestOrigin' = r.origin
     /\ th' = [u \in Threads |->
                 IF u # t THEN [th[u] EXCEPT !.overlapped = @ \/ ~Finished(u)]
                 ELSE IF r.method # "OPTIONS" THEN [th[t] EXCEPT !.pc = "route"]
                 ELSE [th[t] EXCEPT !.pc = "done", !.allow = preflight,
                                    !.code = IF preflight = "" THEN 403 ELSE 204]]
     /\ UNCHANGED <<program, received>>

\* The target's handler runs next, or the 404.  A target is the place where its
\* handler starts and the number of the route.
FindRoute(t) ==
  LET r == th[t].req
      found == Route(table, r.method, r.path)
  IN /\ At(t, "route")
     /\ IF found = NotFound THEN Update(t, [pc |-> "after", code |-> 404, route |-> found])
        ELSE Update(t, [pc |-> found.target[1], route |-> found])
     /\ UNCHANGED dispatchVars

\* A handler that only builds a response, a page or a library user's callback.
Page(t) == /\ At(t, "page")
           /\ Respond(t, 200)
           /\ UNCHANGED dispatchVars

\* processAfter.
After(t) == /\ At(t, "after")
            /\ Update(t, [pc |-> "done", allow |-> ResolveAllowOrigin(requestOrigin)])
            /\ UNCHANGED dispatchVars

\* A restart of the process forgets what the threads did, and the routes.
Reset == /\ th' = [t \in Threads |-> Idle]
         /\ requestOrigin' = ""
         /\ table' = EmptyTable /\ registered' = 0
         /\ UNCHANGED <<server, received>>

Dispatcher(t) == Receive(t) \/ Before(t) \/ FindRoute(t) \/ Page(t) \/ After(t)

-----------------------------------------------------------------------------
\* The buckets are an optimisation: the handler that gets a request, and its
\* parameters, are those of the routes as they were registered (Router::route,
\* pathPrefixesForLookup).
RouteAsRegistered ==
  \A t \in Threads : "route" \in DOMAIN th[t] =>
    th[t].route = Meant(Program.routes, th[t].req.method, th[t].req.path)

\* CORS: a response carries the header if and only if its own request came from
\* another origin that is allowed, and never names a third one, although
\* requestOrigin_ outlives the request; requests that overlap in two threads
\* are excepted, and so is a 500, which never gets the header.
OwnOrigin ==
  \A t \in Threads :
    At(t, "done") /\ th[t].code # 500 /\ ~th[t].overlapped =>
      LET o == th[t].req.origin IN
      /\ th[t].allow \in {"", "*", o}
      /\ th[t].allow # "" <=>
           o # "" /\ (AllowedOrigins = {} \/ {"*", o} \intersect AllowedOrigins # {})
=============================================================================
