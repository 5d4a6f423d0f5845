-------------------------------- MODULE Router --------------------------------
(***************************************************************************)
(* http::router::Router: exact routes in two hash maps, routes with        *)
(* parameters in buckets keyed by method and static prefix.                *)
(*                                                                         *)
(* A string that begins with "/" is the sequence of what stands between    *)
(* its slashes: "/a/b" is <<"a", "b">>, "/a/" is <<"a", "">>, "/" is       *)
(* <<"">>, and the empty string is <<>>.  A segment ":name" of a pattern   *)
(* is Param.  The literal segments hold no metacharacter of a regex.       *)
(***************************************************************************)
EXTENDS Integers, Sequences, SequencesExt

CONSTANT Param      \* a segment ":name"

NotFound == << >>   \* what route() answers when it returns false

-----------------------------------------------------------------------------
(* A registration is a record of its kind, method, path and target: the    *)
(* handler object or callback.  The methods' locks make each one atomic.   *)

EmptyTable == [handlers |-> << >>, callbacks |-> << >>,
               regexHandlers |-> << >>, regexCallbacks |-> << >>]

ParameterPlaces(path) == {i \in DOMAIN path : path[i] = Param}

\* Everything up to the slash before the first parameter; "" without one.
RouteStaticPrefix(path) ==
  IF ParameterPlaces(path) = {} THEN <<>>
  ELSE Append(SubSeq(path, 1, Min(ParameterPlaces(path)) - 1), "")

\* An exact map keeps the last registration of a key.
Overwrite(map, r) == [k \in DOMAIN map \union {<<r.method, r.path>>} |->
                        IF k = <<r.method, r.path>> THEN r.target ELSE map[k]]

\* A bucket keeps them all, in order.
Bucket(map, k) == IF k \in DOMAIN map THEN map[k] ELSE <<>>

AddToBucket(map, r) ==
  LET key == <<r.method, RouteStaticPrefix(r.path)>>
  IN [k \in DOMAIN map \union {key} |->
        IF k = key THEN Append(Bucket(map, key), [regex |-> r.path, target |-> r.target])
                   ELSE map[k]]

Register(table, r) == [table EXCEPT ![r.kind] =
                         IF r.kind \in {"handlers", "callbacks"} THEN Overwrite(@, r)
                                                                 ELSE AddToBucket(@, r)]

-----------------------------------------------------------------------------
\* convertToRegex and regex_match: a parameter is one or more characters other
\* than a slash.
Matches(pattern, path) ==
  /\ Len(pattern) = Len(path)
  /\ \A i \in DOMAIN path : IF pattern[i] = Param THEN path[i] # "" ELSE pattern[i] = path[i]

\* The values of param1, param2, ...
PathParameters(pattern, path) ==
  LET at == SelectSeq([i \in DOMAIN path |-> i], LAMBDA i : pattern[i] = Param)
  IN [i \in DOMAIN at |-> path[at[i]]]

\* Variant: sorted from the shortest to the longest.
PathPrefixesAscending(path) ==
  LET own == IF Len(path) > 1 /\ path[Len(path)] = "" THEN 0 ELSE 1
      all == Len(path) + own
  IN [k \in 1..all |-> IF k = 1 THEN <<>>
                       ELSE IF k = all /\ own = 1 THEN path
                       ELSE Append(SubSeq(path, 1, k - 1), "")]

\* The path, then its directories from the longest to the shortest, then "".  A
\* path that ends with a slash is the first of its directories.  The loop starts
\* at index 1: "/" is a key of the path "/" only.
PathPrefixesForLookup(path) ==
  LET own == IF Len(path) > 1 /\ path[Len(path)] = "" THEN 0 ELSE 1
      all == Len(path) + own
  IN [k \in 1..all |-> IF k = all THEN <<>>
                       ELSE IF k = own THEN path
                       ELSE Append(SubSeq(path, 1, all - k), "")]

Search(map, method, path) ==
  LET keys   == PathPrefixesForLookup(path)
      hit(k) == LET bucket == Bucket(map, <<method, keys[k]>>)
                IN {i \in DOMAIN bucket : Matches(bucket[i].regex, path)}
      tried  == {k \in DOMAIN keys : hit(k) # {}}
  IN IF tried = {} THEN NotFound
     ELSE LET obj == Bucket(map, <<method, keys[Min(tried)]>>)[Min(hit(Min(tried)))]
          IN [target |-> obj.target, params |-> PathParameters(obj.regex, path)]

Route(table, method, path) ==
  LET key == <<method, path>>
      regexHandler == Search(table.regexHandlers, method, path)
  IN IF key \in DOMAIN table.handlers
       THEN [target |-> table.handlers[key], params |-> <<>>]
     ELSE IF key \in DOMAIN table.callbacks
       THEN [target |-> table.callbacks[key], params |-> <<>>]
     ELSE IF regexHandler # NotFound THEN regexHandler
     ELSE Search(table.regexCallbacks, method, path)

-----------------------------------------------------------------------------
(* What the routes registered mean, said without a hash map or a bucket.   *)

\* The literal segments before the first parameter; a pattern without one is
\* the last resort.
Specificity(pattern) == IF ParameterPlaces(pattern) = {} THEN -1
                        ELSE Min(ParameterPlaces(pattern)) - 1

\* The registrations of a kind for a request.  A pattern that begins with a
\* parameter has the prefix "/", which the lookup of no longer path tries.
Candidates(routes, kind, method, path) ==
  {i \in DOMAIN routes : /\ routes[i].kind = kind /\ routes[i].method = method
                         /\ IF kind \in {"handlers", "callbacks"} THEN routes[i].path = path
                            ELSE Matches(routes[i].path, path) /\ Specificity(routes[i].path) # 0}

\* Of exact routes the last registered, of routes with parameters the most
\* specific, and of these the first registered.
Chosen(routes, kind, found) ==
  CHOOSE i \in found :
    \A j \in found : IF kind \in {"handlers", "callbacks"} THEN j <= i
                     ELSE \/ Specificity(routes[j].path) < Specificity(routes[i].path)
                          \/ Specificity(routes[j].path) = Specificity(routes[i].path) /\ i <= j

\* Handlers come before callbacks, exact routes before those with parameters.
Kinds == <<"handlers", "callbacks", "regexHandlers", "regexCallbacks">>

Meant(routes, method, path) ==
  LET Of(k) == Candidates(routes, Kinds[k], method, path)
      found == {k \in DOMAIN Kinds : Of(k) # {}}
  IN IF found = {} THEN NotFound
     ELSE LET k     == Min(found)
              route == routes[Chosen(routes, Kinds[k], Of(k))]
          IN [target |-> route.target,
              params |-> IF k \in {1, 2} THEN <<>> ELSE PathParameters(route.path, path)]
=============================================================================
