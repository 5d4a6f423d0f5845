------------------------------ MODULE MCChatApp -------------------------------
(* An instance of ChatApp for TLC: the programs and what their clients ask. *)
EXTENDS ChatApp

Ask(method, path, origin, user) ==
  [method |-> method, path |-> path, origin |-> origin, user |-> user]

\* Requests about accounts: two clients register one name at the same time, old
\* accounts log in with the right and with a wrong password.
SignUp(name, password) ==
  [name |-> name, password |-> password] @@ Ask("POST", <<"register">>, "", "")
LogIn(name, password) ==
  [name |-> name, password |-> password] @@ Ask("POST", <<"login">>, "", "")
AccountServer ==
  [routes |-> ChatRoutes, max |-> 4,
   requests |-> {SignUp("new", 1), SignUp("new", 2), SignUp("legacy", 1),
                 LogIn("legacy", 11), LogIn("legacy", 1), LogIn("new", 1), LogIn("plain", 12)}]
OldAccounts == <<[name |-> "legacy", owner |-> 11, stored |-> Legacy("salt", 11)],
                 [name |-> "plain", owner |-> 12, stored |-> Plaintext(12)]>>

\* Requests about chats, of two users and of nobody.
OnChat(name, user, sid) == [sid |-> sid] @@ Ask("POST", <<"chat", name>>, "", user)
ChatServer ==
  [routes |-> ChatRoutes, max |-> 4,
   requests |-> {OnChat("send", "ann", "s1"), OnChat("history", "ann", "s1"),
                 OnChat("history", "bob", "s1"),
                 Ask("POST", <<"chat", "send-new-session">>, "", "ann"),
                 Ask("GET", <<"chat", "sessions">>, "", "ann")}]

\* Images and speech; same-origin, cross-origin and preflight requests.
Upload(chars, bytes) ==
  [image |-> chars, bytes |-> bytes] @@ Ask("POST", <<"upload", "send">>, "", "ann")
Images == {<<0>>, <<255, 16>>, <<1, 2, 200>>, <<77, 255, 0, 63>>}
ASSUME LinesRoundTrip ==
  \A b \in Images : \A n \in 1..5 : DecodeWithoutLinebreaks(EncodeInLines(b, n)) = b

MediaServer ==
  [routes |-> ChatRoutes, max |-> 2,
   requests |-> {Upload(Encode(b), b) : b \in Images}
                \union {Upload(Unpadded(b), b) : b \in Images}
                \union {Upload(EncodeInLines(b, 2), Error) : b \in Images \ {<<0>>}}
                \union {Upload(<<>>, Error), Upload(<<3>>, Error), Upload(<<3, Other, 4, 5>>, Error),
                        Ask("POST", <<"chat", "tts">>, "", "ann"),
                        Ask("POST", <<"chat", "tts">>, "", "")}]
CorsServer ==
  [routes |-> ChatRoutes, max |-> 4,
   requests |-> {Ask("GET", <<"menu">>, o, "") : o \in {"", "other"}}
                \union {Ask("OPTIONS", <<"menu">>, o, "") : o \in {"", "other"}}
                \union {Ask("GET", <<"nothing">>, "", ""), Ask("GET", <<"chat", "sessions">>, "", "")}]

\* Programs on the same framework with two routes out of these, in both orders.
Dynamic == << <<"regexHandlers", <<"a", Param>>>>, <<"regexHandlers", <<"a", "b", Param>>>>,
              <<"regexHandlers", <<"a", Param, "b">>>>, <<"regexHandlers", <<Param, "b">>>>,
              <<"regexCallbacks", <<"a", "b", Param>>>>, <<"regexHandlers", <<"a", "b", "c">>>>,
              <<"handlers", <<"a", "b">>>>, <<"callbacks", <<"a", "b">>>> >>
Paths == {<<>>, <<"">>, <<"b">>, <<"a", "">>, <<"a", "b">>, <<"a", "c">>, <<"a", "b", "">>,
          <<"a", "b", "b">>, <<"a", "b", "c">>, <<"a", "c", "b">>, <<"a", "", "b">>, <<"c", "b">>}
RouteServer(i, j) ==
  LET route(k, at) == [kind |-> Dynamic[k][1], method |-> "GET", path |-> Dynamic[k][2],
                       target |-> <<"page", at>>]
  IN [routes |-> <<route(i, 1), route(j, 2)>>, max |-> 1,
      requests |-> {Ask("GET", p, "", "") : p \in Paths} \union {Ask("POST", <<"a", "b">>, "", "")}]
RouteServers == [n \in 1..64 |-> RouteServer(((n - 1) \div 8) + 1, ((n - 1) % 8) + 1)]

ChatPrograms == <<AccountServer, ChatServer, MediaServer, CorsServer>>
Programs == ChatPrograms \o RouteServers

Symmetry == Permutations(Threads)
\* now ^ rand() may come twice.
Ids == <<"s1", "s2", "s2", "s3">>
=============================================================================
