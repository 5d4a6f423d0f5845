----------------------------- MODULE MCHttpConn ------------------------------
(* Instances of HttpConn for TLC: the messages its clients send. *)
EXTENDS HttpConn

Msg(method, version, length, connection, body) ==
  [method |-> method, version |-> version, colonless |-> FALSE, length |-> length,
   connection |-> connection, body |-> body]

\* Requests the server serves, and requests it refuses where they end.
Served == {Msg("GET", "HTTP/1.1", Absent, "", <<>>),
           Msg("GET", "HTTP/1.1", Absent, "close", <<>>),
           Msg("DELETE", "HTTP/1.0", Absent, "Keep-Alive", <<>>),
           Msg("OPTIONS", "HTTP/1.1", Absent, "", <<>>),
           Msg("POST", "HTTP/1.1", 2, "", <<"x", "y">>),
           Msg("PUT", "HTTP/1.0", 1, "", <<"x">>),
           Msg("POST", "HTTP/1.1", 0, "", <<>>)}
Refused == {Msg("HEAD", "HTTP/1.1", Absent, "", <<>>),
            Msg("POST", "HTTP/1.1", Absent, "", <<"x">>),
            Msg("POST", "HTTP/1.1", Malformed, "", <<"x">>),
            Msg("PUT", "HTTP/1.1", 3, "", <<"x", "y", "x">>)}

\* Messages that are refused before their end: more of the message follows.
RefusedEarly == {[m EXCEPT !.colonless = TRUE] : m \in Served}
OldVersion   == {[m EXCEPT !.version = "HTTP/2.0"] : m \in Served}

Usual == Served \union Refused
All   == Usual \union RefusedEarly \union OldVersion
=============================================================================
