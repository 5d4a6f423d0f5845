-------------------------- MODULE MCLoginSessions ---------------------------
(* Instances of LoginSessions for TLC: names are interchangeable. *)
EXTENDS LoginSessions, TLC

Symmetry == Permutations(Clients) \union Permutations(Users)
            \union Permutations(Sessions) \union Permutations(Threads)
=============================================================================
