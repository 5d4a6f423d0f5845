---------------------------- MODULE HttpExchange -----------------------------
(***************************************************************************)
(* What one HTTP connection promises to a client that sends a message,     *)
(* waits for the answer and only then sends the next: each message gets    *)
(* exactly one answer, whatever pieces its bytes arrive in; a well-formed  *)
(* message is handed to the application once, as the client wrote it; a    *)
(* malformed one is never handed over, is refused, and ends the exchange.  *)
(***************************************************************************)
EXTENDS Sequences

CONSTANTS Messages,      \* what a client may send
          WellFormed(_), \* is a message one the server must accept?
          Meaning(_),    \* the request a well-formed message stands for
          Refusal(_),    \* the status that refuses a malformed message
          Midway(_),     \* malformed messages that are refused before their end
          Statuses       \* the statuses the application may answer with

VARIABLES asked, handled, answers, over

xvars == <<asked, handled, answers, over>>

Init == asked = <<>> /\ handled = <<>> /\ answers = <<>> /\ over = FALSE

Answered == Len(answers) = Len(asked)
Last(s)  == s[Len(s)]

Ask(m) == /\ ~over /\ Answered
          /\ asked' = Append(asked, m)
          /\ UNCHANGED <<handled, answers, over>>

\* over may become TRUE: either side may want the connection to end.
Serve == /\ ~over /\ ~Answered /\ WellFormed(Last(asked))
         /\ handled' = Append(handled, Meaning(Last(asked)))
         /\ \E s \in Statuses : answers' = Append(answers, s)
         /\ over' \in BOOLEAN
         /\ UNCHANGED asked

Refuse == /\ ~over /\ ~Answered /\ ~WellFormed(Last(asked))
          /\ answers' = Append(answers, Refusal(Last(asked)))
          /\ over' = TRUE
          /\ UNCHANGED <<asked, handled>>

Hangup == /\ ~over
          /\ over' = TRUE
          /\ UNCHANGED <<asked, handled, answers>>

\* The rest of a message that was refused before its end is still on its way:
\* what becomes of it is not promised.
Stray == \E i \in DOMAIN asked : Midway(asked[i])

Next == Serve \/ Refuse \/ Hangup \/ Stray \/ \E m \in Messages : Ask(m)

Spec == Init /\ [][Next]_xvars
=============================================================================
