----------------------------- MODULE RTMPSession -----------------------------
(***************************************************************************)
(* What one RTMP session of the plugin is for the rest of the program: a    *)
(* handshake that is answered once and never taken up again, then a set of  *)
(* chunk streams that only grows, until the program ends.  No step hands a  *)
(* message on: nothing a client publishes leaves its session.               *)
(***************************************************************************)
EXTENDS Naturals

CONSTANT Stream   \* the chunk streams

VARIABLES
  phase,     \* New, C0C1 or C2
  alive,     \* does the program run?
  answers,   \* answers the client was sent
  open,      \* the chunk streams that have begun
  handedOn   \* has a message been handed on?

session == <<phase, alive, answers, open, handedOn>>

Init ==
  /\ phase = "New"
  /\ alive = TRUE
  /\ answers = 0
  /\ open = {}
  /\ handedOn = FALSE

Answer ==
  /\ alive /\ phase = "New"
  /\ phase' = "C0C1"
  /\ answers' = answers + 1
  /\ UNCHANGED <<alive, open, handedOn>>

Establish ==
  /\ alive /\ phase = "C0C1"
  /\ phase' = "C2"
  /\ UNCHANGED <<alive, answers, open, handedOn>>

Begin(s) ==
  /\ alive /\ phase = "C2"
  /\ s \notin open
  /\ open' = open \cup {s}
  /\ UNCHANGED <<phase, alive, answers, handedOn>>

\* The program ends on a first message or on a chunk, never while C2 is awaited.
\* What becomes of the streams then is of no account.
End ==
  /\ alive /\ phase # "C0C1"
  /\ alive' = FALSE
  /\ open' \subseteq Stream
  /\ UNCHANGED <<phase, answers, handedOn>>

Next == Answer \/ Establish \/ End \/ \E s \in Stream : Begin(s)

Spec == Init /\ [][Next]_session
=============================================================================
