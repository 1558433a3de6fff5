---------------------------- MODULE CallbackServer ----------------------------
(***************************************************************************)
(* What AVBridge relies on when it gives a server the callbacks of a plugin *)
(* and later takes the plugin away: threads of the server are inside these  *)
(* callbacks only after it was started and never once its stop() returned.  *)
(***************************************************************************)
CONSTANT Worker   \* the threads that call back

VARIABLES
  phase,    \* "made", "serving", "stopped", or "dead": the program has ended
  inside    \* the threads that are in a callback

vars == <<phase, inside>>

Init == phase = "made" /\ inside = {}

Start == phase = "made" /\ phase' = "serving" /\ UNCHANGED inside

Enter(w) ==
  /\ phase = "serving" /\ w \notin inside
  /\ inside' = inside \cup {w}
  /\ UNCHANGED phase

Leave(w) ==
  /\ phase = "serving" /\ w \in inside
  /\ inside' = inside \ {w}
  /\ UNCHANGED phase

Stop == phase = "serving" /\ inside = {} /\ phase' = "stopped" /\ UNCHANGED inside

\* A callback threw, or the server itself failed.
Die == phase = "serving" /\ phase' = "dead" /\ UNCHANGED inside

Next == Start \/ Stop \/ Die \/ \E w \in Worker : Enter(w) \/ Leave(w)

Spec == Init /\ [][Next]_vars
=============================================================================
