---------------------------- MODULE TcpServerCalls ----------------------------
(***************************************************************************)
(* One TcpServer from its construction to the return of stop(), which may   *)
(* be called at any time after start().                                     *)
(***************************************************************************)
EXTENDS TcpServer

Init == ServerInit /\ fate = "running"

Next ==
  \/ CreateSocket \/ Start \/ Stop \/ CloseSocket
  \/ \E t \in Thread : StopLoop(t)
  \/ ServerThreads

Spec == Init /\ [][Next]_tcpVars /\ LoopFairness /\ StopFairness

-----------------------------------------------------------------------------
TypeOK == ServerTypeOK /\ fate \in {"running", "threw", "faulted"}

\* The connection is among the events of the worker it was given to.
InQueue(c) == \E i \in 1 .. Len(posted[home[c]]) : posted[home[c]][i] = c

\* Only stop() drops a connection.  None is posted to a loop that has gone, as the
\* acceptor has stopped before the first worker is told to, and what was posted is
\* in the queue of a worker that runs, or of one that stop() has told to end: that
\* one's queue is never looked at again.
DroppedOnlyByStop ==
  \A c \in Connection :
    /\ conn[c] # "lost"
    /\ conn[c] = "posted" => InQueue(c) /\ (thread[home[c]] = "stopped" => stopping)

\* The connections a worker was given.
Given(w) == {c \in Connection : conn[c] \notin {"away", "waiting"} /\ home[c] = w}

\* No worker is given two connections more than another.
LoadIsEven ==
  \A v, w \in Worker : Cardinality(Given(v)) <= Cardinality(Given(w)) + 1

\* stop() returns, or a callback that threw or a fault ends the program first.
StopCompletes == stopping ~> (StopReturns \/ ~Runs)

\* An accepted connection is announced to the plugin, unless stop() comes first.
AcceptedIsAnnounced ==
  \A c \in Connection : conn[c] = "posted" ~> (conn[c] = "open" \/ stopping \/ ~Runs)

\* What the comments "stop thread-safe" say of stop(): calling it while the
\* threads of the server work does no harm.
StopIsThreadSafe == fate # "faulted"

\* How far the server is, and which of its threads are in a callback.
Phase ==
  IF ~Runs THEN "dead"
  ELSE IF StopReturns THEN "stopped"
  ELSE IF loop[Acceptor] = "none" THEN "made" ELSE "serving"
Inside == {w \in Worker : InCallback(w)}

Server == INSTANCE CallbackServer WITH phase <- Phase, inside <- Inside

\* Threads are in a callback only between start() and the return of stop().
CallsBackOnlyUntilStopped == Server!Spec
=============================================================================
