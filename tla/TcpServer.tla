------------------------------ MODULE TcpServer ------------------------------
(***************************************************************************)
(* libhv's TcpServer as AVBridge uses it: a thread that accepts, ThreadNum  *)
(* threads that serve, each with an event loop, and the main thread, which  *)
(* makes the socket, starts the server and stops it.  What its functions    *)
(* call in hloop.h is not part of the repository and is modelled as the     *)
(* comments there describe it: a loop told to stop still finishes the round *)
(* it is in.                                                                *)
(***************************************************************************)
EXTENDS Naturals, Sequences, FiniteSets

CONSTANTS
  ThreadNum,   \* what setThreadNum was given
  Connection   \* bound: the connections that clients make

ASSUME ThreadNumAssumption == ThreadNum \in Nat \ {0}
ASSUME ConnectionAssumption == IsFiniteSet(Connection)

Worker == 0 .. ThreadNum - 1
Acceptor == ThreadNum
Thread == 0 .. ThreadNum

VARIABLES
  listenfd,   \* "closed" (-1), or listening on the port "asked" for or on a "stray" one
  accepting,  \* startAccept: "no", "posted" to the acceptor's loop, or "yes"
  loop,       \* the loop_ of each thread: "none", "running", "halted", or "null"
  thread,     \* each thread: "none", "idle", in "onConnection" or "onMessage", "stopped"
  next,       \* next_loop_idx_
  posted,     \* the customEvents of each worker: connections to be taken over
  conn,       \* each connection: "away", "waiting", "posted", "open", "closed", "lost"
  home,       \* the worker that was given the connection
  stopping,   \* has stop() been called?
  fate        \* "running", or how the program ended: "threw", "faulted"

serverVars == <<listenfd, accepting, loop, thread, next, posted, conn, home, stopping>>
tcpVars == <<serverVars, fate>>

InCallback(t) == thread[t] \in {"onConnection", "onMessage"}
Runs == fate = "running"

ServerTypeOK ==
  /\ listenfd \in {"closed", "asked", "stray"}
  /\ accepting \in {"no", "posted", "yes"}
  /\ loop \in [Thread -> {"none", "running", "halted", "null"}]
  /\ thread \in [Thread -> {"none", "idle", "onConnection", "onMessage", "stopped"}]
  /\ next \in Worker
  /\ posted \in [Worker -> Seq(Connection)]
  /\ conn \in [Connection -> {"away", "waiting", "posted", "open", "closed", "lost"}]
  /\ home \in [Connection -> Worker]
  /\ stopping \in BOOLEAN

ServerInit ==
  /\ listenfd = "closed" /\ accepting = "no" /\ next = 0 /\ stopping = FALSE
  /\ loop = [t \in Thread |-> "none"]
  /\ thread = [t \in Thread |-> "none"]
  /\ posted = [w \in Worker |-> <<>>]
  /\ conn = [c \in Connection |-> "away"]
  /\ home = [c \in Connection |-> 0]

-----------------------------------------------------------------------------
(* The main thread *)

\* Listen fails or not; its result is all that the caller gets.
CreateSocket ==
  /\ Runs /\ loop[Acceptor] = "none" /\ listenfd = "closed"
  /\ listenfd' \in {"closed", "asked"}
  /\ UNCHANGED <<accepting, loop, thread, next, posted, conn, home, stopping, fate>>

\* The workers are started, startAccept is posted to the acceptor's loop, and the
\* acceptor is started.  The waits until they run are left out: main does
\* nothing in between.  A loop that reports kRunning is taken to be in hloop_run.
Start ==
  /\ Runs /\ loop[Acceptor] = "none"
  /\ loop' = [t \in Thread |-> "running"]
  /\ thread' = [t \in Thread |-> "idle"]
  /\ accepting' = "posted"
  /\ UNCHANGED <<listenfd, next, posted, conn, home, stopping, fate>>

Stop ==
  /\ Runs /\ loop[Acceptor] = "running" /\ ~stopping
  /\ stopping' = TRUE
  /\ UNCHANGED <<listenfd, accepting, loop, thread, next, posted, conn, home, fate>>

\* EventLoopThread::stop(true) of the acceptor has returned.
AcceptorStopped == loop[Acceptor] = "null" /\ thread[Acceptor] = "stopped"

\* Mutant: the workers are stopped first.
Reached_WorkersFirst(t) ==
  /\ stopping
  /\ t = Acceptor => \A w \in Worker : thread[w] = "stopped"
  /\ \A w \in Worker : w < t => loop[w] = "null"

\* stop() is at this loop: the acceptor's first, and when its thread has stopped
\* and the socket is closed those of the workers, one after the other.
Reached(t) ==
  IF t = Acceptor THEN stopping
  ELSE /\ AcceptorStopped /\ listenfd = "closed"
       /\ \A w \in Worker : w < t => loop[w] = "null"

\* EventLoop::stop, first part: hloop_stop.
HaltLoop(t) ==
  /\ Runs /\ Reached(t) /\ loop[t] = "running"
  /\ loop' = [loop EXCEPT ![t] = "halted"]
  /\ UNCHANGED <<listenfd, accepting, thread, next, posted, conn, home, stopping, fate>>

\* EventLoop::stop, second part: loop_ = NULL.  The thread may still run.
NullLoop(t) ==
  /\ Runs /\ loop[t] = "halted"
  /\ loop' = [loop EXCEPT ![t] = "null"]
  /\ UNCHANGED <<listenfd, accepting, thread, next, posted, conn, home, stopping, fate>>

CloseSocket ==
  /\ Runs /\ AcceptorStopped /\ listenfd # "closed"
  /\ listenfd' = "closed"
  /\ UNCHANGED <<accepting, loop, thread, next, posted, conn, home, stopping, fate>>

\* Mutant: stop(false), which does not wait for the workers.
StopReturns_NoWait == \A t \in Thread : loop[t] = "null"

\* stop() waits for every thread and returns.
StopReturns == \A t \in Thread : loop[t] = "null" /\ thread[t] = "stopped"

-----------------------------------------------------------------------------
(* The acceptor's thread *)

\* The socket that could not be made is tried again, on the host and port that
\* createsocket stores only when it succeeds: port has no value yet.
StartAccept ==
  /\ Runs /\ thread[Acceptor] = "idle" /\ accepting = "posted"
  /\ listenfd' \in IF listenfd = "closed" THEN {"closed", "stray"} ELSE {listenfd}
  /\ accepting' = IF listenfd' = "closed" \/ loop[Acceptor] = "null" THEN "no" ELSE "yes"
  /\ UNCHANGED <<loop, thread, next, posted, conn, home, stopping, fate>>

\* Mutant: the index is compared before it is advanced.
NextLoop_OffByOne == IF next >= ThreadNum - 1 THEN next ELSE next + 1

\* Mutant: > instead of >=.
NextLoop_Past == IF next + 1 > ThreadNum THEN 0 ELSE next + 1

\* nextLoop, round robin.
NextLoop == IF next + 1 >= ThreadNum THEN 0 ELSE next + 1

\* Mutant: nothing is posted to a worker that is busy.
OnAccept_OnlyIfIdle(c) ==
  /\ Runs /\ thread[Acceptor] = "idle" /\ accepting = "yes" /\ conn[c] = "waiting"
  /\ next' = NextLoop
  /\ home' = [home EXCEPT ![c] = NextLoop]
  /\ conn' = [conn EXCEPT ![c] = "posted"]
  /\ posted' = IF thread[NextLoop] = "idle"
                 THEN [posted EXCEPT ![NextLoop] = Append(@, c)] ELSE posted
  /\ UNCHANGED <<listenfd, accepting, loop, thread, stopping, fate>>

\* onAccept gives the connection to a worker; what is posted to a loop that
\* has gone is dropped.
OnAccept(c) ==
  /\ Runs /\ thread[Acceptor] = "idle" /\ accepting = "yes" /\ conn[c] = "waiting"
  /\ next' = NextLoop
  /\ home' = [home EXCEPT ![c] = NextLoop]
  /\ IF loop[NextLoop] = "null"
       THEN conn' = [conn EXCEPT ![c] = "lost"] /\ UNCHANGED posted
       ELSE /\ conn' = [conn EXCEPT ![c] = "posted"]
            /\ posted' = [posted EXCEPT ![NextLoop] = Append(@, c)]
  /\ UNCHANGED <<listenfd, accepting, loop, thread, stopping, fate>>

-----------------------------------------------------------------------------
(* The workers *)

\* newConnEvent attaches the connection to worker_loop->loop(), which stop() may
\* have set to NULL by now, and calls onConnection.
NewConnEvent(w) ==
  /\ Runs /\ thread[w] = "idle" /\ posted[w] # <<>>
  /\ IF loop[w] = "null"
       THEN fate' = "faulted" /\ UNCHANGED <<thread, posted, conn>>
       ELSE /\ posted' = [posted EXCEPT ![w] = Tail(@)]
            /\ conn' = [conn EXCEPT ![Head(posted[w])] = "open"]
            /\ thread' = [thread EXCEPT ![w] = "onConnection"]
            /\ UNCHANGED fate
  /\ UNCHANGED <<listenfd, accepting, loop, next, home, stopping>>

\* onread: bytes have arrived.
OnRead(c) ==
  /\ Runs /\ thread[home[c]] = "idle" /\ conn[c] = "open"
  /\ thread' = [thread EXCEPT ![home[c]] = "onMessage"]
  /\ UNCHANGED <<listenfd, accepting, loop, next, posted, conn, home, stopping, fate>>

\* onclose: the peer closes, or the loop that ends closes what it has.
OnClose(c) ==
  /\ Runs /\ thread[home[c]] = "idle" /\ conn[c] = "open"
  /\ conn' = [conn EXCEPT ![c] = "closed"]
  /\ thread' = [thread EXCEPT ![home[c]] = "onConnection"]
  /\ UNCHANGED <<listenfd, accepting, loop, next, posted, home, stopping, fate>>

CallbackReturns(w) ==
  /\ Runs /\ InCallback(w)
  /\ thread' = [thread EXCEPT ![w] = "idle"]
  /\ UNCHANGED <<listenfd, accepting, loop, next, posted, conn, home, stopping, fate>>

\* RTMPClient::Execute ends the program in some calls; nothing catches what it throws.
CallbackThrows(w) ==
  /\ Runs /\ thread[w] = "onMessage"
  /\ fate' = "threw"
  /\ UNCHANGED serverVars

\* Mutant: a loop first waits until its connections are closed.
LoopEnds_Drains(t) ==
  /\ Runs /\ thread[t] = "idle" /\ loop[t] \in {"halted", "null"}
  /\ \A c \in Connection : conn[c] = "open" => home[c] # t
  /\ thread' = [thread EXCEPT ![t] = "stopped"]
  /\ UNCHANGED <<listenfd, accepting, loop, next, posted, conn, home, stopping, fate>>

\* run() looks at the flag between rounds; loop_thread then reports that it stopped.
LoopEnds(t) ==
  /\ Runs /\ thread[t] = "idle" /\ loop[t] \in {"halted", "null"}
  /\ thread' = [thread EXCEPT ![t] = "stopped"]
  /\ UNCHANGED <<listenfd, accepting, loop, next, posted, conn, home, stopping, fate>>

-----------------------------------------------------------------------------
\* A client connects, once and while there is a socket to connect to.
Connect(c) ==
  /\ Runs /\ listenfd # "closed" /\ conn[c] = "away"
  /\ conn' = [conn EXCEPT ![c] = "waiting"]
  /\ UNCHANGED <<listenfd, accepting, loop, thread, next, posted, home, stopping, fate>>

StopLoop(t) == HaltLoop(t) \/ NullLoop(t)

ServerThreads ==
  \/ StartAccept
  \/ \E c \in Connection : Connect(c) \/ OnAccept(c) \/ OnRead(c) \/ OnClose(c)
  \/ \E w \in Worker : NewConnEvent(w) \/ CallbackReturns(w) \/ CallbackThrows(w)
  \/ \E t \in Thread : LoopEnds(t)

\* Every round of a loop handles what is pending and then looks at the flag, so
\* neither is put off for ever by other events.
LoopFairness ==
  /\ WF_tcpVars(StartAccept)
  /\ \A w \in Worker : WF_tcpVars(CallbackReturns(w)) /\ SF_tcpVars(NewConnEvent(w))
  /\ \A t \in Thread : SF_tcpVars(LoopEnds(t))

\* A stop() that was called goes on.
StopFairness ==
  /\ \A t \in Thread : WF_tcpVars(StopLoop(t))
  /\ WF_tcpVars(CloseSocket)
=============================================================================
