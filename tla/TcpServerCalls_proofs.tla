------------------------ MODULE TcpServerCalls_proofs ------------------------
(***************************************************************************)
(* The safety of TcpServerCalls and its refinement of CallbackServer, for   *)
(* any number of threads and connections.                                   *)
(***************************************************************************)
EXTENDS TcpServerCalls, FiniteSetTheorems, TLAPS

USE ThreadNumAssumption

\* Nothing runs before start().
NotStarted ==
  loop[Acceptor] = "none" => \A t \in Thread : loop[t] = "none" /\ thread[t] = "none"

\* No worker is told to stop while the acceptor runs.
AcceptorStopsFirst ==
  (\E w \in Worker : loop[w] \in {"halted", "null"}) => thread[Acceptor] = "stopped"

\* Nothing is posted to a loop that has gone.
NothingLost == \A c \in Connection : conn[c] # "lost"

Inv ==
  /\ TypeOK
  /\ NotStarted
  /\ AcceptorStopsFirst
  /\ NothingLost

LEMMA Threads ==
  /\ Acceptor \in Thread /\ Acceptor \notin Worker
  /\ Thread = Worker \cup {Acceptor}
  /\ 0 \in Worker
BY DEF Acceptor, Thread, Worker

\* Taking the first element off a sequence.
LEMMA HeadTail ==
  ASSUME NEW S, NEW q \in Seq(S), q # <<>>
  PROVE  /\ Head(q) = q[1] /\ Head(q) \in S /\ 1 \in 1 .. Len(q)
         /\ Tail(q) \in Seq(S) /\ Len(Tail(q)) = Len(q) - 1
         /\ \A i \in 1 .. Len(Tail(q)) :
              i \in Nat /\ Tail(q)[i] = q[i + 1] /\ i + 1 \in 1 .. Len(q)
OBVIOUS

LEMMA NextLoopIsWorker == next \in Worker => NextLoop \in Worker
BY DEF NextLoop, Worker

-----------------------------------------------------------------------------
LEMMA InitInv == Init => Inv
<1> SUFFICES ASSUME Init PROVE Inv
  OBVIOUS
<1> USE Threads DEF Init, ServerInit
<1>1. TypeOK
  <2>1. posted \in [Worker -> Seq(Connection)] /\ home \in [Connection -> Worker]
    OBVIOUS
  <2>2. /\ loop \in [Thread -> {"none", "running", "halted", "null"}]
        /\ thread \in [Thread -> {"none", "idle", "onConnection", "onMessage", "stopped"}]
    OBVIOUS
  <2>3. conn \in [Connection -> {"away", "waiting", "posted", "open", "closed", "lost"}]
    OBVIOUS
  <2> QED
    BY <2>1, <2>2, <2>3 DEF TypeOK, ServerTypeOK
<1>2. NotStarted /\ AcceptorStopsFirst /\ NothingLost
  BY DEF NotStarted, AcceptorStopsFirst, NothingLost
<1> QED
  BY <1>1, <1>2 DEF Inv

LEMMA TypeStep == TypeOK /\ Next => TypeOK'
<1> SUFFICES ASSUME TypeOK, Next PROVE TypeOK'
  OBVIOUS
<1> USE Threads DEF TypeOK, ServerTypeOK
<1>1. CASE CreateSocket \/ Start \/ Stop \/ CloseSocket
  <2>1. CreateSocket \/ Stop \/ CloseSocket => TypeOK'
    BY DEF CreateSocket, Stop, CloseSocket
  <2>2. Start => TypeOK'
    BY DEF Start
  <2> QED
    BY <1>1, <2>1, <2>2
<1>2. ASSUME NEW t \in Thread, StopLoop(t) PROVE TypeOK'
  BY <1>2 DEF StopLoop, HaltLoop, NullLoop
<1>3. CASE StartAccept
  BY <1>3 DEF StartAccept
<1>4. ASSUME NEW c \in Connection, Connect(c) PROVE TypeOK'
  BY <1>4 DEF Connect
<1>5. ASSUME NEW c \in Connection, OnAccept(c) PROVE TypeOK'
  <2>1. NextLoop \in Worker
    BY NextLoopIsWorker
  <2>2. posted' \in [Worker -> Seq(Connection)]
    <3>1. posted[NextLoop] \in Seq(Connection)
      BY <2>1
    <3>2. Append(posted[NextLoop], c) \in Seq(Connection)
      BY <3>1
    <3>3. posted' = posted \/ posted' = [posted EXCEPT ![NextLoop] = Append(@, c)]
      BY <1>5 DEF OnAccept
    <3> QED
      BY <3>2, <3>3
  <2>3. conn' \in [Connection -> {"away", "waiting", "posted", "open", "closed", "lost"}]
    <3>1. \/ conn' = [conn EXCEPT ![c] = "lost"]
          \/ conn' = [conn EXCEPT ![c] = "posted"]
      BY <1>5 DEF OnAccept
    <3> QED
      BY <3>1
  <2>4. next' \in Worker /\ home' \in [Connection -> Worker]
    BY <1>5, <2>1 DEF OnAccept
  <2>5. UNCHANGED <<listenfd, accepting, loop, thread, stopping, fate>>
    BY <1>5 DEF OnAccept
  <2> QED
    BY <2>2, <2>3, <2>4, <2>5
<1>6. ASSUME NEW c \in Connection, OnRead(c) \/ OnClose(c) PROVE TypeOK'
  <2>1. thread' \in [Thread -> {"none", "idle", "onConnection", "onMessage", "stopped"}]
    <3>1. \/ thread' = [thread EXCEPT ![home[c]] = "onMessage"]
          \/ thread' = [thread EXCEPT ![home[c]] = "onConnection"]
      BY <1>6 DEF OnRead, OnClose
    <3> QED
      BY <3>1
  <2>2. conn' \in [Connection -> {"away", "waiting", "posted", "open", "closed", "lost"}]
    <3>1. conn' = conn \/ conn' = [conn EXCEPT ![c] = "closed"]
      BY <1>6 DEF OnRead, OnClose
    <3> QED
      BY <3>1
  <2>3. UNCHANGED <<listenfd, accepting, loop, next, posted, home, stopping, fate>>
    BY <1>6 DEF OnRead, OnClose
  <2> QED
    BY <2>1, <2>2, <2>3
<1>7. ASSUME NEW w \in Worker, NewConnEvent(w) PROVE TypeOK'
  <2>1. Head(posted[w]) \in Connection /\ Tail(posted[w]) \in Seq(Connection)
    BY <1>7 DEF NewConnEvent
  <2>2. CASE loop[w] = "null"
    BY <1>7, <2>2 DEF NewConnEvent
  <2>3. CASE loop[w] # "null"
    <3>1. /\ posted' = [posted EXCEPT ![w] = Tail(@)]
          /\ conn' = [conn EXCEPT ![Head(posted[w])] = "open"]
          /\ thread' = [thread EXCEPT ![w] = "onConnection"]
          /\ UNCHANGED <<listenfd, accepting, loop, next, home, stopping, fate>>
      BY <1>7, <2>3 DEF NewConnEvent
    <3>2. posted' \in [Worker -> Seq(Connection)]
      BY <2>1, <3>1
    <3>3. conn' \in [Connection -> {"away", "waiting", "posted", "open", "closed", "lost"}]
      BY <2>1, <3>1
    <3>4. thread' \in [Thread -> {"none", "idle", "onConnection", "onMessage", "stopped"}]
      BY <3>1
    <3> QED
      BY <3>1, <3>2, <3>3, <3>4
  <2> QED
    BY <2>2, <2>3
<1>8. ASSUME NEW w \in Worker, CallbackReturns(w) \/ CallbackThrows(w) PROVE TypeOK'
  BY <1>8 DEF CallbackReturns, CallbackThrows, serverVars
<1>9. ASSUME NEW t \in Thread, LoopEnds(t) PROVE TypeOK'
  BY <1>9 DEF LoopEnds
<1> QED
  BY <1>1, <1>2, <1>3, <1>4, <1>5, <1>6, <1>7, <1>8, <1>9 DEF Next, ServerThreads

\* The other parts of the invariant speak of loop, thread and conn only.
LEMMA InvStep == Inv /\ Next => (NotStarted /\ AcceptorStopsFirst /\ NothingLost)'
<1> DEFINE Rest == NotStarted /\ AcceptorStopsFirst /\ NothingLost
<1> SUFFICES ASSUME Inv, Next PROVE Rest'
  OBVIOUS
<1> USE Threads
    DEF Inv, TypeOK, ServerTypeOK, NotStarted, AcceptorStopsFirst, NothingLost
<1>1. CASE CreateSocket \/ Stop \/ CloseSocket \/ StartAccept
  BY <1>1 DEF CreateSocket, Stop, CloseSocket, StartAccept
<1>2. CASE Start
  BY <1>2 DEF Start
<1>3. ASSUME NEW t \in Thread, HaltLoop(t) PROVE Rest'
  BY <1>3 DEF HaltLoop, Reached, AcceptorStopped
<1>4. ASSUME NEW t \in Thread, NullLoop(t) PROVE Rest'
  BY <1>4 DEF NullLoop
<1>5. ASSUME NEW c \in Connection, Connect(c) PROVE Rest'
  BY <1>5 DEF Connect
<1>6. ASSUME NEW c \in Connection, OnAccept(c) PROVE Rest'
  <2>1. NextLoop \in Worker /\ loop[NextLoop] # "null"
    BY <1>6, NextLoopIsWorker DEF OnAccept
  <2> QED
    BY <1>6, <2>1 DEF OnAccept
<1>7. ASSUME NEW c \in Connection, OnRead(c) \/ OnClose(c) PROVE Rest'
  BY <1>7 DEF OnRead, OnClose
<1>8. ASSUME NEW w \in Worker, NewConnEvent(w) PROVE Rest'
  BY <1>8 DEF NewConnEvent
<1>9. ASSUME NEW w \in Worker, CallbackReturns(w) \/ CallbackThrows(w) PROVE Rest'
  BY <1>9 DEF CallbackReturns, CallbackThrows, InCallback, serverVars
<1>10. ASSUME NEW t \in Thread, LoopEnds(t) PROVE Rest'
  BY <1>10 DEF LoopEnds
<1> QED
  BY <1>1, <1>2, <1>3, <1>4, <1>5, <1>6, <1>7, <1>8, <1>9, <1>10
  DEF Next, StopLoop, ServerThreads

LEMMA NextInv == Inv /\ [Next]_tcpVars => Inv'
<1> SUFFICES ASSUME Inv, [Next]_tcpVars PROVE Inv'
  OBVIOUS
<1>1. CASE Next
  BY <1>1, TypeStep, InvStep DEF Inv
<1>2. CASE UNCHANGED tcpVars
  BY <1>2
  DEF tcpVars, serverVars, Inv, TypeOK, ServerTypeOK, NotStarted, AcceptorStopsFirst,
      NothingLost
<1> QED
  BY <1>1, <1>2

\* Inv always holds.
THEOREM InvHolds == Spec => []Inv
BY InitInv, NextInv, PTL DEF Spec

\* The types of TypeOK, the round robin index among them (EventLoopThreadPool.h:36).
THEOREM TypeCorrect == Spec => []TypeOK
<1>1. Inv => TypeOK
  BY DEF Inv
<1> QED
  BY <1>1, InvHolds, PTL

-----------------------------------------------------------------------------
(* What is posted *)

\* What is posted is in the queue of its worker.
AllInQueue == \A c \in Connection : conn[c] = "posted" => InQueue(c)

\* No thread stops that stop() has not told to.
StopsIfTold ==
  \A t \in Thread : /\ loop[t] \in {"halted", "null"} => stopping
                    /\ thread[t] = "stopped" => stopping

LEMMA OnlyStopDrops == Inv /\ AllInQueue /\ StopsIfTold => DroppedOnlyByStop
<1> SUFFICES ASSUME Inv, AllInQueue, StopsIfTold, NEW c \in Connection
             PROVE  /\ conn[c] # "lost"
                    /\ conn[c] = "posted" => /\ InQueue(c)
                                             /\ thread[home[c]] = "stopped" => stopping
  BY DEF DroppedOnlyByStop
<1>1. home[c] \in Thread
  BY Threads DEF Inv, TypeOK, ServerTypeOK
<1> QED
  BY <1>1 DEF Inv, NothingLost, AllInQueue, StopsIfTold

LEMMA PostedInit == Init => AllInQueue /\ StopsIfTold
BY DEF Init, ServerInit, AllInQueue, StopsIfTold

LEMMA StopsIfToldStep == Inv /\ StopsIfTold /\ [Next]_tcpVars => StopsIfTold'
<1> SUFFICES ASSUME Inv, StopsIfTold, [Next]_tcpVars PROVE StopsIfTold'
  OBVIOUS
<1> USE Threads DEF Inv, TypeOK, ServerTypeOK, StopsIfTold
<1>1. CASE Start
  BY <1>1 DEF Start
<1>2. ASSUME NEW t \in Thread, HaltLoop(t) PROVE StopsIfTold'
  <2>1. stopping
    <3>1. CASE t = Acceptor
      BY <1>2, <3>1 DEF HaltLoop, Reached
    <3>2. CASE t # Acceptor
      BY <1>2, <3>2 DEF HaltLoop, Reached, AcceptorStopped
    <3> QED
      BY <3>1, <3>2
  <2> QED
    BY <1>2, <2>1 DEF HaltLoop
<1>3. ASSUME NEW t \in Thread, NullLoop(t) PROVE StopsIfTold'
  BY <1>3 DEF NullLoop
<1>4. ASSUME NEW t \in Thread, LoopEnds(t) PROVE StopsIfTold'
  BY <1>4 DEF LoopEnds
<1>5. ASSUME NEW w \in Worker, NewConnEvent(w) \/ CallbackReturns(w) PROVE StopsIfTold'
  BY <1>5 DEF NewConnEvent, CallbackReturns
<1>6. ASSUME NEW c \in Connection, OnRead(c) \/ OnClose(c) PROVE StopsIfTold'
  BY <1>6 DEF OnRead, OnClose
<1>7. CASE Stop
  BY <1>7 DEF Stop
<1>8. CASE UNCHANGED <<loop, thread, stopping>>
  BY <1>8
<1> QED
  BY <1>1, <1>2, <1>3, <1>4, <1>5, <1>6, <1>7, <1>8
  DEF Next, ServerThreads, CreateSocket, CloseSocket, StopLoop, StartAccept, Connect,
      OnAccept, CallbackThrows, tcpVars, serverVars

\* A worker takes the head off its queue and the others in it stay.
LEMMA HeadTaken ==
  ASSUME Inv, AllInQueue, NEW w \in Worker, posted[w] # <<>>,
         posted' = [posted EXCEPT ![w] = Tail(@)], home' = home,
         NEW how, how # "posted", conn' = [conn EXCEPT ![Head(posted[w])] = how]
  PROVE  AllInQueue'
<1> DEFINE q == posted[w]
<1>1. /\ posted \in [Worker -> Seq(Connection)] /\ home \in [Connection -> Worker]
      /\ conn \in [Connection -> {"away", "waiting", "posted", "open", "closed", "lost"}]
  BY DEF Inv, TypeOK, ServerTypeOK
<1>2. /\ q \in Seq(Connection) /\ q # <<>>
      /\ posted'[w] = Tail(q) /\ \A v \in Worker : v # w => posted'[v] = posted[v]
  BY <1>1
<1>3. Head(q) \in Connection /\ conn'[Head(q)] = how
  BY <1>1, <1>2, HeadTail
<1> SUFFICES ASSUME NEW c \in Connection, conn'[c] = "posted"
             PROVE  InQueue(c)'
  BY DEF AllInQueue
<1>4. c # Head(q) /\ conn[c] = "posted"
  BY <1>1, <1>3
<1>5. PICK i \in 1 .. Len(posted[home[c]]) : posted[home[c]][i] = c
  BY <1>4 DEF AllInQueue, InQueue
<1>6. CASE home[c] # w
  BY <1>1, <1>2, <1>5, <1>6 DEF InQueue
<1>7. CASE home[c] = w
  <2>1. i \in 1 .. Len(q) /\ q[i] = c
    BY <1>5, <1>7
  <2> HIDE DEF q
  <2>2. Head(q) = q[1] /\ Len(Tail(q)) = Len(q) - 1 /\ Len(q) \in Nat
    BY <1>2, HeadTail
  <2>3. i # 1
    BY <1>4, <2>1, <2>2
  <2>4. i - 1 \in 1 .. Len(Tail(q)) /\ (i - 1) + 1 = i
    BY <2>1, <2>2, <2>3
  <2>5. Tail(q)[i - 1] = c
    BY <1>2, <2>1, <2>4, HeadTail
  <2>6. home'[c] = w
    BY <1>7
  <2> QED
    BY <1>2, <2>4, <2>5, <2>6 DEF InQueue
<1> QED
  BY <1>6, <1>7

\* The acceptor puts a connection at the end of a queue.
LEMMA AcceptQueues ==
  ASSUME Inv, AllInQueue, NEW c \in Connection, OnAccept(c)
  PROVE  AllInQueue'
<1>1. PICK n \in Worker : n = NextLoop
  BY NextLoopIsWorker DEF Inv, TypeOK, ServerTypeOK
<1>2. /\ posted \in [Worker -> Seq(Connection)] /\ home \in [Connection -> Worker]
      /\ conn \in [Connection -> {"away", "waiting", "posted", "open", "closed", "lost"}]
  BY DEF Inv, TypeOK, ServerTypeOK
<1>3. home' = [home EXCEPT ![c] = n]
  BY <1>1 DEF OnAccept
<1>4. CASE conn' = [conn EXCEPT ![c] = "lost"] /\ posted' = posted
  <2>1. \A d \in Connection : conn'[d] = "posted" =>
          d # c /\ conn[d] = "posted" /\ home'[d] = home[d]
    BY <1>2, <1>3, <1>4
  <2> QED
    BY <1>4, <2>1 DEF AllInQueue, InQueue
<1>5. CASE conn' = [conn EXCEPT ![c] = "posted"]
           /\ posted' = [posted EXCEPT ![n] = Append(@, c)]
  <2>1. /\ posted[n] \in Seq(Connection) /\ posted'[n] = Append(posted[n], c)
        /\ \A w \in Worker : w # n => posted'[w] = posted[w]
    BY <1>2, <1>5
  <2>2. /\ Len(posted'[n]) = Len(posted[n]) + 1 /\ Len(posted[n]) \in Nat
        /\ posted'[n][Len(posted[n]) + 1] = c
        /\ \A i \in 1 .. Len(posted[n]) : posted'[n][i] = posted[n][i]
    BY <2>1
  <2>3. InQueue(c)'
    <3>1. home'[c] = n
      BY <1>2, <1>3
    <3>2. Len(posted[n]) + 1 \in 1 .. Len(posted'[n])
      BY <2>2
    <3> QED
      BY <2>2, <3>1, <3>2 DEF InQueue
  <2>4. ASSUME NEW d \in Connection, d # c, conn'[d] = "posted" PROVE InQueue(d)'
    <3>1. conn[d] = "posted" /\ home'[d] = home[d] /\ home[d] \in Worker
      BY <1>2, <1>3, <1>5, <2>4
    <3>2. PICK i \in 1 .. Len(posted[home[d]]) : posted[home[d]][i] = d
      BY <3>1 DEF AllInQueue, InQueue
    <3>3. i \in 1 .. Len(posted'[home[d]]) /\ posted'[home[d]][i] = d
      <4>1. CASE home[d] # n
        BY <2>1, <3>1, <3>2, <4>1
      <4>2. CASE home[d] = n
        BY <2>2, <3>2, <4>2
      <4> QED
        BY <4>1, <4>2
    <3> QED
      BY <3>1, <3>3 DEF InQueue
  <2> QED
    BY <2>3, <2>4 DEF AllInQueue
<1> QED
  BY <1>1, <1>4, <1>5 DEF OnAccept

LEMMA AllInQueueStep == Inv /\ AllInQueue /\ [Next]_tcpVars => AllInQueue'
<1> SUFFICES ASSUME Inv, AllInQueue, [Next]_tcpVars PROVE AllInQueue'
  OBVIOUS
<1>1. ASSUME NEW c \in Connection, Connect(c) \/ OnClose(c) PROVE AllInQueue'
  <2>1. \E how \in {"waiting", "closed"} : conn' = [conn EXCEPT ![c] = how]
    BY <1>1 DEF Connect, OnClose
  <2>2. \A d \in Connection : conn'[d] = "posted" => conn[d] = "posted"
    BY <2>1 DEF Inv, TypeOK, ServerTypeOK
  <2>3. UNCHANGED <<posted, home>>
    BY <1>1 DEF Connect, OnClose
  <2> QED
    BY <2>2, <2>3 DEF AllInQueue, InQueue
<1>2. ASSUME NEW c \in Connection, OnAccept(c) PROVE AllInQueue'
  BY <1>2, AcceptQueues
<1>3. ASSUME NEW w \in Worker, NewConnEvent(w) PROVE AllInQueue'
  <2>1. CASE loop[w] = "null"
    BY <1>3, <2>1 DEF NewConnEvent, AllInQueue, InQueue
  <2>2. CASE loop[w] # "null"
    <3>1. /\ posted[w] # <<>> /\ posted' = [posted EXCEPT ![w] = Tail(@)]
          /\ home' = home /\ conn' = [conn EXCEPT ![Head(posted[w])] = "open"]
      BY <1>3, <2>2 DEF NewConnEvent
    <3> QED
      BY <3>1, HeadTaken
  <2> QED
    BY <2>1, <2>2
<1>4. ASSUME UNCHANGED <<conn, posted, home>> PROVE AllInQueue'
  BY <1>4 DEF AllInQueue, InQueue
<1> QED
  BY <1>1, <1>2, <1>3, <1>4
  DEF Next, ServerThreads, CreateSocket, Start, Stop, CloseSocket, StopLoop, HaltLoop,
      NullLoop, StartAccept, OnRead, CallbackReturns, CallbackThrows, LoopEnds, tcpVars,
      serverVars

\* A connection that was accepted is dropped by stop() or not at all (TcpServer.h:285,
\* EventLoop.h:213).
THEOREM DropsOnlyByStop == Spec => []DroppedOnlyByStop
BY PostedInit, AllInQueueStep, StopsIfToldStep, OnlyStopDrops, InvHolds, PTL DEF Spec

-----------------------------------------------------------------------------
(* Round robin *)

\* The workers from 1 to next have had their turn in this round, the others not yet.
InTurn(k) ==
  \A w \in Worker : Cardinality(Given(w)) = IF w \in 1 .. next THEN k + 1 ELSE k

Shares == \E k \in Nat : InTurn(k)

LEMMA SharesAreEven == Shares => LoadIsEven
<1> SUFFICES ASSUME NEW k \in Nat, InTurn(k) PROVE LoadIsEven
  BY DEF Shares
<1> QED
  BY DEF InTurn, LoadIsEven

LEMMA SharesInit == Init => Shares
<1> SUFFICES ASSUME Init PROVE InTurn(0)
  BY DEF Shares
<1>1. \A w \in Worker : Given(w) = {}
  BY DEF Init, ServerInit, Given
<1>2. next = 0
  BY DEF Init, ServerInit
<1> QED
  BY <1>1, <1>2, FS_EmptySet DEF InTurn

\* What is posted has been accepted.
PostedAccepted ==
  \A w \in Worker : \A i \in 1 .. Len(posted[w]) :
    conn[posted[w][i]] \notin {"away", "waiting"}

\* The next worker in turn is given one more connection.
LEMMA SharesAccept ==
  ASSUME Inv, Shares, NEW c \in Connection, OnAccept(c)
  PROVE  Shares'
<1>1. PICK k \in Nat : InTurn(k)
  BY DEF Shares
<1>2. PICK n \in Worker : n = NextLoop
  BY NextLoopIsWorker DEF Inv, TypeOK, ServerTypeOK
<1>3. /\ conn[c] = "waiting" /\ conn'[c] \notin {"away", "waiting"}
      /\ home'[c] = n /\ next' = n /\ next \in Worker
      /\ \A d \in Connection : d # c => conn'[d] = conn[d] /\ home'[d] = home[d]
  <2>1. \E s \in {"lost", "posted"} : conn' = [conn EXCEPT ![c] = s]
    BY DEF OnAccept
  <2>2. conn[c] = "waiting" /\ home' = [home EXCEPT ![c] = n] /\ next' = n
    BY <1>2 DEF OnAccept
  <2> QED
    BY <2>1, <2>2 DEF Inv, TypeOK, ServerTypeOK
<1>4. /\ Given(n)' = Given(n) \cup {c} /\ c \notin Given(n)
      /\ \A w \in Worker : w # n => Given(w)' = Given(w)
  BY <1>3 DEF Given
<1>5. Cardinality(Given(n)') = Cardinality(Given(n)) + 1
  <2>1. IsFiniteSet(Given(n))
    BY ConnectionAssumption, FS_Subset DEF Given
  <2> QED
    BY <1>4, <2>1, FS_AddElement
<1>6. \A w \in Worker : Cardinality(Given(w)') =
        IF w = n THEN Cardinality(Given(w)) + 1 ELSE Cardinality(Given(w))
  BY <1>4, <1>5
<1>7. CASE next + 1 >= ThreadNum
  <2>1. n = 0 /\ \A w \in Worker : w \in 1 .. next <=> w # 0
    BY <1>2, <1>3, <1>7 DEF NextLoop, Worker
  <2>2. \A w \in Worker : Cardinality(Given(w)') = k + 1
    BY <1>1, <1>6, <2>1 DEF InTurn
  <2>3. \A w \in Worker : w \notin 1 .. next'
    BY <1>3, <2>1
  <2>4. InTurn(k + 1)'
    BY <2>2, <2>3 DEF InTurn
  <2> QED
    BY <2>4 DEF Shares
<1>8. CASE ~(next + 1 >= ThreadNum)
  <2>1. n = next + 1
    BY <1>2, <1>8 DEF NextLoop
  <2>2. \A w \in Worker : /\ w \in 1 .. next' <=> w \in 1 .. next \/ w = n
                          /\ n \notin 1 .. next
    BY <1>3, <2>1 DEF Worker
  <2>3. \A w \in Worker : Cardinality(Given(w)') = IF w \in 1 .. next' THEN k + 1 ELSE k
    BY <1>1, <1>6, <2>2 DEF InTurn
  <2>4. InTurn(k)'
    BY <2>3 DEF InTurn
  <2> QED
    BY <2>4 DEF Shares
<1> QED
  BY <1>7, <1>8

LEMMA PostedAcceptedInit == Init => PostedAccepted
<1> SUFFICES ASSUME Init, NEW w \in Worker, NEW i \in 1 .. Len(posted[w])
             PROVE  FALSE
  BY DEF PostedAccepted
<1>1. posted[w] = <<>>
  BY DEF Init, ServerInit
<1> QED
  BY <1>1

LEMMA PostedAcceptedStep == Inv /\ PostedAccepted /\ [Next]_tcpVars => PostedAccepted'
<1> SUFFICES ASSUME Inv, PostedAccepted, [Next]_tcpVars PROVE PostedAccepted'
  OBVIOUS
<1>0. /\ posted \in [Worker -> Seq(Connection)]
      /\ conn \in [Connection -> {"away", "waiting", "posted", "open", "closed", "lost"}]
  BY DEF Inv, TypeOK, ServerTypeOK
<1>1. ASSUME NEW c \in Connection, conn[c] \notin {"away", "waiting"} =>
               conn'[c] \notin {"away", "waiting"},
             \A d \in Connection : d # c => conn'[d] = conn[d], posted' = posted
      PROVE  PostedAccepted'
  BY <1>0, <1>1 DEF PostedAccepted
<1>2. ASSUME NEW c \in Connection, Connect(c) \/ OnClose(c) PROVE PostedAccepted'
  <2>1. /\ conn[c] \notin {"away", "waiting"} => conn'[c] \notin {"away", "waiting"}
        /\ \A d \in Connection : d # c => conn'[d] = conn[d]
        /\ posted' = posted
    BY <1>0, <1>2 DEF Connect, OnClose
  <2> QED
    BY <1>1, <2>1
<1>3. ASSUME NEW c \in Connection, OnAccept(c) PROVE PostedAccepted'
  <2>1. PICK n \in Worker : n = NextLoop
    BY NextLoopIsWorker DEF Inv, TypeOK, ServerTypeOK
  <2>2. CASE conn' = [conn EXCEPT ![c] = "lost"] /\ posted' = posted
    BY <1>0, <1>1, <2>2
  <2>3. CASE conn' = [conn EXCEPT ![c] = "posted"]
             /\ posted' = [posted EXCEPT ![n] = Append(@, c)]
    <3>1. /\ posted'[n] = Append(posted[n], c) /\ posted[n] \in Seq(Connection)
          /\ \A w \in Worker : w # n => posted'[w] = posted[w]
      BY <1>0, <2>3
    <3>2. conn'[c] = "posted" /\ \A d \in Connection : d # c => conn'[d] = conn[d]
      BY <1>0, <2>3
    <3>3. \A i \in 1 .. Len(posted'[n]) :
            posted'[n][i] = c \/ (i \in 1 .. Len(posted[n]) /\ posted'[n][i] = posted[n][i])
      BY <3>1
    <3>4. \A d \in Connection : conn[d] \notin {"away", "waiting"} =>
                                conn'[d] \notin {"away", "waiting"}
      BY <3>2
    <3>5. ASSUME NEW i \in 1 .. Len(posted[n])
          PROVE  conn'[posted[n][i]] \notin {"away", "waiting"}
      BY <3>1, <3>4, <3>5 DEF PostedAccepted
    <3>6. ASSUME NEW w \in Worker, w # n, NEW i \in 1 .. Len(posted[w])
          PROVE  conn'[posted[w][i]] \notin {"away", "waiting"}
      BY <1>0, <3>4, <3>6 DEF PostedAccepted
    <3>7. ASSUME NEW w \in Worker, NEW i \in 1 .. Len(posted'[w])
          PROVE  conn'[posted'[w][i]] \notin {"away", "waiting"}
      <4>1. CASE w # n
        <5>1. posted'[w] = posted[w]
          BY <3>1, <4>1
        <5> QED
          BY <3>6, <4>1, <5>1
      <4>2. CASE w = n
        <5>1. CASE posted'[n][i] = c
          BY <3>2, <4>2, <5>1
        <5>2. CASE i \in 1 .. Len(posted[n]) /\ posted'[n][i] = posted[n][i]
          BY <3>5, <4>2, <5>2
        <5> QED
          BY <3>3, <4>2, <5>1, <5>2
      <4> QED
        BY <4>1, <4>2
    <3> QED
      BY <3>7, Zenon DEF PostedAccepted
  <2> QED
    BY <1>3, <2>1, <2>2, <2>3 DEF OnAccept
<1>4. ASSUME NEW w \in Worker, NewConnEvent(w) PROVE PostedAccepted'
  <2>1. CASE loop[w] = "null"
    BY <1>4, <2>1 DEF NewConnEvent, PostedAccepted
  <2>2. CASE loop[w] # "null"
    <3> DEFINE c == Head(posted[w])
    <3>1. /\ conn' = [conn EXCEPT ![c] = "open"]
          /\ posted' = [posted EXCEPT ![w] = Tail(@)] /\ posted[w] # <<>>
      BY <1>4, <2>2 DEF NewConnEvent
    <3>2. posted[w] \in Seq(Connection) /\ c \in Connection
      BY <1>0, <3>1
    <3> HIDE DEF c
    <3>3. /\ posted'[w] = Tail(posted[w])
          /\ \A v \in Worker : v # w => posted'[v] = posted[v]
          /\ conn'[c] = "open" /\ \A d \in Connection : d # c => conn'[d] = conn[d]
      BY <1>0, <3>1, <3>2
    <3>4. \A i \in 1 .. Len(posted'[w]) :
            i + 1 \in 1 .. Len(posted[w]) /\ posted'[w][i] = posted[w][i + 1]
      <4> DEFINE q == posted[w]
      <4>1. q \in Seq(Connection) /\ q # <<>>
        BY <3>1, <3>2
      <4> HIDE DEF q
      <4>2. \A i \in 1 .. Len(Tail(q)) : Tail(q)[i] = q[i + 1] /\ i + 1 \in 1 .. Len(q)
        BY <4>1, HeadTail
      <4> QED
        BY <3>3, <4>2 DEF q
    <3>5. ASSUME NEW i \in 1 .. Len(posted'[w])
          PROVE  conn'[posted'[w][i]] \notin {"away", "waiting"}
      <4>1. i + 1 \in 1 .. Len(posted[w]) /\ posted'[w][i] = posted[w][i + 1]
        BY <3>4
      <4>2. posted[w][i + 1] \in Connection
        BY <3>2, <4>1
      <4>3. conn[posted[w][i + 1]] \notin {"away", "waiting"}
        BY <4>1 DEF PostedAccepted
      <4> QED
        BY <3>3, <4>1, <4>2, <4>3
    <3>6. ASSUME NEW v \in Worker, v # w, NEW i \in 1 .. Len(posted'[v])
          PROVE  conn'[posted'[v][i]] \notin {"away", "waiting"}
      <4>1. i \in 1 .. Len(posted[v]) /\ posted'[v][i] = posted[v][i]
        BY <3>3, <3>6
      <4>2. posted[v][i] \in Connection
        BY <1>0, <4>1
      <4>3. conn[posted[v][i]] \notin {"away", "waiting"}
        BY <4>1 DEF PostedAccepted
      <4> QED
        BY <3>3, <4>1, <4>2, <4>3
    <3> QED
      BY <3>5, <3>6 DEF PostedAccepted
  <2> QED
    BY <2>1, <2>2
<1>5. ASSUME UNCHANGED <<conn, posted>> PROVE PostedAccepted'
  BY <1>5 DEF PostedAccepted
<1> QED
  BY <1>2, <1>3, <1>4, <1>5
  DEF Next, ServerThreads, CreateSocket, Start, Stop, CloseSocket, StopLoop, HaltLoop,
      NullLoop, StartAccept, OnRead, CallbackReturns, CallbackThrows, LoopEnds, tcpVars,
      serverVars

\* Who was given a connection does not change.
LEMMA SharesSame ==
  ASSUME Shares, UNCHANGED <<next, home>>,
         \A c \in Connection :
           conn'[c] \in {"away", "waiting"} <=> conn[c] \in {"away", "waiting"}
  PROVE  Shares'
<1>1. \A w \in Worker : Given(w)' = Given(w)
  BY DEF Given
<1> QED
  BY <1>1 DEF Shares, InTurn

LEMMA SharesStep == Inv /\ PostedAccepted /\ Shares /\ [Next]_tcpVars => Shares'
<1> SUFFICES ASSUME Inv, PostedAccepted, Shares, [Next]_tcpVars PROVE Shares'
  OBVIOUS
<1>1. CASE \E c \in Connection : OnAccept(c)
  BY <1>1, SharesAccept
<1>2. ASSUME NEW c \in Connection, Connect(c) \/ OnClose(c) PROVE Shares'
  BY <1>2, SharesSame DEF Connect, OnClose, Inv, TypeOK, ServerTypeOK
<1>3. ASSUME NEW w \in Worker, NewConnEvent(w) PROVE Shares'
  <2>1. CASE loop[w] = "null"
    BY <1>3, <2>1, SharesSame DEF NewConnEvent
  <2>2. CASE loop[w] # "null"
    <3> DEFINE c == Head(posted[w])
    <3>1. conn' = [conn EXCEPT ![c] = "open"] /\ UNCHANGED <<next, home>>
      BY <1>3, <2>2 DEF NewConnEvent
    <3>2. posted[w] \in Seq(Connection) /\ posted[w] # <<>>
      BY <1>3 DEF NewConnEvent, Inv, TypeOK, ServerTypeOK
    <3>3. c = posted[w][1] /\ 1 \in 1 .. Len(posted[w]) /\ c \in Connection
      BY <3>2
    <3>4. conn[c] \notin {"away", "waiting"}
      BY <3>3 DEF PostedAccepted
    <3> QED
      BY <3>1, <3>3, <3>4, SharesSame DEF Inv, TypeOK, ServerTypeOK
  <2> QED
    BY <2>1, <2>2
<1>4. ASSUME UNCHANGED <<conn, next, home>> PROVE Shares'
  BY <1>4, SharesSame
<1> QED
  BY <1>1, <1>2, <1>3, <1>4
  DEF Next, ServerThreads, CreateSocket, Start, Stop, CloseSocket, StopLoop, HaltLoop,
      NullLoop, StartAccept, OnRead, CallbackReturns, CallbackThrows, LoopEnds, tcpVars,
      serverVars

\* Round robin gives no worker two connections more than another
\* (EventLoopThreadPool.h:36), for any number of workers and connections.
THEOREM LoadStaysEven == Spec => []LoadIsEven
BY PostedAcceptedInit, PostedAcceptedStep, SharesInit, SharesStep, SharesAreEven,
   InvHolds, PTL DEF Spec

-----------------------------------------------------------------------------
(* Refinement *)

\* While a thread runs the server is neither new nor stopped.
LEMMA Serving ==
  ASSUME Inv, Runs, NEW t \in Thread, thread[t] \notin {"none", "stopped"}
  PROVE  Phase = "serving"
BY DEF Phase, StopReturns, Inv, NotStarted

LEMMA AbstractInit == Init => Server!Init
<1> SUFFICES ASSUME Init PROVE Phase = "made" /\ Inside = {}
  BY DEF Server!Init
<1> QED
  BY Threads DEF Init, ServerInit, Phase, Inside, Runs, StopReturns, InCallback

\* A thread of the server enters a callback.
LEMMA EnterStep ==
  ASSUME Inv, Runs, Runs', NEW w \in Worker, NEW in \in {"onConnection", "onMessage"},
         thread[w] = "idle", thread' = [thread EXCEPT ![w] = in], loop' = loop
  PROVE  Server!Next
<1> USE Threads
<1>1. thread \in [Thread -> {"none", "idle", "onConnection", "onMessage", "stopped"}]
  BY DEF Inv, TypeOK, ServerTypeOK
<1>2. Phase = "serving"
  BY Serving
<1>3. Phase' = "serving"
  BY <1>1 DEF Phase, StopReturns, Inv, NotStarted
<1>4. w \notin Inside /\ Inside' = Inside \cup {w}
  BY <1>1 DEF Inside, InCallback
<1>5. Server!Enter(w)
  BY <1>2, <1>3, <1>4 DEF Server!Enter
<1> QED
  BY <1>5 DEF Server!Next

LEMMA LeaveStep ==
  ASSUME Inv, NEW w \in Worker, CallbackReturns(w)
  PROVE  Server!Next
<1> USE Threads
<1>1. thread \in [Thread -> {"none", "idle", "onConnection", "onMessage", "stopped"}]
  BY DEF Inv, TypeOK, ServerTypeOK
<1>2. Phase = "serving"
  BY Serving DEF CallbackReturns, InCallback
<1>3. Phase' = "serving"
  BY <1>1 DEF Phase, StopReturns, Inv, NotStarted, CallbackReturns, Runs, InCallback
<1>4. w \in Inside /\ Inside' = Inside \ {w}
  BY <1>1 DEF Inside, InCallback, CallbackReturns
<1>5. Server!Leave(w)
  BY <1>2, <1>3, <1>4 DEF Server!Leave
<1> QED
  BY <1>5 DEF Server!Next

\* A thread that runs ends the program.
LEMMA DieStep ==
  ASSUME Inv, Runs, ~Runs', NEW w \in Worker, thread[w] \notin {"none", "stopped"},
         thread' = thread
  PROVE  Server!Next
<1>1. Phase = "serving"
  BY Serving, Threads
<1>2. Phase' = "dead"
  BY DEF Phase
<1>3. Inside' = Inside
  BY DEF Inside, InCallback
<1> QED
  BY <1>1, <1>2, <1>3 DEF Server!Next, Server!Die

\* A step of stop(), or a thread that ends: the last one stops the server.
LEMMA StopStep ==
  ASSUME Inv, NEW t \in Thread, StopLoop(t) \/ LoopEnds(t)
  PROVE  Server!Next \/ UNCHANGED Server!vars
<1> USE Threads
<1>1. /\ thread \in [Thread -> {"none", "idle", "onConnection", "onMessage", "stopped"}]
      /\ loop \in [Thread -> {"none", "running", "halted", "null"}]
  BY DEF Inv, TypeOK, ServerTypeOK
<1>2. Runs /\ Runs'
  BY DEF StopLoop, HaltLoop, NullLoop, LoopEnds, Runs
<1>3. Phase = "serving"
  <2>1. loop[t] \in {"running", "halted"} \/ thread[t] = "idle"
    BY DEF StopLoop, HaltLoop, NullLoop, LoopEnds
  <2>2. loop[t] # "none"
    BY DEF StopLoop, HaltLoop, NullLoop, LoopEnds
  <2> QED
    BY <1>2, <2>1, <2>2 DEF Phase, StopReturns, Inv, NotStarted
<1>4. Inside' = Inside
  BY <1>1 DEF Inside, InCallback, StopLoop, HaltLoop, NullLoop, LoopEnds
<1>5. loop'[Acceptor] # "none"
  <2>1. loop[Acceptor] # "none"
    BY <1>2, <1>3 DEF Phase
  <2> QED
    BY <1>1, <2>1 DEF StopLoop, HaltLoop, NullLoop, LoopEnds
<1>6. CASE StopReturns'
  <2>1. Phase' = "stopped"
    BY <1>2, <1>6 DEF Phase
  <2>2. Inside' = {}
    BY <1>6 DEF Inside, InCallback, StopReturns
  <2> QED
    BY <1>3, <1>4, <2>1, <2>2 DEF Server!Next, Server!Stop
<1>7. CASE ~StopReturns'
  <2>1. Phase' = "serving"
    BY <1>2, <1>5, <1>7 DEF Phase
  <2> QED
    BY <1>3, <1>4, <2>1 DEF Server!vars
<1> QED
  BY <1>6, <1>7

LEMMA StartStep ==
  ASSUME Inv, Start
  PROVE  Server!Next
<1> USE Threads
<1>1. Phase = "made"
  BY DEF Start, Phase, StopReturns
<1>2. Phase' = "serving"
  BY DEF Start, Phase, StopReturns, Runs
<1>3. Inside = {} /\ Inside' = {}
  BY DEF Start, Inside, InCallback, Inv, NotStarted
<1> QED
  BY <1>1, <1>2, <1>3 DEF Server!Next, Server!Start

LEMMA AbstractStep ==
  Inv /\ [Next]_tcpVars => [Server!Next]_(Server!vars)
<1> SUFFICES ASSUME Inv, [Next]_tcpVars
             PROVE  Server!Next \/ UNCHANGED Server!vars
  OBVIOUS
<1>1. ASSUME UNCHANGED <<loop, thread, fate>> PROVE UNCHANGED Server!vars
  BY <1>1 DEF Server!vars, Phase, Inside, Runs, StopReturns, InCallback
<1>2. CASE CreateSocket \/ Stop \/ CloseSocket \/ StartAccept \/ UNCHANGED tcpVars
  BY <1>1, <1>2 DEF CreateSocket, Stop, CloseSocket, StartAccept, tcpVars, serverVars
<1>3. CASE Start
  BY <1>3, StartStep
<1>4. ASSUME NEW t \in Thread, StopLoop(t) \/ LoopEnds(t)
      PROVE  Server!Next \/ UNCHANGED Server!vars
  BY <1>4, StopStep
<1>5. ASSUME NEW c \in Connection, Connect(c) \/ OnAccept(c)
      PROVE  UNCHANGED Server!vars
  BY <1>1, <1>5 DEF Connect, OnAccept
<1>6. ASSUME NEW c \in Connection, OnRead(c) \/ OnClose(c)
      PROVE  Server!Next
  <2>1. home[c] \in Worker
    BY DEF Inv, TypeOK, ServerTypeOK
  <2> QED
    BY <1>6, <2>1, EnterStep DEF OnRead, OnClose, Runs
<1>7. ASSUME NEW w \in Worker, NewConnEvent(w)
      PROVE  Server!Next
  <2>1. CASE loop[w] = "null"
    BY <1>7, <2>1, DieStep DEF NewConnEvent, Runs
  <2>2. CASE loop[w] # "null"
    BY <1>7, <2>2, EnterStep DEF NewConnEvent, Runs
  <2> QED
    BY <2>1, <2>2
<1>8. ASSUME NEW w \in Worker, CallbackReturns(w)
      PROVE  Server!Next
  BY <1>8, LeaveStep
<1>9. ASSUME NEW w \in Worker, CallbackThrows(w)
      PROVE  Server!Next
  BY <1>9, DieStep DEF CallbackThrows, Runs, serverVars
<1> QED
  BY <1>2, <1>3, <1>4, <1>5, <1>6, <1>7, <1>8, <1>9 DEF Next, ServerThreads

\* The TCP server calls the plugin back only between start() and the return of
\* stop() (TcpServer.h:284): it implements CallbackServer.
THEOREM TcpServerImplementsCallbackServer == Spec => CallsBackOnlyUntilStopped
<1>1. Spec => Server!Init
  BY AbstractInit DEF Spec
<1>2. Inv /\ [Next]_tcpVars => [Server!Next]_(Server!vars)
  BY AbstractStep
<1>3. Spec => [][Server!Next]_(Server!vars)
  BY <1>2, InvHolds, PTL DEF Spec
<1> QED
  BY <1>1, <1>3, PTL DEF CallsBackOnlyUntilStopped, Server!Spec
=============================================================================
