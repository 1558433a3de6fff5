-------------------------- MODULE PluginRTMP_proofs --------------------------
(***************************************************************************)
(* The number of channels, and the refinement of ConnectionLife, for any    *)
(* limit and any number of workers and connections.                         *)
(***************************************************************************)
EXTENDS PluginRTMP, TcpServerCalls_proofs

USE ThreadNumAssumption, MaxConnectionsAssumption

\* The channels and the workers about to add one: the second set is what the limit
\* does not see.
Counted ==
  /\ IsFiniteSet(channels)
  /\ Cardinality(channels) + Cardinality(passed) <= MaxConnections + ThreadNum - 1

\* A connection waits at one place of the queue of its worker.
Queued ==
  \A w \in Worker : \A i \in 1 .. Len(posted[w]) :
    /\ conn[posted[w][i]] = "posted" /\ home[posted[w][i]] = w
    /\ \A j \in 1 .. Len(posted[w]) : posted[w][i] = posted[w][j] => i = j

\* A worker in a callback serves one connection, which is its own.
ServesOne ==
  \A w \in Worker :
    /\ InCallback(w) <=> serving[w] # {}
    /\ \A c \in serving[w] :
         serving[w] = {c} /\ home[c] = w /\ conn[c] \in {"open", "closed"}

ClientsLast == \A c \in Connection : client[c] = "destroyed" => conn[c] = "closed"

PluginInv ==
  /\ Inv /\ PluginTypeOK
  /\ Counted /\ Queued /\ ServesOne /\ ClientsLast
  /\ CountsOpenConnections

\* The workers are ThreadNum many.
LEMMA Workers == IsFiniteSet(Worker) /\ Cardinality(Worker) = ThreadNum
<1>1. ThreadNum - 1 \in Int /\ 0 \in Int
  OBVIOUS
<1> QED
  BY <1>1, FS_Interval DEF Worker

\* A set of workers that lacks one of them.
LEMMA FewerThanWorkers ==
  ASSUME NEW P \in SUBSET Worker
  PROVE  /\ IsFiniteSet(P) /\ Cardinality(P) \in Nat /\ Cardinality(P) <= ThreadNum
         /\ \A w \in Worker \ P : Cardinality(P) <= ThreadNum - 1
                                  /\ Cardinality(P \cup {w}) = Cardinality(P) + 1
         /\ \A w \in P : Cardinality(P \ {w}) = Cardinality(P) - 1
<1>1. IsFiniteSet(P) /\ Cardinality(P) <= ThreadNum /\ Cardinality(P) \in Nat
  BY Workers, FS_Subset, FS_CardinalityType
<1>2. ASSUME NEW w \in Worker \ P
      PROVE  Cardinality(P) <= ThreadNum - 1 /\ Cardinality(P \cup {w}) = Cardinality(P) + 1
  <2>1. Cardinality(P \cup {w}) = Cardinality(P) + 1
    BY <1>1, FS_AddElement
  <2>2. Cardinality(P \cup {w}) <= ThreadNum
    BY Workers, FS_Subset
  <2> QED
    BY <1>1, <2>1, <2>2
<1>3. ASSUME NEW w \in P PROVE Cardinality(P \ {w}) = Cardinality(P) - 1
  BY <1>1, FS_RemoveElement
<1> QED
  BY <1>1, <1>2, <1>3

-----------------------------------------------------------------------------
LEMMA PluginInitInv == PluginInit => PluginInv
<1> SUFFICES ASSUME PluginInit PROVE PluginInv
  OBVIOUS
<1> USE DEF PluginInit
<1>1. Inv
  BY InitInv
<1>2. PluginTypeOK
  BY <1>1 DEF PluginTypeOK, Inv
<1>3. Counted
  BY FS_EmptySet DEF Counted
<1>4. \A w \in Worker : posted[w] = <<>> /\ thread[w] = "none" /\ serving[w] = {}
  BY Threads DEF Init, ServerInit
<1>5. \A c \in Connection : conn[c] = "away" /\ client[c] = "none"
  BY DEF Init, ServerInit
<1>6. Queued /\ ServesOne /\ ClientsLast /\ CountsOpenConnections
  BY <1>4, <1>5 DEF Queued, ServesOne, ClientsLast, CountsOpenConnections, InCallback
<1> QED
  BY <1>1, <1>2, <1>3, <1>6 DEF PluginInv

\* What the next connection of a worker is.
LEMMA NextPosted ==
  ASSUME PluginInv, NEW w \in Worker, posted[w] # <<>>
  PROVE  /\ Head(posted[w]) \in Connection /\ Tail(posted[w]) \in Seq(Connection)
         /\ conn[Head(posted[w])] = "posted" /\ home[Head(posted[w])] = w
         /\ \A v \in Worker : \A i \in 1 .. Len(posted[v]) :
              posted[v][i] = Head(posted[w]) => v = w /\ i = 1
         /\ Head(posted[w]) \notin channels
         /\ \A v \in Worker : Head(posted[w]) \notin serving[v]
<1> DEFINE c == Head(posted[w])
<1>1. posted[w] \in Seq(Connection)
  BY DEF PluginInv, Inv, TypeOK, ServerTypeOK
<1>2. c = posted[w][1] /\ c \in Connection /\ 1 \in 1 .. Len(posted[w])
      /\ Tail(posted[w]) \in Seq(Connection)
  BY <1>1, HeadTail
<1>3. conn[c] = "posted" /\ home[c] = w
  BY <1>2 DEF PluginInv, Queued
<1>4. ASSUME NEW v \in Worker, NEW i \in 1 .. Len(posted[v]), posted[v][i] = c
      PROVE  v = w /\ i = 1
  <2>1. home[posted[v][i]] = v
    BY DEF PluginInv, Queued
  <2>2. v = w
    BY <1>3, <1>4, <2>1
  <2>3. posted[w][i] = posted[w][1] /\ i \in 1 .. Len(posted[w])
    BY <1>2, <1>4, <2>2
  <2> QED
    BY <1>2, <2>2, <2>3 DEF PluginInv, Queued
<1>5. \A v \in Worker : c \notin serving[v]
  BY <1>3 DEF PluginInv, ServesOne
<1>6. c \notin channels
  BY <1>2, <1>3, <1>5 DEF PluginInv, CountsOpenConnections
<1> HIDE DEF c
<1> QED
  BY <1>2, <1>3, <1>4, <1>5, <1>6 DEF c

\* Taking the next connection from a queue keeps the queues in order, if its new
\* state is none that waits.
LEMMA QueueTail ==
  ASSUME PluginInv, NEW w \in Worker, posted[w] # <<>>,
         posted' = [posted EXCEPT ![w] = Tail(@)], home' = home,
         NEW s, conn' = [conn EXCEPT ![Head(posted[w])] = s]
  PROVE  Queued'
<1> DEFINE c == Head(posted[w])
<1>0. /\ c \in Connection
      /\ \A v \in Worker : \A i \in 1 .. Len(posted[v]) : posted[v][i] = c => v = w /\ i = 1
  BY NextPosted
<1>1. posted \in [Worker -> Seq(Connection)] /\ conn \in [Connection -> {"away", "waiting",
        "posted", "open", "closed", "lost"}]
  BY DEF PluginInv, Inv, TypeOK, ServerTypeOK
<1>2. /\ Len(Tail(posted[w])) = Len(posted[w]) - 1 /\ Len(posted[w]) \in Nat
      /\ \A i \in 1 .. Len(Tail(posted[w])) :
           i \in Nat /\ Tail(posted[w])[i] = posted[w][i + 1] /\ i + 1 \in 1 .. Len(posted[w])
  <2>1. posted[w] \in Seq(Connection)
    BY <1>1
  <2> QED
    BY <2>1, HeadTail
<1>3. posted'[w] = Tail(posted[w]) /\ \A v \in Worker \ {w} : posted'[v] = posted[v]
  BY <1>1
<1> HIDE DEF c
<1> SUFFICES ASSUME NEW v \in Worker, NEW i \in 1 .. Len(posted'[v])
             PROVE  /\ conn'[posted'[v][i]] = "posted" /\ home[posted'[v][i]] = v
                    /\ \A j \in 1 .. Len(posted'[v]) : posted'[v][i] = posted'[v][j] => i = j
  BY ZenonT(40) DEF Queued
<1>4. CASE v # w
  <2>1. posted'[v] = posted[v]
    BY <1>3, <1>4
  <2>2. posted[v][i] # c /\ posted[v][i] \in Connection
    BY <1>0, <1>1, <1>4, <2>1
  <2>3. conn'[posted[v][i]] = conn[posted[v][i]]
    BY <1>1, <2>2 DEF c
  <2> QED
    BY <2>1, <2>3 DEF PluginInv, Queued
<1>5. CASE v = w
  <2>1. posted'[w][i] = posted[w][i + 1] /\ i + 1 \in 1 .. Len(posted[w]) /\ i \in Nat
    BY <1>2, <1>3, <1>5
  <2>2. posted[w][i + 1] # c /\ posted[w][i + 1] \in Connection
    BY <1>0, <1>1, <2>1
  <2>3. conn'[posted[w][i + 1]] = conn[posted[w][i + 1]]
    BY <1>1, <2>2 DEF c
  <2>4. conn[posted[w][i + 1]] = "posted" /\ home[posted[w][i + 1]] = w
    BY <2>1 DEF PluginInv, Queued
  <2>5. ASSUME NEW j \in 1 .. Len(posted'[w]), posted'[w][i] = posted'[w][j] PROVE i = j
    <3>1. posted'[w][j] = posted[w][j + 1] /\ j + 1 \in 1 .. Len(posted[w]) /\ j \in Nat
      BY <1>2, <1>3
    <3>2. i + 1 = j + 1
      BY <2>1, <2>5, <3>1 DEF PluginInv, Queued
    <3> QED
      BY <2>1, <3>1, <3>2
  <2> QED
    BY <1>5, <2>1, <2>3, <2>4, <2>5
<1> QED
  BY <1>4, <1>5

-----------------------------------------------------------------------------
(* The server under the plugin *)

LEMMA RefuseInv ==
  ASSUME PluginInv, NEW w \in Worker, Refuse(w)
  PROVE  Inv'
<1>1. /\ posted[w] # <<>> /\ posted' = [posted EXCEPT ![w] = Tail(@)]
      /\ conn' = [conn EXCEPT ![Head(posted[w])] = "closed"]
      /\ UNCHANGED <<listenfd, accepting, loop, thread, next, home, stopping, fate>>
  BY DEF Refuse, TakesOver
<1>2. Head(posted[w]) \in Connection /\ Tail(posted[w]) \in Seq(Connection)
  BY <1>1, NextPosted
<1>3. posted' \in [Worker -> Seq(Connection)]
  BY <1>1, <1>2 DEF PluginInv, Inv, TypeOK, ServerTypeOK
<1>4. /\ conn' \in [Connection -> {"away", "waiting", "posted", "open", "closed", "lost"}]
      /\ NothingLost'
  BY <1>1, <1>2 DEF PluginInv, Inv, TypeOK, ServerTypeOK, NothingLost
<1> QED
  BY <1>1, <1>3, <1>4
  DEF PluginInv, Inv, TypeOK, ServerTypeOK, NotStarted, AcceptorStopsFirst

\* Every other step is one of the server or changes nothing of it.
LEMMA ServerInv ==
  ASSUME PluginInv, PluginNext
  PROVE  Inv'
<1>1. CASE \E w \in Worker : Refuse(w)
  BY <1>1, RefuseInv
<1>2. CASE ~ \E w \in Worker : Refuse(w)
  <2>1. Next \/ UNCHANGED tcpVars
    BY <1>2 DEF PluginNext, CheckLimit, NewConnection, Return, Message, Close, Elsewhere,
                Next, ServerThreads
  <2> QED
    BY <2>1, NextInv DEF PluginInv
<1> QED
  BY <1>1, <1>2

LEMMA PluginTypes ==
  ASSUME PluginInv, PluginNext
  PROVE  PluginTypeOK'
<1> DEFINE Goal ==
      /\ channels' \subseteq Connection /\ passed' \subseteq Worker
      /\ serving' \in [Worker -> SUBSET Connection]
      /\ client' \in [Connection -> {"none", "live", "destroyed"}]
<1> SUFFICES Goal
  BY ServerInv DEF PluginTypeOK, Inv
<1>0. /\ channels \subseteq Connection /\ passed \subseteq Worker
      /\ serving \in [Worker -> SUBSET Connection]
      /\ client \in [Connection -> {"none", "live", "destroyed"}]
      /\ home \in [Connection -> Worker]
  BY DEF PluginInv, PluginTypeOK, TypeOK, ServerTypeOK
<1>1. ASSUME NEW w \in Worker, CheckLimit(w) \/ Refuse(w) PROVE Goal
  BY <1>0, <1>1 DEF CheckLimit, Refuse, pluginVars
<1>2. ASSUME NEW w \in Worker, NewConnection(w) PROVE Goal
  <2>1. Head(posted[w]) \in Connection
    BY <1>2, NextPosted DEF NewConnection, NewConnEvent
  <2>2. channels' = channels \/ channels' = channels \cup {Head(posted[w])}
    BY <1>2 DEF NewConnection
  <2>3. serving' = serving \/ serving' = [serving EXCEPT ![w] = {Head(posted[w])}]
    BY <1>2 DEF NewConnection
  <2>4. passed' = passed \ {w} /\ client' = client
    BY <1>2 DEF NewConnection
  <2> QED
    BY <1>0, <2>1, <2>2, <2>3, <2>4
<1>3. ASSUME NEW w \in Worker, Return(w) PROVE Goal
  BY <1>0, <1>3 DEF Return
<1>4. ASSUME NEW c \in Connection, Message(c) \/ Close(c) PROVE Goal
  <2>1. \/ client' = client
        \/ client' = [client EXCEPT ![c] = IF @ = "none" THEN "live" ELSE @]
    BY <1>4 DEF Message, Close
  <2>2. client' \in [Connection -> {"none", "live", "destroyed"}]
    BY <1>0, <2>1
  <2>3. serving' = [serving EXCEPT ![home[c]] = {c}] /\ UNCHANGED <<channels, passed>>
    BY <1>4 DEF Message, Close
  <2> QED
    BY <1>0, <2>2, <2>3
<1>5. CASE Elsewhere
  BY <1>0, <1>5 DEF Elsewhere, pluginVars
<1> QED
  BY <1>1, <1>2, <1>3, <1>4, <1>5 DEF PluginNext

\* A worker that passes was below the limit, and one of ThreadNum.
LEMMA CountedStep ==
  ASSUME PluginInv, PluginNext
  PROVE  Counted'
<1>1. passed \subseteq Worker /\ IsFiniteSet(channels) /\ Cardinality(channels) \in Nat
  BY FS_CardinalityType DEF PluginInv, PluginTypeOK, Counted
<1>2. /\ Cardinality(passed) \in Nat
      /\ Cardinality(channels) + Cardinality(passed) <= MaxConnections + ThreadNum - 1
  BY <1>1, FewerThanWorkers DEF PluginInv, Counted
<1>3. ASSUME NEW w \in Worker, CheckLimit(w) PROVE Counted'
  <2>1. /\ Cardinality(channels) < MaxConnections /\ w \notin passed
        /\ passed' = passed \cup {w} /\ channels' = channels
    BY <1>3 DEF CheckLimit, TakesOver, BelowLimit
  <2>2. Cardinality(passed) <= ThreadNum - 1 /\ Cardinality(passed') = Cardinality(passed) + 1
    BY <1>1, <2>1, FewerThanWorkers
  <2> QED
    BY <1>1, <1>2, <2>1, <2>2 DEF Counted
<1>4. ASSUME NEW w \in Worker, NewConnection(w) PROVE Counted'
  <2>1. w \in passed /\ passed' = passed \ {w}
        /\ (channels' = channels \/ channels' = channels \cup {Head(posted[w])})
    BY <1>4 DEF NewConnection
  <2>2. Cardinality(passed') = Cardinality(passed) - 1
    BY <1>1, <2>1, FewerThanWorkers
  <2>3. IsFiniteSet(channels') /\ Cardinality(channels') <= Cardinality(channels) + 1
        /\ Cardinality(channels') \in Nat
    <3>1. /\ IsFiniteSet(channels \cup {Head(posted[w])})
          /\ Cardinality(channels \cup {Head(posted[w])}) \in
               {Cardinality(channels), Cardinality(channels) + 1}
      BY <1>1, FS_AddElement
    <3> QED
      BY <1>1, <2>1, <3>1
  <2> QED
    BY <1>1, <1>2, <2>2, <2>3 DEF Counted
<1>5. ASSUME NEW w \in Worker, Return(w) PROVE Counted'
  <2>1. channels' \in SUBSET channels /\ passed' = passed
    BY <1>5 DEF Return
  <2>2. IsFiniteSet(channels') /\ Cardinality(channels') <= Cardinality(channels)
        /\ Cardinality(channels') \in Nat
    <3>1. IsFiniteSet(channels') /\ Cardinality(channels') <= Cardinality(channels)
      BY <1>1, <2>1, FS_Subset
    <3> QED
      BY <3>1, FS_CardinalityType
  <2> QED
    BY <1>1, <1>2, <2>1, <2>2 DEF Counted
<1>6. ASSUME UNCHANGED <<channels, passed>> PROVE Counted'
  BY <1>6 DEF Counted, PluginInv
<1> QED
  BY <1>3, <1>4, <1>5, <1>6
  DEF PluginNext, Refuse, Message, Close, Elsewhere, pluginVars

-----------------------------------------------------------------------------
(* Queues, callbacks and channels *)

Rest == Queued /\ ServesOne /\ ClientsLast /\ CountsOpenConnections

\* What the variables of the server are, for the lemmas below.
LEMMA ServerFacts ==
  ASSUME PluginInv
  PROVE  /\ thread \in [Thread -> {"none", "idle", "onConnection", "onMessage", "stopped"}]
         /\ posted \in [Worker -> Seq(Connection)]
         /\ conn \in [Connection ->
                      {"away", "waiting", "posted", "open", "closed", "lost"}]
         /\ home \in [Connection -> Worker]
         /\ serving \in [Worker -> SUBSET Connection]
         /\ client \in [Connection -> {"none", "live", "destroyed"}]
         /\ \A w \in Worker : w \in Thread
BY Threads DEF PluginInv, PluginTypeOK, TypeOK, ServerTypeOK

LEMMA RefuseRest ==
  ASSUME PluginInv, NEW w \in Worker, Refuse(w)
  PROVE  Rest'
<1> DEFINE c == Head(posted[w])
<1>1. /\ posted[w] # <<>> /\ posted' = [posted EXCEPT ![w] = Tail(@)]
      /\ conn' = [conn EXCEPT ![c] = "closed"]
      /\ UNCHANGED <<home, thread, channels, serving, client>>
  BY DEF Refuse, TakesOver, pluginVars
<1>2. /\ c \in Connection /\ conn[c] = "posted" /\ c \notin channels
      /\ \A v \in Worker : c \notin serving[v]
  BY <1>1, NextPosted
<1>3. Queued'
  BY <1>1, QueueTail
<1>4. conn'[c] = "closed" /\ \A d \in Connection : d # c => conn'[d] = conn[d]
  BY <1>1, <1>2, ServerFacts
<1> HIDE DEF c
<1>5. ServesOne'
  BY <1>1, <1>2, <1>4, ServerFacts DEF PluginInv, ServesOne, InCallback
<1>6. ClientsLast'
  BY <1>1, <1>2, <1>4 DEF PluginInv, ClientsLast
<1>7. CountsOpenConnections'
  BY <1>1, <1>2, <1>4 DEF PluginInv, CountsOpenConnections
<1> QED
  BY <1>3, <1>5, <1>6, <1>7 DEF Rest

LEMMA NewConnectionRest ==
  ASSUME PluginInv, NEW w \in Worker, NewConnection(w)
  PROVE  Rest'
<1>1. CASE loop[w] = "null"
  BY <1>1 DEF NewConnection, NewConnEvent, Rest, PluginInv, Queued, ServesOne, ClientsLast,
              CountsOpenConnections, InCallback
<1>2. CASE loop[w] # "null"
  <2> DEFINE c == Head(posted[w])
  <2>1. /\ posted[w] # <<>> /\ posted' = [posted EXCEPT ![w] = Tail(@)]
        /\ conn' = [conn EXCEPT ![c] = "open"]
        /\ thread[w] = "idle" /\ thread' = [thread EXCEPT ![w] = "onConnection"]
        /\ channels' = channels \cup {c} /\ serving' = [serving EXCEPT ![w] = {c}]
        /\ UNCHANGED <<home, client>>
    BY <1>2 DEF NewConnection, NewConnEvent
  <2>2. /\ c \in Connection /\ conn[c] = "posted" /\ home[c] = w
        /\ \A v \in Worker : c \notin serving[v]
    BY <2>1, NextPosted
  <2>3. Queued'
    BY <2>1, QueueTail
  <2>4. conn'[c] = "open" /\ \A d \in Connection : d # c => conn'[d] = conn[d]
    BY <2>1, <2>2, ServerFacts
  <2>5. /\ serving'[w] = {c} /\ \A v \in Worker : v # w => serving'[v] = serving[v]
        /\ thread'[w] = "onConnection" /\ \A v \in Worker : v # w => thread'[v] = thread[v]
    BY <2>1, ServerFacts
  <2>6. serving[w] = {}
    BY <2>1 DEF PluginInv, ServesOne, InCallback
  <2> HIDE DEF c
  <2>7. ServesOne'
    BY <2>1, <2>2, <2>4, <2>5, ServerFacts DEF PluginInv, ServesOne, InCallback
  <2>8. ClientsLast'
    BY <2>1, <2>2, <2>4 DEF PluginInv, ClientsLast
  <2>9. CountsOpenConnections'
    BY <2>1, <2>2, <2>4, <2>5, <2>6 DEF PluginInv, CountsOpenConnections
  <2> QED
    BY <2>3, <2>7, <2>8, <2>9 DEF Rest
<1> QED
  BY <1>1, <1>2

\* A callback begins: the worker of an open connection is idle.
LEMMA CallbackRest ==
  ASSUME PluginInv, NEW c \in Connection, Message(c) \/ Close(c)
  PROVE  Rest'
<1> DEFINE w == home[c]
<1>1. /\ thread[w] = "idle" /\ conn[c] = "open"
      /\ thread' = [thread EXCEPT ![w] = "onMessage"]
           \/ thread' = [thread EXCEPT ![w] = "onConnection"]
      /\ conn' = conn \/ conn' = [conn EXCEPT ![c] = "closed"]
      /\ serving' = [serving EXCEPT ![w] = {c}]
      /\ client' = client \/ client' = [client EXCEPT ![c] = IF @ = "none" THEN "live" ELSE @]
      /\ UNCHANGED <<posted, home, channels>>
  BY DEF Message, Close, OnRead, OnClose
<1>2. w \in Worker /\ w \in Thread /\ w = home[c]
  BY ServerFacts
<1> HIDE DEF w
<1>3. serving[w] = {}
  BY <1>1, <1>2 DEF PluginInv, ServesOne, InCallback
<1>4. /\ conn'[c] \in {"open", "closed"} /\ \A d \in Connection : d # c => conn'[d] = conn[d]
      /\ client[c] # "destroyed" /\ client'[c] # "destroyed"
      /\ \A d \in Connection : d # c => client'[d] = client[d]
  BY <1>1, ServerFacts DEF PluginInv, ClientsLast
<1>5. /\ serving'[w] = {c} /\ \A v \in Worker : v # w => serving'[v] = serving[v]
      /\ thread'[w] \in {"onMessage", "onConnection"}
      /\ \A v \in Worker : v # w => thread'[v] = thread[v]
  BY <1>1, <1>2, ServerFacts
<1>6. \A v \in Worker : \A d \in serving[v] : d # c /\ d \in Connection
  <2>1. \A v \in Worker : c \in serving[v] => v = w
    BY <1>2 DEF PluginInv, ServesOne
  <2> QED
    BY <1>3, <2>1, ServerFacts
<1>7. Queued'
  <2>1. \A v \in Worker : \A i \in 1 .. Len(posted[v]) :
          posted[v][i] \in Connection /\ posted[v][i] # c
    BY <1>1, ServerFacts DEF PluginInv, Queued
  <2> QED
    BY <1>1, <1>4, <2>1 DEF PluginInv, Queued
<1>8. ServesOne'
  <2> SUFFICES ASSUME NEW v \in Worker
               PROVE  /\ InCallback(v)' <=> serving'[v] # {}
                      /\ \A d \in serving'[v] : serving'[v] = {d} /\ home[d] = v
                                              /\ conn'[d] \in {"open", "closed"}
    BY <1>1 DEF ServesOne
  <2>1. CASE v = w
    BY <1>2, <1>4, <1>5, <2>1 DEF InCallback
  <2>2. CASE v # w
    BY <1>4, <1>5, <1>6, <2>2 DEF InCallback, PluginInv, ServesOne
  <2> QED
    BY <2>1, <2>2
<1>9. ClientsLast'
  BY <1>1, <1>4 DEF PluginInv, ClientsLast
<1>10. CountsOpenConnections'
  <2>1. c \in channels /\ c \in serving'[w]
    BY <1>1, <1>5 DEF PluginInv, CountsOpenConnections
  <2>2. \A d \in Connection : d # c =>
          \A v \in Worker : d \in serving'[v] <=> d \in serving[v]
    BY <1>3, <1>5
  <2> QED
    BY <1>1, <1>2, <1>4, <2>1, <2>2 DEF PluginInv, CountsOpenConnections
<1> QED
  BY <1>7, <1>8, <1>9, <1>10 DEF Rest

LEMMA ReturnRest ==
  ASSUME PluginInv, NEW w \in Worker, Return(w)
  PROVE  Rest'
<1>1. /\ InCallback(w) /\ thread' = [thread EXCEPT ![w] = "idle"]
      /\ channels' = channels \ Removed(w) /\ serving' = [serving EXCEPT ![w] = {}]
      /\ \A d \in Connection :
           client'[d] = IF d \in Removed(w) /\ client[d] = "live" THEN "destroyed" ELSE client[d]
      /\ UNCHANGED <<posted, conn, home>>
  BY DEF Return, CallbackReturns
<1>2. PICK c \in Connection : serving[w] = {c} /\ home[c] = w /\ conn[c] \in {"open", "closed"}
  BY <1>1, ServerFacts DEF PluginInv, ServesOne
<1>3. Removed(w) = IF conn[c] = "closed" THEN {c} ELSE {}
  BY <1>2 DEF Removed
<1>4. /\ serving'[w] = {} /\ \A v \in Worker : v # w => serving'[v] = serving[v]
      /\ thread'[w] = "idle" /\ \A v \in Worker : v # w => thread'[v] = thread[v]
  BY <1>1, ServerFacts
<1>5. Queued'
  BY <1>1 DEF PluginInv, Queued
<1>6. ServesOne'
  BY <1>1, <1>4 DEF PluginInv, ServesOne, InCallback
<1>7. ClientsLast'
  BY <1>1, <1>3 DEF PluginInv, ClientsLast
<1>8. CountsOpenConnections'
  <2>1. \A v \in Worker : v # w => c \notin serving[v]
    BY <1>2 DEF PluginInv, ServesOne
  <2> QED
    BY <1>1, <1>2, <1>3, <1>4, <2>1 DEF PluginInv, CountsOpenConnections
<1> QED
  BY <1>5, <1>6, <1>7, <1>8 DEF Rest

\* Steps that concern no channel.  Start makes every thread idle, from none.
LEMMA ElsewhereRest ==
  ASSUME PluginInv, Elsewhere
  PROVE  Rest'
<1>0. UNCHANGED <<channels, serving, client>>
  BY DEF Elsewhere, pluginVars
<1> USE <1>0
    DEF PluginInv, Rest, Queued, ServesOne, ClientsLast, CountsOpenConnections, InCallback
<1>1. CASE CreateSocket \/ Stop \/ CloseSocket \/ StartAccept
  BY <1>1 DEF CreateSocket, Stop, CloseSocket, StartAccept
<1>2. CASE Start
  <2>1. \A w \in Worker : thread[w] = "none" /\ thread'[w] = "idle"
    BY <1>2, Threads DEF Start, Inv, NotStarted
  <2> QED
    BY <1>2, <2>1 DEF Start
<1>3. ASSUME NEW c \in Connection, Connect(c) PROVE Rest'
  <2>1. /\ conn[c] = "away" /\ conn' = [conn EXCEPT ![c] = "waiting"]
        /\ UNCHANGED <<thread, posted, home>>
    BY <1>3 DEF Connect
  <2>2. conn'[c] = "waiting" /\ \A d \in Connection : d # c => conn'[d] = conn[d]
    BY <2>1, ServerFacts
  <2>3. \A v \in Worker : \A i \in 1 .. Len(posted[v]) :
          posted[v][i] \in Connection /\ posted[v][i] # c
    BY <2>1, ServerFacts
  <2>4. ASSUME NEW v \in Worker, NEW d \in serving[v] PROVE d \in Connection /\ d # c
    <3>1. conn[d] \in {"open", "closed"}
      OBVIOUS
    <3> QED
      BY <2>1, <3>1, ServerFacts
  <2> QED
    BY <2>1, <2>2, <2>3, <2>4
<1>4. ASSUME NEW w \in Worker, CallbackThrows(w) PROVE Rest'
  BY <1>4 DEF CallbackThrows, serverVars
<1>5. ASSUME NEW t \in Thread, StopLoop(t) PROVE Rest'
  BY <1>5 DEF StopLoop, HaltLoop, NullLoop
<1>6. ASSUME NEW t \in Thread, LoopEnds(t) PROVE Rest'
  <2>1. /\ thread[t] = "idle" /\ thread' = [thread EXCEPT ![t] = "stopped"]
        /\ UNCHANGED <<conn, posted, home>>
    BY <1>6 DEF LoopEnds
  <2>2. \A v \in Worker : thread'[v] = thread[v] \/ (thread[v] = "idle" /\ thread'[v] = "stopped")
    BY <2>1, ServerFacts
  <2> QED
    BY <2>1, <2>2
<1>7. ASSUME NEW c \in Connection, OnAccept(c) PROVE Rest'
  <2> DEFINE w == NextLoop
  <2>1. w \in Worker
    BY NextLoopIsWorker DEF Inv, TypeOK, ServerTypeOK
  <2>2. /\ conn[c] = "waiting" /\ home' = [home EXCEPT ![c] = w] /\ thread' = thread
        /\ \/ conn' = [conn EXCEPT ![c] = "lost"] /\ posted' = posted
           \/ /\ conn' = [conn EXCEPT ![c] = "posted"]
              /\ posted' = [posted EXCEPT ![w] = Append(@, c)]
    BY <1>7 DEF OnAccept
  <2> HIDE DEF w
  <2>3. /\ home'[c] = w /\ conn'[c] \in {"lost", "posted"}
        /\ \A d \in Connection : d # c => conn'[d] = conn[d] /\ home'[d] = home[d]
    BY <2>2, ServerFacts
  <2>4. \A v \in Worker : \A i \in 1 .. Len(posted[v]) :
          posted[v][i] \in Connection /\ posted[v][i] # c
    BY <2>2, ServerFacts
  <2>5. \A v \in Worker : \A d \in serving[v] : d \in Connection /\ d # c
    BY <2>2, ServerFacts
  <2>6. Queued'
    <3>1. CASE posted' = posted
      BY <2>3, <2>4, <3>1
    <3>2. CASE posted' = [posted EXCEPT ![w] = Append(@, c)] /\ conn'[c] = "posted"
      <4>1. /\ posted[w] \in Seq(Connection) /\ posted'[w] = Append(posted[w], c)
            /\ \A v \in Worker : v # w => posted'[v] = posted[v]
        BY <2>1, <3>2, ServerFacts
      <4>2. /\ Len(posted'[w]) = Len(posted[w]) + 1 /\ Len(posted[w]) \in Nat
            /\ posted'[w][Len(posted[w]) + 1] = c
            /\ \A i \in 1 .. Len(posted[w]) : posted'[w][i] = posted[w][i]
        BY <4>1
      <4>3. \A i \in 1 .. Len(posted'[w]) :
              i \in 1 .. Len(posted[w]) \/ i = Len(posted[w]) + 1
        BY <4>2
      <4> SUFFICES ASSUME NEW v \in Worker, NEW i \in 1 .. Len(posted'[v])
                   PROVE  /\ conn'[posted'[v][i]] = "posted" /\ home'[posted'[v][i]] = v
                          /\ \A j \in 1 .. Len(posted'[v]) :
                               posted'[v][i] = posted'[v][j] => i = j
        OBVIOUS
      <4>4. CASE v = w
        BY <2>3, <2>4, <3>2, <4>2, <4>3, <4>4
      <4>5. CASE v # w
        BY <2>3, <2>4, <4>1, <4>5
      <4> QED
        BY <4>4, <4>5
    <3> QED
      BY <2>2, <3>1, <3>2, ServerFacts
  <2>7. ServesOne'
    BY <2>2, <2>3, <2>5
  <2>8. ClientsLast' /\ CountsOpenConnections'
    BY <2>2, <2>3, <2>5
  <2> QED
    BY <2>6, <2>7, <2>8
<1> QED
  BY <1>1, <1>2, <1>3, <1>4, <1>5, <1>6, <1>7 DEF Elsewhere

LEMMA PluginNextInv == PluginInv /\ [PluginNext]_<<tcpVars, pluginVars>> => PluginInv'
<1> SUFFICES ASSUME PluginInv, [PluginNext]_<<tcpVars, pluginVars>> PROVE PluginInv'
  OBVIOUS
<1>1. CASE PluginNext
  <2>1. Rest'
    <3>1. ASSUME NEW w \in Worker, CheckLimit(w) PROVE Rest'
      BY <3>1 DEF CheckLimit, tcpVars, serverVars, PluginInv, Rest, Queued, ServesOne,
                  ClientsLast, CountsOpenConnections, InCallback
    <3> QED
      BY <1>1, <3>1, RefuseRest, NewConnectionRest, ReturnRest, CallbackRest, ElsewhereRest
      DEF PluginNext
  <2> QED
    BY <1>1, <2>1, ServerInv, PluginTypes, CountedStep DEF PluginInv, Rest
<1>2. CASE UNCHANGED <<tcpVars, pluginVars>>
  <2>1. Inv'
    BY <1>2, NextInv DEF PluginInv
  <2>2. PluginTypeOK'
    BY <1>2, <2>1 DEF pluginVars, PluginInv, PluginTypeOK, Inv
  <2> QED
    BY <1>2, <2>1, <2>2
    DEF tcpVars, serverVars, pluginVars, PluginInv, Counted, Queued, ServesOne, ClientsLast,
        CountsOpenConnections, InCallback
<1> QED
  BY <1>1, <1>2

\* PluginInv always holds.
THEOREM PluginInvHolds == PluginSpec => []PluginInv
BY PluginInitInv, PluginNextInv, PTL DEF PluginSpec

\* The limit of connections is passed by less than the number of workers
\* (TcpServer.h:179).
THEOREM LimitHoldsButForWorkers == PluginSpec => []LimitOverrun
<1>1. PluginInv => LimitOverrun
  <2> SUFFICES ASSUME PluginInv PROVE LimitOverrun
    OBVIOUS
  <2>1. Cardinality(passed) \in Nat
    BY FewerThanWorkers DEF PluginInv, PluginTypeOK
  <2>2. Cardinality(channels) \in Nat
    BY FS_CardinalityType DEF PluginInv, Counted
  <2> QED
    BY <2>1, <2>2 DEF PluginInv, Counted, LimitOverrun
<1> QED
  BY <1>1, PluginInvHolds, PTL

\* The map of channels holds the connections that are open and those whose last
\* callback runs (TcpServer.h:211).
THEOREM ChannelsAreConnections == PluginSpec => []CountsOpenConnections
<1>1. PluginInv => CountsOpenConnections
  BY DEF PluginInv
<1> QED
  BY <1>1, PluginInvHolds, PTL

-----------------------------------------------------------------------------
(* The server under the plugin *)

\* A step of the plugin is one of the server, or the refusal of a connection, which is
\* more than TcpServerCalls allows.
LEMMA PluginSteps ==
  ASSUME [PluginNext]_<<tcpVars, pluginVars>>
  PROVE  [Next]_tcpVars \/ \E w \in Worker : Refuse(w)
<1>1. CASE PluginNext
  BY <1>1 DEF PluginNext, CheckLimit, NewConnection, Return, Message, Close, Elsewhere,
              Next, ServerThreads
<1> QED
  BY <1>1

\* What a refusal changes.
LEMMA RefuseFacts ==
  ASSUME PluginInv, NEW w \in Worker, Refuse(w)
  PROVE  /\ UNCHANGED <<loop, thread, next, home, fate>>
         /\ \A c \in Connection :
              conn'[c] \in {"away", "waiting"} <=> conn[c] \in {"away", "waiting"}
<1>1. /\ posted[w] # <<>> /\ conn' = [conn EXCEPT ![Head(posted[w])] = "closed"]
      /\ UNCHANGED <<loop, thread, next, home, fate>>
  BY DEF Refuse, TakesOver
<1>2. Head(posted[w]) \in Connection /\ conn[Head(posted[w])] = "posted"
  BY <1>1, NextPosted
<1> QED
  BY <1>1, <1>2 DEF PluginInv, Inv, TypeOK, ServerTypeOK

\* A connection that was accepted is announced, refused by its worker for the limit,
\* or still in its worker's queue; and only stop() ends a worker that has a queue
\* (TcpServer.h:179 and :285).
THEOREM PluginDropsOnlyByStop == PluginSpec => []DroppedOnlyByStop
<1>1. PluginInit => AllInQueue /\ StopsIfTold
  BY PostedInit DEF PluginInit
<1>2. PluginInv /\ AllInQueue /\ StopsIfTold /\ [PluginNext]_<<tcpVars, pluginVars>>
        => (AllInQueue /\ StopsIfTold)'
  <2> SUFFICES ASSUME PluginInv, AllInQueue, StopsIfTold,
                      [PluginNext]_<<tcpVars, pluginVars>>
               PROVE  AllInQueue' /\ StopsIfTold'
    OBVIOUS
  <2>1. CASE [Next]_tcpVars
    BY <2>1, AllInQueueStep, StopsIfToldStep DEF PluginInv
  <2>2. ASSUME NEW w \in Worker, Refuse(w) PROVE AllInQueue' /\ StopsIfTold'
    <3>1. /\ posted[w] # <<>> /\ posted' = [posted EXCEPT ![w] = Tail(@)]
          /\ home' = home /\ conn' = [conn EXCEPT ![Head(posted[w])] = "closed"]
          /\ UNCHANGED <<loop, thread, stopping>>
      BY <2>2 DEF Refuse, TakesOver
    <3>2. AllInQueue'
      BY <3>1, HeadTaken DEF PluginInv
    <3>3. StopsIfTold'
      BY <3>1 DEF StopsIfTold
    <3> QED
      BY <3>2, <3>3
  <2> QED
    BY <2>1, <2>2, PluginSteps
<1>3. PluginInv /\ AllInQueue /\ StopsIfTold => DroppedOnlyByStop
  BY OnlyStopDrops DEF PluginInv
<1> QED
  BY <1>1, <1>2, <1>3, PluginInvHolds, PTL DEF PluginSpec

\* A connection that is refused counts for its worker as the others do: the load is
\* that of round robin (EventLoopThreadPool.h:36).
THEOREM PluginLoadIsEven == PluginSpec => []LoadIsEven
<1>1. PluginInit => Shares
  BY SharesInit DEF PluginInit
<1>2. PluginInv /\ Shares /\ [PluginNext]_<<tcpVars, pluginVars>> => Shares'
  <2> SUFFICES ASSUME PluginInv, Shares, [PluginNext]_<<tcpVars, pluginVars>> PROVE Shares'
    OBVIOUS
  <2>1. CASE [Next]_tcpVars
    <3>1. PostedAccepted
      BY DEF PluginInv, Queued, PostedAccepted
    <3> QED
      BY <2>1, <3>1, SharesStep DEF PluginInv
  <2>2. CASE \E w \in Worker : Refuse(w)
    BY <2>2, RefuseFacts, SharesSame
  <2> QED
    BY <2>1, <2>2, PluginSteps
<1> QED
  BY <1>1, <1>2, SharesAreEven, PluginInvHolds, PTL DEF PluginSpec

\* And no thread is in a callback of the plugin but between start() and the return of
\* stop().
THEOREM PluginImplementsCallbackServer == PluginSpec => CallsBackOnlyUntilStopped
<1>1. PluginInit => Server!Init
  BY AbstractInit DEF PluginInit
<1>2. PluginInv /\ [PluginNext]_<<tcpVars, pluginVars>> => [Server!Next]_(Server!vars)
  <2> SUFFICES ASSUME PluginInv, [PluginNext]_<<tcpVars, pluginVars>>
               PROVE  [Server!Next]_(Server!vars)
    OBVIOUS
  <2>1. CASE [Next]_tcpVars
    BY <2>1, AbstractStep DEF PluginInv
  <2>2. CASE \E w \in Worker : Refuse(w)
    <3>1. UNCHANGED <<loop, thread, fate>>
      BY <2>2, RefuseFacts
    <3> QED
      BY <3>1 DEF Server!vars, Phase, Inside, InCallback, StopReturns, Runs
  <2> QED
    BY <2>1, <2>2, PluginSteps
<1>3. PluginSpec => Server!Init /\ [][Server!Next]_(Server!vars)
  BY <1>1, <1>2, PluginInvHolds, PTL DEF PluginSpec
<1> QED
  BY <1>3, PTL DEF CallsBackOnlyUntilStopped, Server!Spec

-----------------------------------------------------------------------------
(* Refinement *)

\* A connection whose callback, if it is in one, goes on.
LEMMA CallingSame ==
  ASSUME NEW c \in Connection, conn'[c] = conn[c],
         \A w \in Worker : c \in serving'[w] <=> c \in serving[w],
         \A w \in Worker : c \in serving[w] => thread'[home'[c]] = thread[home[c]]
  PROVE  Calling'[c] = Calling[c]
BY DEF Calling

\* A step that changes the stage, the callback or the client of one connection.
LEMMA OneChanges ==
  ASSUME NEW c \in Connection,
         \A d \in Connection : d # c => Stage'[d] = Stage[d] /\ Calling'[d] = Calling[d]
  PROVE  /\ Stage' = [Stage EXCEPT ![c] = Stage'[c]]
         /\ Calling' = [Calling EXCEPT ![c] = Calling'[c]]
         /\ Stage'[c] = Stage[c] => Stage' = Stage
         /\ Calling'[c] = Calling[c] => Calling' = Calling
<1>1. /\ Stage' = [d \in Connection |-> Stage'[d]] /\ Stage = [d \in Connection |-> Stage[d]]
      /\ Calling' = [d \in Connection |-> Calling'[d]]
      /\ Calling = [d \in Connection |-> Calling[d]]
  BY DEF Stage, Calling
<1> QED
  BY <1>1

LEMMA LifeInit == PluginInit => Life!Init
<1> SUFFICES ASSUME PluginInit PROVE Life!Init
  OBVIOUS
<1>1. \A c \in Connection : conn[c] = "away" /\ client[c] = "none"
  BY DEF PluginInit, Init, ServerInit
<1>2. \A w \in Worker : serving[w] = {}
  BY DEF PluginInit
<1>3. client = [c \in Connection |-> "none"]
  BY DEF PluginInit
<1> QED
  BY <1>1, <1>2, <1>3 DEF Life!Init, Stage, Calling

LEMMA RefuseLife ==
  ASSUME PluginInv, NEW w \in Worker, Refuse(w)
  PROVE  Life!Next
<1> DEFINE c == Head(posted[w])
<1>1. /\ posted[w] # <<>> /\ conn' = [conn EXCEPT ![c] = "closed"]
      /\ UNCHANGED <<home, thread, serving, client>>
  BY DEF Refuse, TakesOver, pluginVars
<1>2. /\ c \in Connection /\ conn[c] = "posted" /\ \A v \in Worker : c \notin serving[v]
  BY <1>1, NextPosted
<1>3. conn'[c] = "closed" /\ \A d \in Connection : d # c => conn'[d] = conn[d]
  BY <1>1, <1>2, ServerFacts
<1> HIDE DEF c
<1>4. \A d \in Connection : d # c => Stage'[d] = Stage[d] /\ Calling'[d] = Calling[d]
  BY <1>1, <1>3, CallingSame DEF Stage
<1>5. Stage[c] = "new" /\ Stage'[c] = "closed" /\ Calling'[c] = Calling[c]
  BY <1>1, <1>2, <1>3 DEF Stage, Calling
<1>6. Stage' = [Stage EXCEPT ![c] = "closed"] /\ Calling' = Calling
  BY <1>2, <1>4, <1>5, OneChanges
<1> QED
  BY <1>1, <1>2, <1>5, <1>6 DEF Life!Next, Life!Refused

LEMMA NewConnectionLife ==
  ASSUME PluginInv, NEW w \in Worker, NewConnection(w)
  PROVE  Life!Next \/ UNCHANGED Life!vars
<1>1. CASE loop[w] = "null"
  <2>1. UNCHANGED <<thread, conn, home, serving, client>>
    BY <1>1 DEF NewConnection, NewConnEvent
  <2> QED
    BY <2>1 DEF Life!vars, Stage, Calling
<1>2. CASE loop[w] # "null"
  <2> DEFINE c == Head(posted[w])
  <2>1. /\ posted[w] # <<>> /\ conn' = [conn EXCEPT ![c] = "open"]
        /\ thread[w] = "idle" /\ thread' = [thread EXCEPT ![w] = "onConnection"]
        /\ serving' = [serving EXCEPT ![w] = {c}]
        /\ UNCHANGED <<home, client>>
    BY <1>2 DEF NewConnection, NewConnEvent
  <2>2. /\ c \in Connection /\ conn[c] = "posted" /\ home[c] = w
        /\ \A v \in Worker : c \notin serving[v]
    BY <2>1, NextPosted
  <2>3. conn'[c] = "open" /\ \A d \in Connection : d # c => conn'[d] = conn[d]
    BY <2>1, <2>2, ServerFacts
  <2>4. /\ serving'[w] = {c} /\ \A v \in Worker : v # w => serving'[v] = serving[v]
        /\ thread'[w] = "onConnection" /\ \A v \in Worker : v # w => thread'[v] = thread[v]
    BY <2>1, ServerFacts
  <2>5. serving[w] = {} /\ \A v \in Worker : \A d \in serving[v] : home[d] = v
    BY <2>1 DEF PluginInv, ServesOne, InCallback
  <2> HIDE DEF c
  <2>6. ASSUME NEW d \in Connection, d # c
        PROVE  Stage'[d] = Stage[d] /\ Calling'[d] = Calling[d]
    <3>1. \A v \in Worker : d \in serving'[v] <=> d \in serving[v]
      BY <2>4, <2>5, <2>6
    <3>2. \A v \in Worker : d \in serving[v] => thread'[home'[d]] = thread[home[d]]
      BY <2>1, <2>4, <2>5
    <3> QED
      BY <2>3, <2>6, <3>1, <3>2, CallingSame DEF Stage
  <2>7. Stage[c] = "new" /\ Stage'[c] = "open" /\ Calling[c] = "none"
        /\ Calling'[c] = "connected"
    BY <2>1, <2>2, <2>3, <2>4 DEF Stage, Calling
  <2>8. Stage' = [Stage EXCEPT ![c] = "open"] /\ Calling' = [Calling EXCEPT ![c] = "connected"]
    BY <2>2, <2>6, <2>7, OneChanges
  <2> QED
    BY <2>1, <2>2, <2>7, <2>8 DEF Life!Next, Life!Connected, Life!Enter
<1> QED
  BY <1>1, <1>2

LEMMA CallbackLife ==
  ASSUME PluginInv, NEW c \in Connection, Message(c) \/ Close(c)
  PROVE  Life!Next
<1> DEFINE w == home[c]
<1>1. /\ thread[w] = "idle" /\ conn[c] = "open" /\ serving' = [serving EXCEPT ![w] = {c}]
      /\ home' = home
  BY DEF Message, Close, OnRead, OnClose
<1>2. \/ /\ thread' = [thread EXCEPT ![w] = "onMessage"] /\ conn' = conn
         /\ client' = [client EXCEPT ![c] = IF @ = "none" THEN "live" ELSE @]
      \/ /\ thread' = [thread EXCEPT ![w] = "onConnection"] /\ client' = client
         /\ conn' = [conn EXCEPT ![c] = "closed"]
  BY DEF Message, Close, OnRead, OnClose
<1>3. w \in Worker /\ w \in Thread /\ w = home[c]
  BY ServerFacts
<1> HIDE DEF w
<1>4. serving[w] = {} /\ \A v \in Worker : \A d \in serving[v] : home[d] = v
  BY <1>1, <1>3 DEF PluginInv, ServesOne, InCallback
<1>5. /\ serving'[w] = {c} /\ \A v \in Worker : v # w => serving'[v] = serving[v]
      /\ \A v \in Worker : v # w => thread'[v] = thread[v]
      /\ \A d \in Connection : d # c => conn'[d] = conn[d]
  BY <1>1, <1>2, <1>3, ServerFacts
<1>6. ASSUME NEW d \in Connection, d # c
      PROVE  Stage'[d] = Stage[d] /\ Calling'[d] = Calling[d]
  <2>1. \A v \in Worker : d \in serving'[v] <=> d \in serving[v]
    BY <1>4, <1>5, <1>6
  <2>2. \A v \in Worker : d \in serving[v] => thread'[home'[d]] = thread[home[d]]
    BY <1>1, <1>4, <1>5
  <2> QED
    BY <1>5, <1>6, <2>1, <2>2, CallingSame DEF Stage
<1>7. Stage[c] = "open" /\ Calling[c] = "none"
  <2>1. \A v \in Worker : c \notin serving[v]
    BY <1>3, <1>4
  <2> QED
    BY <1>1, <2>1 DEF Stage, Calling
<1>8. CASE conn' = conn /\ thread' = [thread EXCEPT ![w] = "onMessage"]
           /\ client' = [client EXCEPT ![c] = IF @ = "none" THEN "live" ELSE @]
  <2>1. thread'[w] = "onMessage" /\ conn'[c] = "open"
    BY <1>1, <1>3, <1>8, ServerFacts
  <2>2. Stage'[c] = "open" /\ Calling'[c] = "message"
    BY <1>1, <1>3, <1>5, <2>1 DEF Stage, Calling
  <2>3. Stage' = Stage /\ Calling' = [Calling EXCEPT ![c] = "message"]
    BY <1>6, <1>7, <2>2, OneChanges
  <2>4. client' = [client EXCEPT ![c] = "live"]
    <3>1. client[c] \in {"none", "live"}
      BY <1>1, ServerFacts DEF PluginInv, ClientsLast
    <3> QED
      BY <1>8, <3>1, ServerFacts
  <2> QED
    BY <1>7, <2>3, <2>4 DEF Life!Next, Life!Message, Life!Enter
<1>9. CASE conn' = [conn EXCEPT ![c] = "closed"] /\ client' = client
  <2>1. conn'[c] = "closed"
    BY <1>9, ServerFacts
  <2>2. Stage'[c] = "closed" /\ Calling'[c] = "closed"
    BY <1>3, <1>5, <2>1 DEF Stage, Calling
  <2>3. Stage' = [Stage EXCEPT ![c] = "closed"] /\ Calling' = [Calling EXCEPT ![c] = "closed"]
    BY <1>6, <2>2, OneChanges
  <2> QED
    BY <1>7, <1>9, <2>3 DEF Life!Next, Life!Closed, Life!Enter
<1> QED
  BY <1>2, <1>8, <1>9

LEMMA ReturnLife ==
  ASSUME PluginInv, NEW w \in Worker, Return(w)
  PROVE  Life!Next
<1>1. /\ InCallback(w) /\ thread' = [thread EXCEPT ![w] = "idle"]
      /\ serving' = [serving EXCEPT ![w] = {}]
      /\ client' = [d \in Connection |->
           IF d \in Removed(w) /\ client[d] = "live" THEN "destroyed" ELSE client[d]]
      /\ UNCHANGED <<conn, home>>
  BY DEF Return, CallbackReturns
<1>2. PICK c \in Connection : serving[w] = {c} /\ home[c] = w /\ conn[c] \in {"open", "closed"}
  BY <1>1, ServerFacts DEF PluginInv, ServesOne
<1>3. Removed(w) = IF conn[c] = "closed" THEN {c} ELSE {}
  BY <1>2 DEF Removed
<1>4. /\ serving'[w] = {} /\ \A v \in Worker : v # w => serving'[v] = serving[v]
      /\ \A v \in Worker : v # w => thread'[v] = thread[v]
  BY <1>1, ServerFacts
<1>5. \A v \in Worker : \A d \in serving[v] : home[d] = v
  BY DEF PluginInv, ServesOne
<1>6. ASSUME NEW d \in Connection, d # c
      PROVE  Stage'[d] = Stage[d] /\ Calling'[d] = Calling[d]
  <2>1. \A v \in Worker : d \in serving'[v] <=> d \in serving[v]
    BY <1>2, <1>4, <1>6
  <2>2. \A v \in Worker : d \in serving[v] => thread'[home'[d]] = thread[home[d]]
    BY <1>1, <1>2, <1>4, <1>5, <1>6
  <2> QED
    BY <1>1, <2>1, <2>2, CallingSame DEF Stage
<1>7. Calling'[c] = "none" /\ Stage'[c] = Stage[c] /\ Calling[c] # "none"
      /\ (Calling[c] = "closed" <=> conn[c] = "closed")
  <2>1. \A v \in Worker : c \notin serving'[v]
    BY <1>2, <1>4, <1>5
  <2> QED
    BY <1>1, <1>2, <2>1 DEF Stage, Calling
<1>8. Stage' = Stage /\ Calling' = [Calling EXCEPT ![c] = "none"]
  BY <1>6, <1>7, OneChanges
<1>9. client' = IF Calling[c] = "closed" /\ client[c] = "live"
                  THEN [client EXCEPT ![c] = "destroyed"] ELSE client
  BY <1>1, <1>3, <1>7, ServerFacts
<1> QED
  BY <1>2, <1>7, <1>8, <1>9 DEF Life!Next, Life!Return

\* The remaining steps do not show: they change states of a connection before it is
\* open, and threads that are in no callback.
LEMMA ElsewhereLife ==
  ASSUME PluginInv, Elsewhere
  PROVE  UNCHANGED Life!vars
<1>0. UNCHANGED <<channels, serving, client>>
  BY DEF Elsewhere, pluginVars
<1>1. ASSUME \A d \in Connection : Stage'[d] = Stage[d] /\ Calling'[d] = Calling[d]
      PROVE  UNCHANGED Life!vars
  <2>1. /\ Stage' = [d \in Connection |-> Stage'[d]] /\ Stage = [d \in Connection |-> Stage[d]]
        /\ Calling' = [d \in Connection |-> Calling'[d]]
        /\ Calling = [d \in Connection |-> Calling[d]]
    BY DEF Stage, Calling
  <2> QED
    BY <1>0, <1>1, <2>1 DEF Life!vars
<1>2. ASSUME UNCHANGED <<thread, conn, home>> PROVE UNCHANGED Life!vars
  BY <1>0, <1>2 DEF Life!vars, Stage, Calling
<1>3. \A v \in Worker : \A d \in serving[v] :
        home[d] = v /\ conn[d] \in {"open", "closed"} /\ InCallback(v)
  BY DEF PluginInv, ServesOne
<1>4. ASSUME NEW t \in Thread, LoopEnds(t) PROVE UNCHANGED Life!vars
  <2>1. /\ thread[t] = "idle" /\ thread' = [thread EXCEPT ![t] = "stopped"]
        /\ UNCHANGED <<conn, home>>
    BY <1>4 DEF LoopEnds
  <2>2. \A v \in Worker : InCallback(v) => thread'[v] = thread[v]
    BY <2>1, ServerFacts DEF InCallback
  <2>3. \A d \in Connection : Stage'[d] = Stage[d] /\ Calling'[d] = Calling[d]
    BY <1>0, <1>3, <2>1, <2>2, CallingSame DEF Stage
  <2> QED
    BY <1>1, <2>3
<1>5. ASSUME NEW c \in Connection, Connect(c) \/ OnAccept(c) PROVE UNCHANGED Life!vars
  <2>1. /\ conn[c] \in {"away", "waiting"} /\ thread' = thread
        /\ \E s \in {"waiting", "posted", "lost"} : conn' = [conn EXCEPT ![c] = s]
        /\ home' = home \/ home' = [home EXCEPT ![c] = NextLoop]
    BY <1>5 DEF Connect, OnAccept
  <2>2. /\ conn'[c] \in {"waiting", "posted", "lost"}
        /\ \A d \in Connection : d # c => conn'[d] = conn[d] /\ home'[d] = home[d]
    BY <2>1, ServerFacts
  <2>3. \A v \in Worker : c \notin serving[v]
    BY <1>3, <2>1
  <2>4. Stage'[c] = Stage[c] /\ Calling'[c] = Calling[c]
    BY <1>0, <2>1, <2>2, <2>3 DEF Stage, Calling
  <2>5. \A d \in Connection : d # c => Stage'[d] = Stage[d] /\ Calling'[d] = Calling[d]
    BY <1>0, <2>1, <2>2, CallingSame DEF Stage
  <2> QED
    BY <1>1, <2>4, <2>5
<1>6. CASE Start
  <2>1. \A v \in Worker : serving[v] = {}
    BY <1>6, Threads DEF Start, PluginInv, Inv, NotStarted, ServesOne, InCallback
  <2>2. conn' = conn
    BY <1>6 DEF Start
  <2>3. \A d \in Connection : Stage'[d] = Stage[d] /\ Calling'[d] = Calling[d]
    BY <1>0, <2>1, <2>2 DEF Stage, Calling
  <2> QED
    BY <1>1, <2>3
<1>7. CASE CreateSocket \/ Stop \/ CloseSocket \/ StartAccept
  BY <1>2, <1>7 DEF CreateSocket, Stop, CloseSocket, StartAccept
<1>8. ASSUME NEW t \in Thread, StopLoop(t) PROVE UNCHANGED Life!vars
  BY <1>2, <1>8 DEF StopLoop, HaltLoop, NullLoop
<1>9. ASSUME NEW w \in Worker, CallbackThrows(w) PROVE UNCHANGED Life!vars
  BY <1>2, <1>9 DEF CallbackThrows, serverVars
<1> QED
  BY <1>4, <1>5, <1>6, <1>7, <1>8, <1>9 DEF Elsewhere

LEMMA LifeStep ==
  PluginInv /\ [PluginNext]_<<tcpVars, pluginVars>> => [Life!Next]_(Life!vars)
<1> SUFFICES ASSUME PluginInv, [PluginNext]_<<tcpVars, pluginVars>>
             PROVE  Life!Next \/ UNCHANGED Life!vars
  OBVIOUS
<1>1. ASSUME UNCHANGED tcpVars, UNCHANGED <<serving, client>> PROVE UNCHANGED Life!vars
  BY <1>1 DEF tcpVars, serverVars, Life!vars, Stage, Calling
<1>2. ASSUME NEW w \in Worker, CheckLimit(w) PROVE UNCHANGED Life!vars
  BY <1>1, <1>2 DEF CheckLimit
<1>3. CASE PluginNext
  BY <1>2, <1>3, RefuseLife, NewConnectionLife, ReturnLife, CallbackLife, ElsewhereLife
  DEF PluginNext
<1>4. CASE UNCHANGED <<tcpVars, pluginVars>>
  BY <1>1, <1>4 DEF pluginVars
<1> QED
  BY <1>3, <1>4

\* The callbacks of a connection come one at a time and in order, and its RTMPClient
\* lives from its first message until its last callback has returned
\* (TcpServer.h:203, PluginRTMP.cpp:34): PluginRTMP implements ConnectionLife.
THEOREM PluginImplementsConnectionLife == PluginSpec => CallbacksInOrder
<1>1. PluginSpec => Life!Init
  BY LifeInit DEF PluginSpec
<1>2. PluginInv /\ [PluginNext]_<<tcpVars, pluginVars>> => [Life!Next]_(Life!vars)
  BY LifeStep
<1>3. PluginSpec => [][Life!Next]_(Life!vars)
  BY <1>2, PluginInvHolds, PTL DEF PluginSpec
<1> QED
  BY <1>1, <1>3, PTL DEF CallbacksInOrder, Life!Spec
=============================================================================
