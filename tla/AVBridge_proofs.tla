--------------------------- MODULE AVBridge_proofs ---------------------------
(***************************************************************************)
(* The safety of AVBridge, for any routes, threads and connections.         *)
(***************************************************************************)
EXTENDS AVBridge, FiniteSetTheorems, TLAPS

USE ThreadNumAssumption, PluginFileAssumption

\* Where main is before the plugin is loaded, while it may be held, and once the
\* TCP server has stopped.
Before == {"serveHttp", "load"}
Holding == {"addRoutes", "serveTcp", "startTcp", "getchar", "eof", "stopHttp", "stopTcp",
            "unload"}
TcpDown == {"unload", "members", "ended"}

\* The part of TypeOK that the argument needs.
Types ==
  /\ main \in Places
  /\ http \in {"none", "idle", "onRequest", "stopped"}
  /\ loop \in [Thread -> {"none", "running", "halted", "null"}]
  /\ thread \in [Thread -> {"none", "idle", "onConnection", "onMessage", "stopped"}]
  /\ next \in Worker
  /\ home \in [Connection -> Worker]

\* The library is open once, for the one entry of the manager, until the manager
\* is deleted, and not open after that.
PluginHeld ==
  /\ main \in Before =>
       /\ opened = [f \in File |-> 0] /\ plugin = {}
       /\ DOMAIN plugins = {} /\ DOMAIN objects = {}
  /\ main \in Holding /\ plugin # {} =>
       /\ opened[PluginFile] = 1 /\ plugin \subseteq DOMAIN objects
       /\ \E name : DOMAIN plugins = {name} /\ plugins[name].pluginHandle = PluginFile
  /\ main = "members" /\ plugin # {} => opened[PluginFile] = 0

\* Routes and a TCP server come from a plugin.
OnlyWithPlugin ==
  /\ plugin = {} =>
       /\ todo = {} /\ adding = {} /\ router = {}
       /\ http # "onRequest" /\ loop[Acceptor] = "none"
  /\ main \in {"addRoutes", "serveTcp", "startTcp"} => plugin # {}

\* Each server has stopped when main is past it, and serves nothing before main starts it.
StoppedInTime ==
  /\ main \in TcpDown \cup {"serveHttp", "stopTcp"} => http \in {"none", "stopped"}
  /\ main \in TcpDown => \A t \in Thread : thread[t] \in {"none", "stopped"}
  /\ loop[Acceptor] = "none" => \A t \in Thread : thread[t] = "none"

\* While Run adds the plugin's routes there is no TCP server yet.
TcpLast ==
  /\ main \in {"serveHttp", "load", "addRoutes", "serveTcp"} => loop[Acceptor] = "none"
  /\ main \in {"serveHttp", "load"} => adding = {}
  /\ adding # {} => main = "addRoutes"

Inv ==
  /\ Types
  /\ PluginHeld
  /\ OnlyWithPlugin
  /\ StoppedInTime
  /\ ExitsOnlyWithoutRoutes
  /\ TcpLast
  /\ RacesOnlyBeforeTcp

LEMMA Threads ==
  /\ Acceptor \in Thread /\ Acceptor \notin Worker
  /\ Thread = Worker \cup {Acceptor}
  /\ 0 \in Worker
BY DEF Acceptor, Thread, Worker

LEMMA InvLoaded == Inv => PluginCodeLoaded
<1> SUFFICES ASSUME Inv,
                    http = "onRequest" \/ \E w \in Worker : InCallback(w)
             PROVE  /\ opened[PluginFile] > 0
                    /\ plugin # {} /\ plugin \subseteq DOMAIN objects
  BY DEF PluginCodeLoaded
<1>1. plugin # {}
  BY Threads DEF Inv, OnlyWithPlugin, StoppedInTime, InCallback
<1>2. main \in Holding
  BY <1>1, Threads
  DEF Inv, Types, Places, PluginHeld, StoppedInTime, InCallback, Before, Holding, TcpDown
<1> QED
  BY <1>1, <1>2 DEF Inv, PluginHeld

-----------------------------------------------------------------------------
LEMMA InitInv == Init => Inv
<1> SUFFICES ASSUME Init PROVE Inv
  OBVIOUS
<1> USE Threads DEF Init, ServerInit, ManagerInit
<1>1. Types
  BY DEF Types, Places
<1>2. PluginHeld /\ OnlyWithPlugin /\ StoppedInTime
  BY DEF PluginHeld, OnlyWithPlugin, StoppedInTime, Before, Holding, TcpDown
<1>3. ExitsOnlyWithoutRoutes /\ RacesOnlyBeforeTcp /\ TcpLast
  BY DEF ExitsOnlyWithoutRoutes, RacesOnlyBeforeTcp, TcpLast
<1> QED
  BY <1>1, <1>2, <1>3 DEF Inv

\* What the threads of the TCP server leave alone.
LEMMA ServerThreadsSteps ==
  ASSUME Types, ServerThreads
  PROVE  /\ Runs /\ loop' = loop
         /\ thread' \in [Thread -> {"none", "idle", "onConnection", "onMessage", "stopped"}]
         /\ \A t \in Thread : thread[t] \in {"none", "stopped"} => thread'[t] = thread[t]
         /\ next' \in Worker /\ home' \in [Connection -> Worker]
         /\ fate' \notin {"exited", "raced"}
<1> DEFINE Goal ==
       /\ Runs /\ loop' = loop
       /\ thread' \in [Thread -> {"none", "idle", "onConnection", "onMessage", "stopped"}]
       /\ \A t \in Thread : thread[t] \in {"none", "stopped"} => thread'[t] = thread[t]
       /\ next' \in Worker /\ home' \in [Connection -> Worker]
       /\ fate' \notin {"exited", "raced"}
<1> SUFFICES Goal
  OBVIOUS
<1> USE Threads DEF Types, Runs
<1>1. CASE StartAccept
  BY <1>1 DEF StartAccept
<1>2. ASSUME NEW c \in Connection, Connect(c) PROVE Goal
  BY <1>2 DEF Connect
<1>3. ASSUME NEW c \in Connection, OnAccept(c) PROVE Goal
  <2>1. NextLoop \in Worker
    BY DEF NextLoop, Worker
  <2>2. /\ Runs /\ UNCHANGED <<loop, thread, fate>>
        /\ next' = NextLoop /\ home' = [home EXCEPT ![c] = NextLoop]
    BY <1>3 DEF OnAccept
  <2> QED
    BY <2>1, <2>2
<1>4. ASSUME NEW w \in Thread, Runs, thread[w] = "idle" \/ InCallback(w),
             NEW to \in {"idle", "onConnection", "onMessage", "stopped"},
             thread' = [thread EXCEPT ![w] = to],
             UNCHANGED <<loop, next, home, fate>>
      PROVE  Goal
  BY <1>4 DEF InCallback
<1>5. ASSUME NEW c \in Connection, OnRead(c) \/ OnClose(c) PROVE Goal
  <2>1. home[c] \in Thread
    OBVIOUS
  <2> QED
    BY <1>4, <1>5, <2>1 DEF OnRead, OnClose
<1>6. ASSUME NEW w \in Worker, NewConnEvent(w) PROVE Goal
  <2>1. CASE loop[w] = "null"
    BY <1>6, <2>1 DEF NewConnEvent
  <2>2. CASE loop[w] # "null"
    BY <1>4, <1>6, <2>2 DEF NewConnEvent
  <2> QED
    BY <2>1, <2>2
<1>7. ASSUME NEW w \in Worker, CallbackReturns(w) PROVE Goal
  BY <1>4, <1>7 DEF CallbackReturns
<1>8. ASSUME NEW w \in Worker, CallbackThrows(w) PROVE Goal
  BY <1>8 DEF CallbackThrows, serverVars
<1>9. ASSUME NEW t \in Thread, LoopEnds(t) PROVE Goal
  BY <1>4, <1>9 DEF LoopEnds
<1> HIDE DEF Goal
<1> QED
  BY <1>1, <1>2, <1>3, <1>5, <1>6, <1>7, <1>8, <1>9 DEF ServerThreads

LEMMA TcpThreadsInv ==
  ASSUME Inv, TcpThreads
  PROVE  Inv'
<1>1. /\ loop' = loop
      /\ thread' \in [Thread -> {"none", "idle", "onConnection", "onMessage", "stopped"}]
      /\ \A t \in Thread : thread[t] \in {"none", "stopped"} => thread'[t] = thread[t]
      /\ next' \in Worker /\ home' \in [Connection -> Worker]
      /\ fate' \notin {"exited", "raced"}
  BY ServerThreadsSteps DEF TcpThreads, Inv
<1>2. UNCHANGED <<bridgeVars, managerVars>>
  BY DEF TcpThreads
<1> QED
  BY <1>1, <1>2
  DEF Inv, Types, PluginHeld, OnlyWithPlugin, StoppedInTime, ExitsOnlyWithoutRoutes,
      RacesOnlyBeforeTcp, TcpLast,
      bridgeVars, managerVars

\* Steps of stop() change no thread, and no loop is new again.
LEMMA StopTcpInv ==
  ASSUME Inv, StopTcp
  PROVE  Inv'
<1> USE Threads
<1>1. /\ UNCHANGED <<thread, next, home, fate>>
      /\ loop' \in [Thread -> {"none", "running", "halted", "null"}]
      /\ loop'[Acceptor] = "none" <=> loop[Acceptor] = "none"
  BY DEF Inv, Types, StopTcp, CloseSocket, StopLoop, HaltLoop, NullLoop
<1>2. UNCHANGED <<bridgeVars, managerVars>>
  BY DEF StopTcp
<1> QED
  BY <1>1, <1>2
  DEF Inv, Types, PluginHeld, OnlyWithPlugin, StoppedInTime, ExitsOnlyWithoutRoutes,
      RacesOnlyBeforeTcp, TcpLast,
      bridgeVars, managerVars

-----------------------------------------------------------------------------
LEMMA LoadPluginInv ==
  ASSUME Inv, LoadPlugin
  PROVE  Inv'
<1>1. PICK name \in Name, object \in Object :
        Load(PluginFile, name, object) /\ plugin' = {object}
  BY DEF LoadPlugin
<1>2. /\ main = "load" /\ main' = "addRoutes" /\ Runs
      /\ UNCHANGED <<adding, router, http, tcpVars>>
  BY DEF LoadPlugin, Goes
<1>3. opened = [f \in File |-> 0] /\ DOMAIN plugins = {}
  BY <1>2 DEF Inv, PluginHeld, Before
<1>4. opened'[PluginFile] = 1
  BY <1>1, <1>3 DEF Load
<1>5. DOMAIN plugins' = {name} /\ plugins'[name].pluginHandle = PluginFile
  BY <1>1, <1>3 DEF Load
<1>6. plugin' \subseteq DOMAIN objects'
  BY <1>1 DEF Load
<1>7. PluginHeld'
  BY <1>2, <1>4, <1>5, <1>6 DEF PluginHeld, Before, Holding
<1> QED
  BY <1>1, <1>2, <1>7
  DEF Inv, Types, Places, OnlyWithPlugin, StoppedInTime, ExitsOnlyWithoutRoutes, TcpDown,
      RacesOnlyBeforeTcp, TcpLast,
      tcpVars, serverVars

LEMMA UnloadInv ==
  ASSUME Inv, Unload
  PROVE  Inv'
<1>1. /\ main = "unload" /\ main' = "members"
      /\ UNCHANGED <<todo, adding, router, http, plugin, tcpVars>>
  BY DEF Unload, Goes
<1>2. ASSUME plugin # {} PROVE opened'[PluginFile] = 0
  <2>1. opened[PluginFile] = 1
    BY <1>1, <1>2 DEF Inv, PluginHeld, Holding
  <2>2. PICK name : DOMAIN plugins = {name} /\ plugins[name].pluginHandle = PluginFile
    BY <1>1, <1>2 DEF Inv, PluginHeld, Holding
  <2>3. {n \in DOMAIN plugins : plugins[n].pluginHandle = PluginFile} = {name}
    BY <2>2
  <2>4. Cardinality({name}) = 1
    BY FS_Singleton
  <2>5. opened'[PluginFile] = opened[PluginFile] - 
          Cardinality({n \in DOMAIN plugins : plugins[n].pluginHandle = PluginFile})
    BY DEF Unload, UnloadAllPlugins
  <2> QED
    BY <2>1, <2>3, <2>4, <2>5
<1>3. PluginHeld'
  BY <1>1, <1>2 DEF PluginHeld, Before, Holding
<1> QED
  BY <1>1, <1>3
  DEF Inv, Types, Places, OnlyWithPlugin, StoppedInTime, ExitsOnlyWithoutRoutes, TcpDown,
      RacesOnlyBeforeTcp, TcpLast,
      tcpVars, serverVars

LEMMA DestroyMembersInv ==
  ASSUME Inv, DestroyMembers
  PROVE  Inv'
<1>1. /\ main = "members" /\ main' = "ended"
      /\ UNCHANGED <<todo, adding, router, http, plugin, managerVars, serverVars>>
      /\ fate' = IF router # {} /\ opened[PluginFile] = 0 THEN "unmapped" ELSE "exited"
  BY DEF DestroyMembers, Goes, Ends
<1>2. router # {} => opened[PluginFile] = 0
  BY <1>1 DEF Inv, PluginHeld, OnlyWithPlugin
<1>3. ExitsOnlyWithoutRoutes'
  BY <1>1, <1>2 DEF ExitsOnlyWithoutRoutes
<1> QED
  BY <1>1, <1>3
  DEF Inv, Types, Places, PluginHeld, OnlyWithPlugin, StoppedInTime, TcpDown, Before,
      Holding, RacesOnlyBeforeTcp, TcpLast, serverVars, managerVars

\* The other steps of main change neither the manager nor the plugin.
LEMMA MainInv ==
  ASSUME Inv, MainThread \/ Newline \/ EndOfInput
  PROVE  Inv'
<1> USE Threads
    DEF Inv, Types, Places, PluginHeld, OnlyWithPlugin, StoppedInTime,
        ExitsOnlyWithoutRoutes, RacesOnlyBeforeTcp, TcpLast, Before, Holding, TcpDown, Goes,
        Runs,
        tcpVars, serverVars, managerVars
<1>1. CASE ServeHttp
  <2>1. /\ main = "serveHttp" /\ main' \in {"load", "ended"} /\ http' \in {http, "idle"}
        /\ fate = "running" /\ fate' \in {"running", "refused"}
        /\ main' = "ended" => http' = http
        /\ UNCHANGED <<todo, adding, router, plugin, managerVars, serverVars>>
    BY <1>1 DEF ServeHttp, Ends
  <2>2. main' \notin TcpDown \/ main' = "ended"
    BY <2>1
  <2>3. Types' /\ OnlyWithPlugin'
    BY <2>1
  <2>4. PluginHeld'
    BY <2>1
  <2>5. StoppedInTime'
    <3>1. http' \in {"none", "stopped"} \/ main' = "load"
      BY <2>1
    <3>2. \A t \in Thread : thread[t] = "none"
      BY <2>1
    <3> QED
      BY <2>1, <3>1, <3>2
  <2>6. ExitsOnlyWithoutRoutes' /\ TcpLast' /\ RacesOnlyBeforeTcp'
    BY <2>1
  <2> QED
    BY <2>3, <2>4, <2>5, <2>6
<1>2. CASE LoadFails
  BY <1>2 DEF LoadFails
<1>3. ASSUME NEW route \in Route, AddRoute(route) PROVE Inv'
  BY <1>3 DEF AddRoute
<1>4. CASE RouteAdded
  BY <1>4 DEF RouteAdded
<1>5. CASE RoutesDone
  BY <1>5 DEF RoutesDone
<1>6. CASE ServeTcp
  BY <1>6 DEF ServeTcp, CreateSocket
<1>7. CASE StartTcp
  BY <1>7 DEF StartTcp, Start
<1>8. CASE Newline
  BY <1>8 DEF Newline
<1>11. CASE EndOfInput
  BY <1>11 DEF EndOfInput
<1>9. CASE HttpStopped
  BY <1>9 DEF HttpStopped, Stop
<1>10. CASE TcpStopped
  BY <1>10 DEF TcpStopped, StopReturns
<1> QED
  BY <1>1, <1>2, <1>3, <1>4, <1>5, <1>6, <1>7, <1>8, <1>9, <1>10, <1>11,
     StopTcpInv, LoadPluginInv, UnloadInv, DestroyMembersInv
  DEF MainThread

LEMMA HttpThreadInv ==
  ASSUME Inv, HttpThread
  PROVE  Inv'
<1> USE DEF Inv, Types, Places, PluginHeld, OnlyWithPlugin, StoppedInTime,
        ExitsOnlyWithoutRoutes, RacesOnlyBeforeTcp, TcpLast, Before, Holding, TcpDown, Runs,
        bridgeVars,
        tcpVars, serverVars, managerVars
<1>1. ASSUME NEW route \in Route, Request(route) PROVE Inv'
  BY <1>1 DEF Request
<1>2. CASE RequestRaces
  BY <1>2 DEF RequestRaces, Ends
<1>3. CASE RequestDone
  BY <1>3 DEF RequestDone
<1>4. CASE HttpEnds
  BY <1>4 DEF HttpEnds
<1> QED
  BY <1>1, <1>2, <1>3, <1>4 DEF HttpThread

LEMMA NextInv == Inv /\ [Next]_vars => Inv'
<1> SUFFICES ASSUME Inv, [Next]_vars PROVE Inv'
  OBVIOUS
<1>1. CASE Next
  BY <1>1, MainInv, HttpThreadInv, TcpThreadsInv DEF Next
<1>2. CASE UNCHANGED vars
  BY <1>2
  DEF vars, bridgeVars, managerVars, tcpVars, serverVars, Inv, Types, PluginHeld,
      OnlyWithPlugin, StoppedInTime, ExitsOnlyWithoutRoutes, RacesOnlyBeforeTcp, TcpLast
<1> QED
  BY <1>1, <1>2

\* Inv always holds.
THEOREM InvHolds == Spec => []Inv
BY InitInv, NextInv, PTL DEF Spec

\* No thread is in code of the plugin once the plugin is deleted or its library
\* closed (AVBridge.cpp:12).
THEOREM PluginCodeStaysLoaded == Spec => []PluginCodeLoaded
BY InvHolds, InvLoaded, PTL

\* The program does not exit normally once a route was added (AVBridge.cpp:12, :28).
THEOREM NoCleanExitWithRoutes == Spec => []ExitsOnlyWithoutRoutes
<1>1. Inv => ExitsOnlyWithoutRoutes
  BY DEF Inv
<1> QED
  BY <1>1, InvHolds, PTL

\* A request meets a half-written router only before the TCP server exists
\* (AVBridge.cpp:28, :33).
THEOREM RequestsRaceOnlyBeforeTcp == Spec => []RacesOnlyBeforeTcp
<1>1. Inv => RacesOnlyBeforeTcp
  BY DEF Inv
<1> QED
  BY <1>1, InvHolds, PTL

-----------------------------------------------------------------------------
(* Types *)

\* A library is open at least as often as the map has entries for it, so that the
\* manager's destructor never closes one too often.
Counted ==
  main \notin {"members", "ended"} =>
    \A f \in File :
      /\ Cardinality({n \in DOMAIN plugins : plugins[n].pluginHandle = f}) \in Nat
      /\ Cardinality({n \in DOMAIN plugins : plugins[n].pluginHandle = f}) <= opened[f]

\* What the threads of the TCP server change has its type.
LEMMA ServerTypes ==
  ASSUME TypeOK, ServerThreads
  PROVE  ServerTypeOK' /\ fate' \in {"running", "threw", "faulted"}
<1> DEFINE Goal == ServerTypeOK' /\ fate' \in {"running", "threw", "faulted"}
<1> SUFFICES Goal
  OBVIOUS
<1> USE Threads DEF TypeOK, ServerTypeOK, Runs
<1>1. CASE StartAccept
  BY <1>1 DEF StartAccept
<1>2. ASSUME NEW c \in Connection, Connect(c) PROVE Goal
  BY <1>2 DEF Connect
<1>3. ASSUME NEW c \in Connection, OnAccept(c) PROVE Goal
  <2>1. NextLoop \in Worker
    BY DEF NextLoop, Worker
  <2>2. posted' \in [Worker -> Seq(Connection)]
    <3>1. posted[NextLoop] \in Seq(Connection)
      BY <2>1
    <3>2. Append(posted[NextLoop], c) \in Seq(Connection)
      BY <3>1
    <3>3. posted' = posted \/ posted' = [posted EXCEPT ![NextLoop] = Append(@, c)]
      BY <1>3 DEF OnAccept
    <3> QED
      BY <3>2, <3>3
  <2>3. conn' \in [Connection -> {"away", "waiting", "posted", "open", "closed", "lost"}]
    <3>1. \/ conn' = [conn EXCEPT ![c] = "lost"]
          \/ conn' = [conn EXCEPT ![c] = "posted"]
      BY <1>3 DEF OnAccept
    <3> QED
      BY <3>1
  <2>4. next' \in Worker /\ home' \in [Connection -> Worker]
    BY <1>3, <2>1 DEF OnAccept
  <2>5. Runs /\ UNCHANGED <<listenfd, accepting, loop, thread, stopping, fate>>
    BY <1>3 DEF OnAccept
  <2> QED
    BY <2>2, <2>3, <2>4, <2>5
<1>4. ASSUME NEW c \in Connection, OnRead(c) \/ OnClose(c) PROVE Goal
  <2>1. thread' \in [Thread -> {"none", "idle", "onConnection", "onMessage", "stopped"}]
    <3>1. \/ thread' = [thread EXCEPT ![home[c]] = "onMessage"]
          \/ thread' = [thread EXCEPT ![home[c]] = "onConnection"]
      BY <1>4 DEF OnRead, OnClose
    <3> QED
      BY <3>1
  <2>2. conn' \in [Connection -> {"away", "waiting", "posted", "open", "closed", "lost"}]
    <3>1. conn' = conn \/ conn' = [conn EXCEPT ![c] = "closed"]
      BY <1>4 DEF OnRead, OnClose
    <3> QED
      BY <3>1
  <2>3. Runs /\ UNCHANGED <<listenfd, accepting, loop, next, posted, home, stopping, fate>>
    BY <1>4 DEF OnRead, OnClose
  <2> QED
    BY <2>1, <2>2, <2>3
<1>5. ASSUME NEW w \in Worker, NewConnEvent(w) PROVE Goal
  <2>1. Head(posted[w]) \in Connection /\ Tail(posted[w]) \in Seq(Connection)
    BY <1>5 DEF NewConnEvent
  <2>2. CASE loop[w] = "null"
    BY <1>5, <2>2 DEF NewConnEvent
  <2>3. CASE loop[w] # "null"
    <3>1. /\ posted' = [posted EXCEPT ![w] = Tail(@)]
          /\ conn' = [conn EXCEPT ![Head(posted[w])] = "open"]
          /\ thread' = [thread EXCEPT ![w] = "onConnection"]
          /\ UNCHANGED <<listenfd, accepting, loop, next, home, stopping, fate>>
          /\ Runs
      BY <1>5, <2>3 DEF NewConnEvent
    <3>2. posted' \in [Worker -> Seq(Connection)]
      BY <2>1, <3>1
    <3>3. conn' \in [Connection -> {"away", "waiting", "posted", "open", "closed", "lost"}]
      BY <2>1, <3>1
    <3>4. thread' \in [Thread -> {"none", "idle", "onConnection", "onMessage", "stopped"}]
      BY <3>1
    <3> QED
      BY <3>1, <3>2, <3>3, <3>4
  <2> QED
    BY <2>2, <2>3
<1>6. ASSUME NEW w \in Worker, CallbackReturns(w) \/ CallbackThrows(w) PROVE Goal
  BY <1>6 DEF CallbackReturns, CallbackThrows, serverVars
<1>7. ASSUME NEW t \in Thread, LoopEnds(t) PROVE Goal
  BY <1>7 DEF LoopEnds
<1> QED
  BY <1>1, <1>2, <1>3, <1>4, <1>5, <1>6, <1>7 DEF ServerThreads

\* The manager's calls that main makes.
LEMMA LoadPluginTypes ==
  ASSUME Inv, TypeOK, Counted, LoadPlugin
  PROVE  (TypeOK /\ Counted)'
<1>1. PICK name \in Name, object \in Object :
        Load(PluginFile, name, object) /\ plugin' = {object}
  BY DEF LoadPlugin
<1>2. /\ main = "load" /\ main' = "addRoutes" /\ Runs /\ todo' \subseteq Route
      /\ UNCHANGED <<adding, router, http, tcpVars>>
  BY DEF LoadPlugin, Goes
<1>3. ManagerTypeOK'
  BY <1>1, PluginFileAssumption DEF TypeOK, ManagerTypeOK, PluginData, Load
<1>4. opened = [f \in File |-> 0] /\ DOMAIN plugins = {}
  BY <1>2 DEF Inv, PluginHeld, Before
<1>5. opened' = [opened EXCEPT ![PluginFile] = 1]
  BY <1>1, <1>4 DEF Load
<1>6. DOMAIN plugins' = {name} /\ plugins'[name].pluginHandle = PluginFile
  BY <1>1, <1>4 DEF Load
<1>7. Counted'
  <2> SUFFICES ASSUME NEW f \in File
               PROVE  /\ Cardinality({n \in DOMAIN plugins' : plugins'[n].pluginHandle = f}) \in Nat
                      /\ Cardinality({n \in DOMAIN plugins' : plugins'[n].pluginHandle = f}) <= opened'[f]
    BY DEF Counted
  <2>1. CASE f = PluginFile
    <3>1. {n \in DOMAIN plugins' : plugins'[n].pluginHandle = f} = {name}
      BY <1>6, <2>1
    <3>2. opened'[f] = 1
      BY <1>4, <1>5, <2>1
    <3>3. Cardinality({name}) = 1
      BY FS_Singleton
    <3> QED
      BY <3>1, <3>2, <3>3
  <2>2. CASE f # PluginFile
    <3>1. {n \in DOMAIN plugins' : plugins'[n].pluginHandle = f} = {}
      BY <1>6, <2>2
    <3>2. opened'[f] = 0
      BY <1>4, <1>5, <2>2
    <3> QED
      BY <3>1, <3>2, FS_EmptySet
  <2> QED
    BY <2>1, <2>2
<1>8. ServerTypeOK'
  BY <1>2 DEF TypeOK, ServerTypeOK, tcpVars, serverVars
<1> QED
  BY <1>1, <1>2, <1>3, <1>7, <1>8 DEF TypeOK, Places, tcpVars, serverVars

LEMMA UnloadTypes ==
  ASSUME TypeOK, Counted, Unload
  PROVE  (TypeOK /\ Counted)'
<1>1. /\ main = "unload" /\ main' = "members" /\ UnloadAllPlugins
      /\ UNCHANGED <<todo, adding, router, http, plugin, tcpVars>>
  BY DEF Unload, Goes
<1>2. opened' \in [File -> Nat]
  <2> SUFFICES ASSUME NEW f \in File
               PROVE  opened[f] - Cardinality({n \in DOMAIN plugins : plugins[n].pluginHandle = f})
                        \in Nat
    BY <1>1 DEF UnloadAllPlugins
  <2> QED
    BY <1>1 DEF Counted, TypeOK, ManagerTypeOK
<1>3. DOMAIN objects' \subseteq Object /\ objects' \in [DOMAIN objects' -> File]
  BY <1>1 DEF UnloadAllPlugins, Restrict, TypeOK, ManagerTypeOK
<1>4. ManagerTypeOK'
  BY <1>1, <1>2, <1>3 DEF UnloadAllPlugins, TypeOK, ManagerTypeOK
<1>5. ServerTypeOK'
  BY <1>1 DEF TypeOK, ServerTypeOK, tcpVars, serverVars
<1> QED
  BY <1>1, <1>4, <1>5 DEF TypeOK, Counted, Places, tcpVars, serverVars

\* The other steps leave the manager alone.
LEMMA OtherTypes ==
  ASSUME TypeOK, Counted, Next, ~LoadPlugin, ~Unload
  PROVE  (TypeOK /\ Counted)'
<1> USE Threads
<1>1. UNCHANGED managerVars /\ (main' \in {"members", "ended"} \/ main \notin {"members", "ended"})
  BY DEF Next, MainThread, HttpThread, TcpThreads, ServeHttp, LoadFails, AddRoute, RouteAdded,
         RoutesDone, ServeTcp, StartTcp, HttpStopped, StopTcp, TcpStopped, DestroyMembers,
         Newline, EndOfInput, Request, RequestRaces, RequestDone, HttpEnds, Goes, bridgeVars
<1>2. ManagerTypeOK' /\ Counted'
  BY <1>1 DEF TypeOK, ManagerTypeOK, Counted, managerVars
<1>3. /\ ServerTypeOK'
      /\ fate' \in {"running", "threw", "faulted", "raced", "unmapped", "refused", "exited"}
  <2>1. CASE TcpThreads
    BY <2>1, ServerTypes DEF TcpThreads
  <2>2. CASE CreateSocket \/ Start \/ Stop \/ CloseSocket
    BY <2>2 DEF CreateSocket, Start, Stop, CloseSocket, TypeOK, ServerTypeOK, Runs
  <2>5. ASSUME NEW t \in Thread, StopLoop(t)
        PROVE  ServerTypeOK' /\ fate' = fate
    BY <2>5 DEF StopLoop, HaltLoop, NullLoop, TypeOK, ServerTypeOK
  <2>3. CASE ServeHttp \/ RequestRaces \/ DestroyMembers
    BY <2>3 DEF ServeHttp, RequestRaces, DestroyMembers, Ends, TypeOK, ServerTypeOK,
                tcpVars, serverVars
  <2>4. CASE UNCHANGED tcpVars
    BY <2>4 DEF TypeOK, ServerTypeOK, tcpVars, serverVars
  <2> QED
    BY <2>1, <2>2, <2>3, <2>4, <2>5
    DEF Next, MainThread, HttpThread, LoadFails, AddRoute, RouteAdded, RoutesDone,
        TypeOK, ServeTcp, StartTcp, HttpStopped, StopTcp, TcpStopped, Newline, EndOfInput, Request, RequestDone, HttpEnds
<1>4. /\ main' \in Places
      /\ todo' \subseteq Route /\ adding' \subseteq Route /\ router' \subseteq Route
      /\ http' \in {"none", "idle", "onRequest", "stopped"}
      /\ plugin' \subseteq Object
  BY DEF TypeOK, Next, MainThread, HttpThread, TcpThreads, ServeHttp, LoadFails, AddRoute,
         RouteAdded, RoutesDone, ServeTcp, StartTcp, HttpStopped, StopTcp, TcpStopped,
         DestroyMembers, Newline, EndOfInput, Request, RequestRaces, RequestDone, HttpEnds,
         Goes, bridgeVars, Places
<1> QED
  BY <1>2, <1>3, <1>4 DEF TypeOK

LEMMA TypesStep == Inv /\ TypeOK /\ Counted /\ [Next]_vars => (TypeOK /\ Counted)'
<1> SUFFICES ASSUME Inv, TypeOK, Counted, [Next]_vars PROVE (TypeOK /\ Counted)'
  OBVIOUS
<1>1. CASE Next
  BY <1>1, LoadPluginTypes, UnloadTypes, OtherTypes
<1>2. CASE UNCHANGED vars
  BY <1>2 DEF vars, bridgeVars, managerVars, tcpVars, serverVars, TypeOK, ManagerTypeOK,
              ServerTypeOK, Counted
<1> QED
  BY <1>1, <1>2

\* The types of TypeOK: no library is closed more often than it was opened
\* (PluginManager.h:43), and the round robin index stays in the vector of loops.
THEOREM TypeCorrect == Spec => []TypeOK
<1>1. Init => TypeOK /\ Counted
  <2> SUFFICES ASSUME Init PROVE TypeOK /\ Counted
    OBVIOUS
  <2> USE Threads DEF Init, ServerInit, ManagerInit
  <2>1. posted \in [Worker -> Seq(Connection)] /\ home \in [Connection -> Worker]
    OBVIOUS
  <2>2. ServerTypeOK
    BY <2>1 DEF ServerTypeOK
  <2>3. DOMAIN plugins = {} /\ DOMAIN objects = {}
    OBVIOUS
  <2>4. ManagerTypeOK
    BY <2>3 DEF ManagerTypeOK
  <2>5. Counted
    <3>1. \A f \in File : {n \in DOMAIN plugins : plugins[n].pluginHandle = f} = {}
      BY <2>3
    <3> QED
      BY <3>1, FS_EmptySet DEF Counted
  <2> QED
    BY <2>2, <2>4, <2>5 DEF TypeOK, Places
<1>2. Inv /\ TypeOK /\ Counted /\ [Next]_vars => (TypeOK /\ Counted)'
  BY TypesStep
<1> QED
  BY <1>1, <1>2, InvHolds, PTL DEF Spec

-----------------------------------------------------------------------------
(* The TCP server of the program *)

\* What the ways in which the program ends are for its TCP server.
TcpFate == IF fate \in {"threw", "faulted"} THEN fate ELSE "running"

\* The server, and what is proved of it.
Tcp == INSTANCE TcpServerCalls_proofs WITH fate <- TcpFate

LEMMA TcpAssumptions == ThreadNum \in Nat \ {0} /\ Tcp!IsFiniteSet(Connection)
BY ConnectionAssumption DEF IsFiniteSet, Tcp!IsFiniteSet

LEMMA TcpNames ==
  Tcp!Worker = Worker /\ Tcp!Acceptor = Acceptor /\ Tcp!Thread = Thread
BY DEF Tcp!Worker, Worker, Tcp!Acceptor, Acceptor, Tcp!Thread, Thread

\* What the main thread does with the server is a step of it.
LEMMA TcpCalls ==
  /\ CreateSocket => Tcp!CreateSocket
  /\ Start => Tcp!Start
  /\ Stop => Tcp!Stop
  /\ CloseSocket => Tcp!CloseSocket
  /\ \A t \in Thread : StopLoop(t) => Tcp!StopLoop(t)
<1> USE TcpNames DEF Runs, Tcp!Runs, TcpFate
<1>1. CreateSocket => Tcp!CreateSocket
  BY DEF CreateSocket, Tcp!CreateSocket
<1>2. Start => Tcp!Start
  BY DEF Start, Tcp!Start
<1>3. Stop => Tcp!Stop
  BY DEF Stop, Tcp!Stop
<1>4. AcceptorStopped <=> Tcp!AcceptorStopped
  BY DEF AcceptorStopped, Tcp!AcceptorStopped
<1>5. CloseSocket => Tcp!CloseSocket
  BY <1>4 DEF CloseSocket, Tcp!CloseSocket
<1>6. ASSUME NEW t \in Thread PROVE StopLoop(t) => Tcp!StopLoop(t)
  <2>1. Reached(t) <=> Tcp!Reached(t)
    BY <1>4 DEF Reached, Tcp!Reached
  <2>2. HaltLoop(t) => Tcp!HaltLoop(t)
    BY <2>1 DEF HaltLoop, Tcp!HaltLoop
  <2>3. NullLoop(t) => Tcp!NullLoop(t)
    BY DEF NullLoop, Tcp!NullLoop
  <2> QED
    BY <2>2, <2>3 DEF StopLoop, Tcp!StopLoop
<1> QED
  BY <1>1, <1>2, <1>3, <1>5, <1>6

\* So is what its own threads do.
LEMMA TcpRuns == ServerThreads => Tcp!ServerThreads
<1> USE TcpNames DEF Runs, Tcp!Runs, TcpFate
<1>1. StartAccept => Tcp!StartAccept
  BY DEF StartAccept, Tcp!StartAccept
<1>2. NextLoop = Tcp!NextLoop
  BY DEF NextLoop, Tcp!NextLoop
<1>3. ASSUME NEW c \in Connection
      PROVE  /\ Connect(c) => Tcp!Connect(c)
             /\ OnAccept(c) => Tcp!OnAccept(c)
             /\ OnRead(c) => Tcp!OnRead(c)
             /\ OnClose(c) => Tcp!OnClose(c)
  <2>1. Connect(c) => Tcp!Connect(c)
    BY DEF Connect, Tcp!Connect
  <2>2. OnAccept(c) => Tcp!OnAccept(c)
    BY <1>2 DEF OnAccept, Tcp!OnAccept
  <2>3. OnRead(c) => Tcp!OnRead(c)
    BY DEF OnRead, Tcp!OnRead
  <2>4. OnClose(c) => Tcp!OnClose(c)
    BY DEF OnClose, Tcp!OnClose
  <2> QED
    BY <2>1, <2>2, <2>3, <2>4
<1>4. ASSUME NEW w \in Worker
      PROVE  /\ NewConnEvent(w) => Tcp!NewConnEvent(w)
             /\ CallbackReturns(w) => Tcp!CallbackReturns(w)
             /\ CallbackThrows(w) => Tcp!CallbackThrows(w)
  <2>1. NewConnEvent(w) => Tcp!NewConnEvent(w)
    BY DEF NewConnEvent, Tcp!NewConnEvent
  <2>2. CallbackReturns(w) => Tcp!CallbackReturns(w)
    BY DEF CallbackReturns, Tcp!CallbackReturns, InCallback, Tcp!InCallback
  <2>3. CallbackThrows(w) => Tcp!CallbackThrows(w)
    BY DEF CallbackThrows, Tcp!CallbackThrows, serverVars, Tcp!serverVars
  <2> QED
    BY <2>1, <2>2, <2>3
<1>5. \A t \in Thread : LoopEnds(t) => Tcp!LoopEnds(t)
  BY DEF LoopEnds, Tcp!LoopEnds
<1> QED
  BY <1>1, <1>3, <1>4, <1>5 DEF ServerThreads, Tcp!ServerThreads

\* A step of the program is a step of its TCP server, or one in which the server
\* takes no part.
LEMMA TcpStep == [Next]_vars => [Tcp!Next]_(Tcp!tcpVars)
<1> SUFFICES ASSUME [Next]_vars PROVE Tcp!Next \/ UNCHANGED Tcp!tcpVars
  OBVIOUS
<1> DEFINE Apart == UNCHANGED serverVars /\ TcpFate' = TcpFate
<1>1. Apart => UNCHANGED Tcp!tcpVars
  BY DEF serverVars, Tcp!tcpVars, Tcp!serverVars
<1>2. UNCHANGED tcpVars => Apart
  BY DEF tcpVars, TcpFate
<1>3. ASSUME NEW how \in {"refused", "raced", "unmapped", "exited"}, Ends(how),
             UNCHANGED serverVars
      PROVE  Apart
  BY <1>3 DEF Ends, Runs, TcpFate
<1> HIDE DEF Apart
<1>4. CASE ServeTcp \/ StartTcp
  BY <1>4, TcpCalls DEF ServeTcp, StartTcp, Tcp!Next
<1>5. CASE HttpStopped
  BY <1>1, <1>2, <1>5, TcpCalls DEF HttpStopped, Tcp!Next
<1>6. CASE StopTcp
  BY <1>6, TcpCalls, TcpNames DEF StopTcp, Tcp!Next
<1>7. CASE TcpThreads
  BY <1>7, TcpRuns DEF TcpThreads, Tcp!Next
<1>8. CASE ServeHttp
  BY <1>1, <1>2, <1>3, <1>8 DEF ServeHttp
<1>9. CASE DestroyMembers
  BY <1>1, <1>3, <1>9 DEF DestroyMembers
<1>10. CASE HttpThread
  <2>1. RequestRaces => Apart
    BY <1>3 DEF RequestRaces
  <2>2. RequestDone \/ HttpEnds => UNCHANGED tcpVars
    BY DEF RequestDone, HttpEnds
  <2>3. (\E route \in Route : Request(route)) => UNCHANGED tcpVars
    BY DEF Request
  <2> QED
    BY <1>1, <1>2, <1>10, <2>1, <2>2, <2>3 DEF HttpThread
<1>11. CASE LoadFails \/ LoadPlugin \/ RouteAdded \/ RoutesDone \/ TcpStopped \/ Unload
  <2>1. UNCHANGED tcpVars
    BY <1>11 DEF LoadFails, LoadPlugin, RouteAdded, RoutesDone, TcpStopped, Unload
  <2> QED
    BY <1>1, <1>2, <2>1
<1>12. CASE (\E route \in Route : AddRoute(route)) \/ Newline \/ EndOfInput
  <2>1. UNCHANGED tcpVars
    BY <1>12 DEF AddRoute, Newline, EndOfInput
  <2> QED
    BY <1>1, <1>2, <2>1
<1>13. CASE UNCHANGED vars
  BY <1>1, <1>2, <1>13 DEF vars
<1> QED
  BY <1>4, <1>5, <1>6, <1>7, <1>8, <1>9, <1>10, <1>11, <1>12, <1>13 DEF Next, MainThread

LEMMA TcpInit == Init => Tcp!Init
BY TcpNames DEF Init, Tcp!Init, ServerInit, Tcp!ServerInit, TcpFate

\* Whatever the program does around it, its TCP server does what TcpServerCalls says:
\* AVBridge calls the functions of TcpServer where that allows it (AVBridge.cpp:10,
\* :56 and :64), and nothing else touches the state of the server.
THEOREM BridgeRunsTcpServer == Spec => Tcp!Init /\ [][Tcp!Next]_(Tcp!tcpVars)
BY TcpInit, TcpStep, PTL DEF Spec

LEMMA BridgeTcpInvariance == Spec => []Tcp!Inv
<1>1. Tcp!Init => Tcp!Inv
  BY TcpAssumptions, Tcp!InitInv
<1>2. Tcp!Inv /\ [Tcp!Next]_(Tcp!tcpVars) => Tcp!Inv'
  BY TcpAssumptions, Tcp!NextInv
<1> QED
  BY <1>1, <1>2, BridgeRunsTcpServer, PTL

\* In the whole program a connection that was accepted stays in the queue of a worker
\* that runs until the worker takes it over or ~AVBridge stops the server
\* (AVBridge.cpp:10, TcpServer.h:285).
THEOREM BridgeDropsOnlyByStop == Spec => []Tcp!DroppedOnlyByStop
<1>1. Tcp!Init => Tcp!AllInQueue /\ Tcp!StopsIfTold
  BY TcpAssumptions, Tcp!PostedInit
<1>2. Tcp!Inv /\ Tcp!AllInQueue /\ [Tcp!Next]_(Tcp!tcpVars) => Tcp!AllInQueue'
  BY TcpAssumptions, Tcp!AllInQueueStep
<1>3. Tcp!Inv /\ Tcp!StopsIfTold /\ [Tcp!Next]_(Tcp!tcpVars) => Tcp!StopsIfTold'
  BY TcpAssumptions, Tcp!StopsIfToldStep
<1>4. Tcp!Inv /\ Tcp!AllInQueue /\ Tcp!StopsIfTold => Tcp!DroppedOnlyByStop
  BY TcpAssumptions, Tcp!OnlyStopDrops
<1> QED
  BY <1>1, <1>2, <1>3, <1>4, BridgeRunsTcpServer, BridgeTcpInvariance, PTL

\* And its workers have even loads, however many the program was given
\* (AVBridge.cpp:63).
THEOREM BridgeLoadIsEven == Spec => []Tcp!LoadIsEven
<1>1. Tcp!Init => Tcp!PostedAccepted /\ Tcp!Shares
  BY TcpAssumptions, Tcp!PostedAcceptedInit, Tcp!SharesInit
<1>2. Tcp!Inv /\ Tcp!PostedAccepted /\ [Tcp!Next]_(Tcp!tcpVars) => Tcp!PostedAccepted'
  BY TcpAssumptions, Tcp!PostedAcceptedStep
<1>3. Tcp!Inv /\ Tcp!PostedAccepted /\ Tcp!Shares /\ [Tcp!Next]_(Tcp!tcpVars)
        => Tcp!Shares'
  BY TcpAssumptions, Tcp!SharesStep
<1>4. Tcp!Shares => Tcp!LoadIsEven
  BY TcpAssumptions, Tcp!SharesAreEven
<1> QED
  BY <1>1, <1>2, <1>3, <1>4, BridgeRunsTcpServer, BridgeTcpInvariance, PTL

\* The threads of the TCP server call the plugin back only between StartTcp and the
\* return of stop(), so before ~AVBridge deletes the manager (AVBridge.cpp:10 and :12).
THEOREM BridgeImplementsCallbackServer == Spec => Tcp!CallsBackOnlyUntilStopped
<1>1. Tcp!Init => Tcp!Server!Init
  BY TcpAssumptions, Tcp!AbstractInit
<1>2. Tcp!Inv /\ [Tcp!Next]_(Tcp!tcpVars) => [Tcp!Server!Next]_(Tcp!Server!vars)
  BY TcpAssumptions, Tcp!AbstractStep
<1>3. Spec => Tcp!Server!Init /\ [][Tcp!Server!Next]_(Tcp!Server!vars)
  BY <1>1, <1>2, BridgeTcpInvariance, BridgeRunsTcpServer, PTL
<1> QED
  BY <1>3, PTL DEF Tcp!CallsBackOnlyUntilStopped, Tcp!Server!Spec
=============================================================================
