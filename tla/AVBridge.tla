------------------------------- MODULE AVBridge -------------------------------
(***************************************************************************)
(* The program from start to end: main() makes an AVBridge, runs it, waits  *)
(* for a line on standard input and deletes it.  The HTTP server has one    *)
(* thread, the TCP server is TcpServer, the plugin is held by the           *)
(* PluginManager.  Handlers and callbacks are code of the plugin's library. *)
(***************************************************************************)
EXTENDS PluginManager, TcpServer

CONSTANTS
  PluginFile,   \* the library that Run loads
  Route         \* the paths of the plugin's HTTP methods

ASSUME PluginFileAssumption == PluginFile \in File

VARIABLES
  main,     \* where the main thread is
  todo,     \* the routes that Run has still to add
  adding,   \* the routes that router.Any is writing: none or one
  router,   \* the routes the router holds, each a function of the library
  http,     \* the thread of the HTTP server: "none", "idle", "onRequest", "stopped"
  plugin    \* what LoadPlugin returned: a set of one object, or empty for nullptr

bridgeVars == <<main, todo, adding, router, http, plugin>>
vars == <<bridgeVars, managerVars, tcpVars>>

\* In the order the main thread passes them.
Places == {"serveHttp", "load", "addRoutes", "serveTcp", "startTcp", "getchar",
           "eof", "stopHttp", "stopTcp", "unload", "members", "ended"}

TypeOK ==
  /\ ManagerTypeOK /\ ServerTypeOK
  /\ main \in Places
  /\ todo \subseteq Route /\ adding \subseteq Route /\ router \subseteq Route
  /\ http \in {"none", "idle", "onRequest", "stopped"}
  /\ plugin \subseteq Object
  /\ fate \in {"running", "threw", "faulted", "raced", "unmapped", "refused", "exited"}

Init ==
  /\ ManagerInit /\ ServerInit
  /\ main = "serveHttp" /\ http = "none" /\ fate = "running"
  /\ todo = {} /\ adding = {} /\ router = {} /\ plugin = {}

\* The main thread goes from one place to another.
Goes(from, to) == Runs /\ main = from /\ main' = to

Ends(how) == Runs /\ fate' = how

-----------------------------------------------------------------------------
(* AVBridge::Run *)

\* ServeHttp.  A server that does not start ends the program with exit(500).
ServeHttp ==
  \/ /\ Goes("serveHttp", "load")
     /\ http' = "idle"
     /\ UNCHANGED <<todo, adding, router, plugin, managerVars, tcpVars>>
  \/ /\ Goes("serveHttp", "ended") /\ Ends("refused")
     /\ UNCHANGED <<todo, adding, router, http, plugin, managerVars, serverVars>>

\* No library or no Install in it: the program goes on without a plugin.
LoadFails ==
  /\ Goes("load", "getchar")
  /\ UNCHANGED <<todo, adding, router, http, plugin, managerVars, tcpVars>>

\* The plugin gives itself a name and any number of HTTP methods.
LoadPlugin ==
  /\ Goes("load", "addRoutes")
  /\ \E name \in Name, object \in Object :
       Load(PluginFile, name, object) /\ plugin' = {object}
  /\ todo' \in SUBSET Route
  /\ UNCHANGED <<adding, router, http, tcpVars>>

\* router.Any changes the maps of the router, which is already serving.
AddRoute(route) ==
  /\ Runs /\ main = "addRoutes" /\ adding = {} /\ route \in todo
  /\ adding' = {route}
  /\ todo' = todo \ {route}
  /\ UNCHANGED <<main, router, http, plugin, managerVars, tcpVars>>

RouteAdded ==
  /\ Runs /\ main = "addRoutes" /\ adding # {}
  /\ router' = router \cup adding
  /\ adding' = {}
  /\ UNCHANGED <<main, todo, http, plugin, managerVars, tcpVars>>

\* Mutant: a route may still be being written.
RoutesDone_WhileAdding ==
  /\ todo = {}
  /\ Goes("addRoutes", "serveTcp") \/ Goes("addRoutes", "getchar")
  /\ UNCHANGED <<todo, adding, router, http, plugin, managerVars, tcpVars>>

\* A TCP server is made only for a plugin that has both callbacks.
RoutesDone ==
  /\ todo = {} /\ adding = {}
  /\ Goes("addRoutes", "serveTcp") \/ Goes("addRoutes", "getchar")
  /\ UNCHANGED <<todo, adding, router, http, plugin, managerVars, tcpVars>>

\* ServeTcp logs a socket that cannot be made and goes on.
ServeTcp ==
  /\ Goes("serveTcp", "startTcp") /\ CreateSocket
  /\ UNCHANGED <<todo, adding, router, http, plugin, managerVars>>

StartTcp ==
  /\ Goes("startTcp", "getchar") /\ Start
  /\ UNCHANGED <<todo, adding, router, http, plugin, managerVars>>

-----------------------------------------------------------------------------
(* main() and AVBridge::~AVBridge *)

\* Mutant: EOF ends the loop as a line end does.
Newline_OrEOF ==
  /\ Goes("getchar", "stopHttp") \/ Goes("eof", "stopHttp")
  /\ UNCHANGED <<todo, adding, router, http, plugin, managerVars, tcpVars>>

\* A line end is read.
Newline ==
  /\ Goes("getchar", "stopHttp")
  /\ UNCHANGED <<todo, adding, router, http, plugin, managerVars, tcpVars>>

\* The input ends without a line end: getchar returns EOF for ever, main spins, and
\* ~AVBridge is never reached.
EndOfInput ==
  /\ Goes("getchar", "eof")
  /\ UNCHANGED <<todo, adding, router, http, plugin, managerVars, tcpVars>>

\* Mutant: the thread is told to stop, and not waited for.
HttpStopped_NotJoined ==
  /\ IF loop[Acceptor] = "none"
       THEN Goes("stopHttp", "unload") /\ UNCHANGED tcpVars
       ELSE Goes("stopHttp", "stopTcp") /\ Stop
  /\ UNCHANGED <<todo, adding, router, http, plugin, managerVars>>

\* server.stop() has joined its thread; the TCP server, if there is one, is next.
HttpStopped ==
  /\ http = "stopped"
  /\ IF loop[Acceptor] = "none"
       THEN Goes("stopHttp", "unload") /\ UNCHANGED tcpVars
       ELSE Goes("stopHttp", "stopTcp") /\ Stop
  /\ UNCHANGED <<todo, adding, router, http, plugin, managerVars>>

\* tcpServer.second->stop().
StopTcp ==
  /\ Runs /\ main = "stopTcp"
  /\ CloseSocket \/ \E t \in Thread : StopLoop(t)
  /\ UNCHANGED <<bridgeVars, managerVars>>

TcpStopped ==
  /\ StopReturns
  /\ Goes("stopTcp", "unload")
  /\ UNCHANGED <<todo, adding, router, http, plugin, managerVars, tcpVars>>

\* Mutant: the manager is not deleted.
Unload_Forgotten ==
  /\ Goes("unload", "members")
  /\ UNCHANGED <<todo, adding, router, http, plugin, managerVars, tcpVars>>

\* delete pluginManager.
Unload ==
  /\ Goes("unload", "members")
  /\ UnloadAllPlugins
  /\ UNCHANGED <<todo, adding, router, http, plugin, tcpVars>>

\* The members of AVBridge are destroyed after the body of its destructor, and
\* destroying the router runs code of each function it holds.
DestroyMembers ==
  /\ Goes("members", "ended")
  /\ Ends(IF router # {} /\ opened[PluginFile] = 0 THEN "unmapped" ELSE "exited")
  /\ UNCHANGED <<todo, adding, router, http, plugin, managerVars, serverVars>>

-----------------------------------------------------------------------------
(* The thread of the HTTP server *)

\* A request finds its route.
Request(route) ==
  /\ Runs /\ http = "idle" /\ route \in router \cup adding
  /\ http' = "onRequest"
  /\ UNCHANGED <<main, todo, adding, router, plugin, managerVars, tcpVars>>

\* A request, for any path, is looked up while main changes the maps.
RequestRaces ==
  /\ http = "idle" /\ adding # {}
  /\ Ends("raced")
  /\ UNCHANGED <<bridgeVars, managerVars, serverVars>>

RequestDone ==
  /\ Runs /\ http = "onRequest"
  /\ http' = "idle"
  /\ UNCHANGED <<main, todo, adding, router, plugin, managerVars, tcpVars>>

\* server.stop() tells the thread to end, between two requests.
HttpEnds ==
  /\ Runs /\ main = "stopHttp" /\ http = "idle"
  /\ http' = "stopped"
  /\ UNCHANGED <<main, todo, adding, router, plugin, managerVars, tcpVars>>

-----------------------------------------------------------------------------
MainThread ==
  \/ ServeHttp \/ LoadFails \/ LoadPlugin
  \/ (\E route \in Route : AddRoute(route)) \/ RouteAdded \/ RoutesDone
  \/ ServeTcp \/ StartTcp
  \/ HttpStopped \/ StopTcp \/ TcpStopped \/ Unload \/ DestroyMembers

HttpThread ==
  \/ \E route \in Route : Request(route)
  \/ RequestRaces \/ RequestDone \/ HttpEnds

TcpThreads == ServerThreads /\ UNCHANGED <<bridgeVars, managerVars>>

Next == MainThread \/ Newline \/ EndOfInput \/ HttpThread \/ TcpThreads

\* The threads run, handlers and callbacks return or end the program, and the
\* loop of the HTTP server looks at its flag between requests.  Neither Newline nor
\* EndOfInput need ever happen.
Fairness ==
  /\ WF_vars(MainThread) /\ WF_vars(RequestDone) /\ SF_vars(HttpEnds)
  /\ LoopFairness

Spec == Init /\ [][Next]_vars /\ Fairness

-----------------------------------------------------------------------------
\* A thread is in a handler or a callback only while the plugin has not been
\* deleted and its library is open: both servers are stopped, and their threads
\* waited for, before the manager is deleted.
PluginCodeLoaded ==
  (http = "onRequest" \/ \E w \in Worker : InCallback(w)) =>
    /\ opened[PluginFile] > 0
    /\ plugin # {} /\ plugin \subseteq DOMAIN objects

\* No run that added a route ends well: the router outlives the library of the
\* functions in it.
ExitsOnlyWithoutRoutes == fate = "exited" => router = {}

\* After a line was read the program ends, whatever clients do meanwhile.
TeardownCompletes == main = "stopHttp" ~> ~Runs

\* A lookup meets a half-written router only while Run adds the plugin's routes,
\* before there is a TCP server: once clients are served, requests are safe.
RacesOnlyBeforeTcp ==
  fate = "raced" => main = "addRoutes" /\ adding # {} /\ loop[Acceptor] = "none"

\* At the end of its input the program serves on as if it waited for a line: a
\* connection it has accepted is still announced to the plugin, unless a callback throws.
ServesAtEndOfInput ==
  \A c \in Connection :
    (main = "eof" /\ conn[c] = "posted") ~> (conn[c] = "open" \/ fate = "threw")
=============================================================================
