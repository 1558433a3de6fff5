---------------------------- MODULE PluginManager ----------------------------
(***************************************************************************)
(* PluginManager and the dynamic loader it calls.  The loader hands out the *)
(* same handle each time a file is opened and counts how often it is open;  *)
(* the code of a library can run while that count is not zero.              *)
(***************************************************************************)
EXTENDS Naturals, FiniteSets, Functions

CONSTANTS
  File,     \* the libraries that can be loaded
  Name,     \* the names plugins give themselves
  Object    \* bound: the plugin objects that install() can make

VARIABLES
  plugins,  \* the map: name -> handle (the file it is of) and plugin
  opened,   \* the loader's count for each file
  objects   \* the plugin objects not deleted -> the file whose code they run

managerVars == <<plugins, opened, objects>>

PluginData == [pluginHandle : File, plugin : Object]

ManagerTypeOK ==
  /\ DOMAIN plugins \subseteq Name
  /\ plugins \in [DOMAIN plugins -> PluginData]
  /\ opened \in [File -> Nat]
  /\ DOMAIN objects \subseteq Object
  /\ objects \in [DOMAIN objects -> File]

ManagerInit ==
  /\ plugins = [n \in {} |-> [pluginHandle |-> "none", plugin |-> "none"]]
  /\ opened = [f \in File |-> 0]
  /\ objects = [o \in {} |-> "none"]

-----------------------------------------------------------------------------
\* Mutant: the plugin that had the name is deleted, which looks like a leak fixed.
Load_DeletesOld(file, name, object) ==
  LET old == IF name \in DOMAIN plugins THEN {plugins[name].plugin} ELSE {}
  IN  /\ object \notin DOMAIN objects
      /\ opened' = [opened EXCEPT ![file] = @ + 1]
      /\ objects' = [o \in (DOMAIN objects \ old) \cup {object} |->
                       IF o = object THEN file ELSE objects[o]]
      /\ plugins' = [n \in DOMAIN plugins \cup {name} |->
                       IF n = name THEN [pluginHandle |-> file, plugin |-> object]
                       ELSE plugins[n]]

\* install() makes an object of the library's code.  (A file that cannot be opened,
\* or that has no Install and is closed again, changes nothing.)  A plugin of the same name
\* that was in the map is forgotten, neither deleted nor closed.
Load(file, name, object) ==
  /\ object \notin DOMAIN objects
  /\ opened' = [opened EXCEPT ![file] = @ + 1]
  /\ objects' = [o \in DOMAIN objects \cup {object} |->
                   IF o = object THEN file ELSE objects[o]]
  /\ plugins' = [n \in DOMAIN plugins \cup {name} |->
                   IF n = name THEN [pluginHandle |-> file, plugin |-> object]
                   ELSE plugins[n]]

\* Mutant: the entry is not erased.
UnloadPlugin_NotErased(name) ==
  /\ name \in DOMAIN plugins
  /\ objects' = Restrict(objects, DOMAIN objects \ {plugins[name].plugin})
  /\ opened' = [opened EXCEPT ![plugins[name].pluginHandle] = @ - 1]
  /\ UNCHANGED plugins

\* Mutant: the library is not closed.
UnloadPlugin_NotClosed(name) ==
  /\ name \in DOMAIN plugins
  /\ objects' = Restrict(objects, DOMAIN objects \ {plugins[name].plugin})
  /\ plugins' = Restrict(plugins, DOMAIN plugins \ {name})
  /\ UNCHANGED opened

\* The plugin is deleted, then its library closed, then the entry erased.
\* (An unknown name is logged and nothing changes.)
UnloadPlugin(name) ==
  /\ name \in DOMAIN plugins
  /\ objects' = Restrict(objects, DOMAIN objects \ {plugins[name].plugin})
  /\ opened' = [opened EXCEPT ![plugins[name].pluginHandle] = @ - 1]
  /\ plugins' = Restrict(plugins, DOMAIN plugins \ {name})

\* ~PluginManager does the same for every entry and erases none.
UnloadAllPlugins ==
  /\ objects' = Restrict(objects, {o \in DOMAIN objects :
                                     \A n \in DOMAIN plugins : plugins[n].plugin # o})
  /\ opened' = [f \in File |->
       opened[f] - Cardinality({n \in DOMAIN plugins : plugins[n].pluginHandle = f})]
  /\ UNCHANGED plugins
=============================================================================
