-------------------------- MODULE PluginManagerCalls --------------------------
(***************************************************************************)
(* One PluginManager, any sequence of its calls by one thread, and then its *)
(* destructor.  Libraries may share a name, and a library may be loaded     *)
(* more than once.                                                          *)
(***************************************************************************)
EXTENDS PluginManager

VARIABLES
  given,   \* the pointers callers were given, under the name they are known by
  gone     \* has the manager been destroyed?

vars == <<managerVars, given, gone>>

TypeOK ==
  /\ ManagerTypeOK
  /\ given \subseteq [name : Name, plugin : Object]
  /\ gone \in BOOLEAN

Init ==
  /\ ManagerInit
  /\ given = {}
  /\ gone = FALSE

LoadPlugin(file, name, object) ==
  /\ ~gone
  /\ Load(file, name, object)
  /\ given' = given \cup {[name |-> name, plugin |-> object]}
  /\ UNCHANGED gone

\* Whoever unloads a name gives up the pointers of that name.
Unload(name) ==
  /\ ~gone
  /\ UnloadPlugin(name)
  /\ given' = {g \in given : g.name # name}
  /\ UNCHANGED gone

GetPluginByName(name) ==
  /\ ~gone
  /\ name \in DOMAIN plugins
  /\ given' = given \cup {[name |-> name, plugin |-> plugins[name].plugin]}
  /\ UNCHANGED <<managerVars, gone>>

Destroy ==
  /\ ~gone
  /\ UnloadAllPlugins
  /\ given' = {}
  /\ gone' = TRUE

Next ==
  \/ \E file \in File, name \in Name, object \in Object :
       LoadPlugin(file, name, object)
  \/ \E name \in Name : Unload(name) \/ GetPluginByName(name)
  \/ Destroy

Spec == Init /\ [][Next]_vars

-----------------------------------------------------------------------------
\* A library is open exactly as often as plugins of it live, those that a later
\* one of the same name pushed out of the map included: no plugin, not even a
\* forgotten one, outlives its code, and no library stays open without a plugin.
OpenAsOftenAsItHasPlugins ==
  \A file \in File :
    opened[file] = Cardinality({o \in DOMAIN objects : objects[o] = file})

\* While the manager lives, every entry has a plugin of its own, not deleted, of
\* the library in the entry: nothing is deleted or closed twice.
EntriesOwnTheirPlugins == ~gone =>
  \A n \in DOMAIN plugins :
    /\ plugins[n].plugin \in DOMAIN objects
    /\ objects[plugins[n].plugin] = plugins[n].pluginHandle
    /\ \A m \in DOMAIN plugins : plugins[m].plugin = plugins[n].plugin => m = n

\* A pointer from LoadPlugin or GetPluginByName stays good until a plugin of its
\* name is unloaded, even if another one of that name has been loaded since.
GivenPluginsLive == \A g \in given : g.plugin \in DOMAIN objects
=============================================================================
