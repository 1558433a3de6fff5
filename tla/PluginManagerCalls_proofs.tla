---------------------- MODULE PluginManagerCalls_proofs ----------------------
(***************************************************************************)
(* The properties of PluginManagerCalls for any libraries, names and        *)
(* number of objects.                                                       *)
(***************************************************************************)
EXTENDS PluginManagerCalls, FiniteSetTheorems, TLAPS

\* The plugins that live and run code of the file, and the entries for it.
Of(file) == {o \in DOMAIN objects : objects[o] = file}
EntriesOf(file) == {n \in DOMAIN plugins : plugins[n].pluginHandle = file}

\* A plugin that was given and is still in the map is there under the name it
\* was given by, so that deleting another entry does not delete it.
GivenByTheirNames ==
  \A g \in given : \A n \in DOMAIN plugins :
    plugins[n].plugin = g.plugin => n = g.name

Finite == IsFiniteSet(DOMAIN objects) /\ IsFiniteSet(DOMAIN plugins)

Inv ==
  /\ TypeOK
  /\ Finite
  /\ OpenAsOftenAsItHasPlugins
  /\ EntriesOwnTheirPlugins
  /\ GivenPluginsLive
  /\ GivenByTheirNames

-----------------------------------------------------------------------------
LEMMA InitInv == Init => Inv
<1> SUFFICES ASSUME Init PROVE Inv
  OBVIOUS
<1> USE DEF Init, ManagerInit
<1>1. DOMAIN objects = {} /\ DOMAIN plugins = {} /\ given = {}
  OBVIOUS
<1>2. TypeOK
  BY <1>1 DEF TypeOK, ManagerTypeOK
<1>3. OpenAsOftenAsItHasPlugins
  BY <1>1, FS_EmptySet DEF OpenAsOftenAsItHasPlugins
<1> QED
  BY <1>1, <1>2, <1>3, FS_EmptySet
  DEF Inv, Finite, EntriesOwnTheirPlugins, GivenPluginsLive, GivenByTheirNames

\* Loading adds one object and one opening of its library.
LEMMA LoadInv ==
  ASSUME Inv, NEW file \in File, NEW name \in Name, NEW object \in Object,
         LoadPlugin(file, name, object)
  PROVE  Inv'
<1> USE DEF LoadPlugin, Load
<1>1. /\ DOMAIN objects' = DOMAIN objects \cup {object}
      /\ DOMAIN plugins' = DOMAIN plugins \cup {name}
      /\ object \notin DOMAIN objects
  OBVIOUS
<1>2. \A o \in DOMAIN objects' : objects'[o] = IF o = object THEN file ELSE objects[o]
  OBVIOUS
<1>3. \A n \in DOMAIN plugins' :
        plugins'[n] = IF n = name THEN [pluginHandle |-> file, plugin |-> object]
                      ELSE plugins[n]
  OBVIOUS
<1>4. TypeOK'
  BY DEF Inv, TypeOK, ManagerTypeOK, PluginData
<1>5. Finite'
  BY <1>1, FS_AddElement DEF Inv, Finite
<1>6. OpenAsOftenAsItHasPlugins'
  <2> SUFFICES ASSUME NEW f \in File
               PROVE  opened'[f] = Cardinality(Of(f)')
    BY DEF OpenAsOftenAsItHasPlugins, Of
  <2>1. IsFiniteSet(Of(f)) /\ opened[f] = Cardinality(Of(f))
    BY FS_Subset DEF Inv, Finite, OpenAsOftenAsItHasPlugins, Of
  <2>2. CASE f = file
    <3>1. Of(f)' = Of(f) \cup {object} /\ object \notin Of(f)
      BY <1>1, <1>2, <2>2 DEF Of
    <3>2. opened'[f] = opened[f] + 1
      BY <2>2 DEF Inv, TypeOK, ManagerTypeOK
    <3> QED
      BY <2>1, <3>1, <3>2, FS_AddElement
  <2>3. CASE f # file
    <3>1. Of(f)' = Of(f)
      BY <1>1, <1>2, <2>3 DEF Of
    <3>2. opened'[f] = opened[f]
      BY <2>3 DEF Inv, TypeOK, ManagerTypeOK
    <3> QED
      BY <2>1, <3>1, <3>2
  <2> QED
    BY <2>2, <2>3
<1>7. EntriesOwnTheirPlugins'
  BY <1>1, <1>2, <1>3 DEF Inv, EntriesOwnTheirPlugins
<1>8. GivenPluginsLive'
  BY <1>1 DEF Inv, GivenPluginsLive
<1>9. GivenByTheirNames'
  <2> SUFFICES ASSUME NEW g \in given', NEW n \in DOMAIN plugins',
                      plugins'[n].plugin = g.plugin
               PROVE  n = g.name
    BY DEF GivenByTheirNames
  <2>1. n # name => plugins[n].plugin \in DOMAIN objects
    BY <1>1 DEF Inv, EntriesOwnTheirPlugins
  <2>2. g \in given => g.plugin # object
    BY <1>1 DEF Inv, GivenPluginsLive
  <2> QED
    BY <1>1, <1>3, <2>1, <2>2 DEF Inv, GivenByTheirNames
<1> QED
  BY <1>4, <1>5, <1>6, <1>7, <1>8, <1>9 DEF Inv

\* Unloading removes one object and one opening of its library.
LEMMA UnloadInv ==
  ASSUME Inv, NEW name \in Name, Unload(name)
  PROVE  Inv'
<1> DEFINE object == plugins[name].plugin
           file == plugins[name].pluginHandle
<1>0. ~gone /\ gone' = gone /\ name \in DOMAIN plugins
  BY DEF Unload, UnloadPlugin
<1>1. /\ object \in DOMAIN objects /\ objects[object] = file
      /\ \A n \in DOMAIN plugins : plugins[n].plugin = object => n = name
  BY <1>0 DEF Inv, EntriesOwnTheirPlugins
<1>2. /\ DOMAIN objects' = DOMAIN objects \ {object}
      /\ \A o \in DOMAIN objects' : objects'[o] = objects[o]
      /\ DOMAIN plugins' = DOMAIN plugins \ {name}
      /\ \A n \in DOMAIN plugins' : plugins'[n] = plugins[n]
      /\ opened' = [opened EXCEPT ![file] = @ - 1]
      /\ given' = {g \in given : g.name # name}
  BY DEF Unload, UnloadPlugin, Restrict
<1>3. file \in File
  BY <1>0 DEF Inv, TypeOK, ManagerTypeOK, PluginData
<1>4. Finite'
  BY <1>2, FS_RemoveElement DEF Inv, Finite
<1>5. OpenAsOftenAsItHasPlugins'
  <2> SUFFICES ASSUME NEW f \in File
               PROVE  opened'[f] = Cardinality(Of(f)')
    BY DEF OpenAsOftenAsItHasPlugins, Of
  <2>1. IsFiniteSet(Of(f)) /\ opened[f] = Cardinality(Of(f))
    BY FS_Subset DEF Inv, Finite, OpenAsOftenAsItHasPlugins, Of
  <2>2. CASE f = file
    <3>1. Of(f)' = Of(f) \ {object} /\ object \in Of(f)
      BY <1>1, <1>2, <2>2 DEF Of
    <3>2. opened'[f] = opened[f] - 1
      BY <1>2, <2>2 DEF Inv, TypeOK, ManagerTypeOK
    <3> QED
      BY <2>1, <3>1, <3>2, FS_RemoveElement
  <2>3. CASE f # file
    <3>1. Of(f)' = Of(f)
      BY <1>1, <1>2, <2>3 DEF Of
    <3>2. opened'[f] = opened[f]
      BY <1>2, <2>3 DEF Inv, TypeOK, ManagerTypeOK
    <3> QED
      BY <2>1, <3>1, <3>2
  <2> QED
    BY <2>2, <2>3
<1>6. TypeOK'
  <2>1. \A f \in File : opened'[f] \in Nat
    BY <1>4, <1>5, FS_Subset, FS_CardinalityType DEF Finite, OpenAsOftenAsItHasPlugins
  <2>2. opened' \in [File -> Nat]
    BY <1>2, <2>1 DEF Inv, TypeOK, ManagerTypeOK
  <2>3. plugins' \in [DOMAIN plugins' -> PluginData] /\ DOMAIN plugins' \subseteq Name
    BY DEF Inv, TypeOK, ManagerTypeOK, Unload, UnloadPlugin, Restrict
  <2>4. objects' \in [DOMAIN objects' -> File] /\ DOMAIN objects' \subseteq Object
    BY DEF Inv, TypeOK, ManagerTypeOK, Unload, UnloadPlugin, Restrict
  <2>5. given' \subseteq [name : Name, plugin : Object] /\ gone' \in BOOLEAN
    BY <1>0, <1>2 DEF Inv, TypeOK
  <2> QED
    BY <2>2, <2>3, <2>4, <2>5 DEF TypeOK, ManagerTypeOK
<1>7. EntriesOwnTheirPlugins'
  BY <1>0, <1>1, <1>2 DEF Inv, EntriesOwnTheirPlugins
<1>8. GivenPluginsLive'
  BY <1>0, <1>2 DEF Inv, GivenPluginsLive, GivenByTheirNames
<1>9. GivenByTheirNames'
  BY <1>2 DEF Inv, GivenByTheirNames
<1> QED
  BY <1>4, <1>5, <1>6, <1>7, <1>8, <1>9 DEF Inv

LEMMA GetInv ==
  ASSUME Inv, NEW name \in Name, GetPluginByName(name)
  PROVE  Inv'
<1> USE DEF GetPluginByName, managerVars
<1>1. plugins[name].plugin \in DOMAIN objects
  BY DEF Inv, EntriesOwnTheirPlugins
<1>2. TypeOK'
  BY DEF Inv, TypeOK, ManagerTypeOK, PluginData
<1>3. GivenByTheirNames'
  BY DEF Inv, GivenByTheirNames, EntriesOwnTheirPlugins
<1> QED
  BY <1>1, <1>2, <1>3
  DEF Inv, Finite, OpenAsOftenAsItHasPlugins, EntriesOwnTheirPlugins, GivenPluginsLive

\* The destructor closes a library once for each of its entries, and deletes as
\* many plugins of it: entries and the plugins they own match one to one.
LEMMA DestroyInv ==
  ASSUME Inv, Destroy
  PROVE  Inv'
<1> DEFINE Owned(f) == {o \in Of(f) : \E n \in DOMAIN plugins : plugins[n].plugin = o}
<1>1. /\ \A n \in DOMAIN plugins :
           /\ plugins[n].plugin \in DOMAIN objects
           /\ objects[plugins[n].plugin] = plugins[n].pluginHandle
      /\ \A m, n \in DOMAIN plugins : plugins[m].plugin = plugins[n].plugin => m = n
  BY DEF Destroy, Inv, EntriesOwnTheirPlugins
<1>2. /\ DOMAIN objects' = {o \in DOMAIN objects :
                              \A n \in DOMAIN plugins : plugins[n].plugin # o}
      /\ \A o \in DOMAIN objects' : objects'[o] = objects[o]
      /\ opened' = [f \in File |-> opened[f] - Cardinality(EntriesOf(f))]
      /\ plugins' = plugins /\ given' = {} /\ gone' = TRUE
  BY DEF Destroy, UnloadAllPlugins, Restrict, EntriesOf
<1>3. Finite'
  BY <1>2, FS_Subset DEF Inv, Finite
<1>4. OpenAsOftenAsItHasPlugins'
  <2> SUFFICES ASSUME NEW f \in File
               PROVE  opened'[f] = Cardinality(Of(f)')
    BY DEF OpenAsOftenAsItHasPlugins, Of
  <2>1. IsFiniteSet(Of(f)) /\ opened[f] = Cardinality(Of(f))
    BY FS_Subset DEF Inv, Finite, OpenAsOftenAsItHasPlugins, Of
  <2>2. IsFiniteSet(EntriesOf(f))
    BY FS_Subset DEF Inv, Finite, EntriesOf
  <2>3. Cardinality(Owned(f)) = Cardinality(EntriesOf(f))
    <3> DEFINE own == [n \in EntriesOf(f) |-> plugins[n].plugin]
    <3>1. own \in [EntriesOf(f) -> Owned(f)]
      BY <1>1 DEF EntriesOf, Of
    <3>2. \A m, n \in EntriesOf(f) : own[m] = own[n] => m = n
      BY <1>1 DEF EntriesOf
    <3>3. \A o \in Owned(f) : \E n \in EntriesOf(f) : own[n] = o
      BY <1>1 DEF EntriesOf, Of
    <3>4. ExistsBijection(EntriesOf(f), Owned(f))
      <4> HIDE DEF own
      <4>1. own \in Bijection(EntriesOf(f), Owned(f))
        BY <3>1, <3>2, <3>3 DEF Bijection, Injection, Surjection, IsInjective
      <4> QED
        BY <4>1 DEF ExistsBijection
    <3> QED
      BY <2>2, <3>4, FS_Bijection
  <2>4. Of(f)' = Of(f) \ Owned(f) /\ Of(f) \cap Owned(f) = Owned(f)
    BY <1>2 DEF Of
  <2>5. Cardinality(Of(f)') = Cardinality(Of(f)) - Cardinality(Owned(f))
    <3> HIDE DEF Owned
    <3>1. Cardinality(Of(f) \ Owned(f)) = Cardinality(Of(f)) - Cardinality(Of(f) \cap Owned(f))
      BY <2>1, FS_Difference
    <3> QED
      BY <2>4, <3>1
  <2> QED
    BY <1>2, <2>1, <2>3, <2>5
<1>5. TypeOK'
  <2>1. \A f \in File : opened'[f] \in Nat
    BY <1>3, <1>4, FS_Subset, FS_CardinalityType DEF Finite, OpenAsOftenAsItHasPlugins
  <2>2. opened' \in [File -> Nat]
    BY <1>2, <2>1
  <2>3. objects' \in [DOMAIN objects' -> File] /\ DOMAIN objects' \subseteq Object
    BY DEF Inv, TypeOK, ManagerTypeOK, Destroy, UnloadAllPlugins, Restrict
  <2> QED
    BY <1>2, <2>2, <2>3 DEF Inv, TypeOK, ManagerTypeOK
<1> QED
  BY <1>2, <1>3, <1>4, <1>5
  DEF Inv, EntriesOwnTheirPlugins, GivenPluginsLive, GivenByTheirNames

LEMMA NextInv == Inv /\ [Next]_vars => Inv'
<1> SUFFICES ASSUME Inv, [Next]_vars PROVE Inv'
  OBVIOUS
<1>1. ASSUME NEW file \in File, NEW name \in Name, NEW object \in Object,
             LoadPlugin(file, name, object)
      PROVE  Inv'
  BY <1>1, LoadInv
<1>2. ASSUME NEW name \in Name, Unload(name) PROVE Inv'
  BY <1>2, UnloadInv
<1>3. ASSUME NEW name \in Name, GetPluginByName(name) PROVE Inv'
  BY <1>3, GetInv
<1>4. CASE Destroy
  BY <1>4, DestroyInv
<1>5. CASE UNCHANGED vars
  BY <1>5
  DEF vars, managerVars, Inv, TypeOK, ManagerTypeOK, Finite, OpenAsOftenAsItHasPlugins,
      EntriesOwnTheirPlugins, GivenPluginsLive, GivenByTheirNames
<1> QED
  BY <1>1, <1>2, <1>3, <1>4, <1>5 DEF Next

\* Inv always holds.
THEOREM InvHolds == Spec => []Inv
BY InitInv, NextInv, PTL DEF Spec

\* The types of TypeOK, and with them that no library is closed more often than
\* it was opened (PluginManager.h:126).
THEOREM TypeCorrect == Spec => []TypeOK
<1>1. Inv => TypeOK
  BY DEF Inv
<1> QED
  BY <1>1, InvHolds, PTL

\* A library is open exactly as often as plugins of it live, through loads of one
\* name over another, unloading and the destructor (PluginManager.cpp:47, :60).
THEOREM LibrariesOpenForTheirPlugins == Spec => []OpenAsOftenAsItHasPlugins
<1>1. Inv => OpenAsOftenAsItHasPlugins
  BY DEF Inv
<1> QED
  BY <1>1, InvHolds, PTL

\* Every entry of the map has a live plugin of its own (PluginManager.cpp:55).
THEOREM EntriesNeverShare == Spec => []EntriesOwnTheirPlugins
<1>1. Inv => EntriesOwnTheirPlugins
  BY DEF Inv
<1> QED
  BY <1>1, InvHolds, PTL

\* A pointer to a plugin stays good until its name is unloaded
\* (PluginManager.cpp:48, :73).
THEOREM GivenPluginsStayAlive == Spec => []GivenPluginsLive
<1>1. Inv => GivenPluginsLive
  BY DEF Inv
<1> QED
  BY <1>1, InvHolds, PTL
=============================================================================
