------------------------- MODULE MCPluginManagerCalls -------------------------
(* Two libraries, two names and up to three plugins alive: a library loaded  *)
(* twice under one name and under two, and two libraries under one name.     *)
EXTENDS PluginManagerCalls
=============================================================================
