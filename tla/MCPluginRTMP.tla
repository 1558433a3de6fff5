----------------------------- MODULE MCPluginRTMP -----------------------------
(* Room for one connection, and two workers that look at the number of        *)
(* channels at once.                                                          *)
EXTENDS PluginRTMP
=============================================================================
