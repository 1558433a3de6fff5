------------------------------ MODULE MCAVBridge ------------------------------
(* One plugin with up to two routes, two TCP workers, two connections.       *)
EXTENDS AVBridge
=============================================================================
