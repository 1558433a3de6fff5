------------------------------ MODULE MCTcpServerCalls ------------------------------
(* Two workers and three connections: one worker gets two of them.           *)
EXTENDS TcpServerCalls
=============================================================================
