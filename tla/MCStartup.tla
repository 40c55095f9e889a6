----------------------------- MODULE MCStartup -----------------------------
(***************************************************************************)
(* Startup for TLC: how often each node may be started.  Node 0 never has  *)
(* to be, and the last client, which may be killed, stays dead.            *)
(***************************************************************************)
EXTENDS Startup

LastOnce == [n \in Nodes |-> IF n \in {Server, NumNodes - 1} THEN 1 ELSE 2]
=============================================================================
