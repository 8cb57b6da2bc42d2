-------------------------- MODULE MCPolicyTaskQueue --------------------------
(* Three calls, each making up to two host requests. *)
EXTENDS PolicyTaskQueue
=============================================================================
