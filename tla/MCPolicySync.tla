---------------------------- MODULE MCPolicySync ----------------------------
(* Instances of PolicySync for TLC. *)
EXTENDS PolicySync

Bound(saves, refreshes, faults, restarts) ==
  [saves |-> saves, refreshes |-> refreshes, faults |-> faults, restarts |-> restarts]

(* Two saves; a save and a fault, or a put that outlives a restart; and a *)
(* refresh.                                                                *)
MCBudgets == {Bound(2, 0, 0, 0), Bound(1, 0, 1, 1), Bound(0, 1, 1, 0)}
=============================================================================
