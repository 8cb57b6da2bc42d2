--------------------------- MODULE WriteOwnership ---------------------------
(***************************************************************************)
(* What PolicyTaskQueue promises its users (src/src/policy-sync.ts:23):    *)
(* "A deadline ends the caller's wait, not the host request or its write   *)
(* ownership."  Ownership of the host storage is held by at most one call. *)
(* It is taken only when nobody holds it, and it is given up as a whole.   *)
(***************************************************************************)
CONSTANT Task

VARIABLE owners

Init == owners = {}

Acquire(t) == owners = {} /\ owners' = {t}

Release(t) == owners = {t} /\ owners' = {}

Next == \E t \in Task : Acquire(t) \/ Release(t)

Spec == Init /\ [][Next]_owners
=============================================================================
