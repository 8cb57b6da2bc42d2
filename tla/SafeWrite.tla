------------------------------ MODULE SafeWrite ------------------------------
(***************************************************************************)
(* What the write tools promise (README.md:132): a refusal means nothing   *)
(* was written, and never will be; an unknown outcome means the write may  *)
(* have been applied, now or later; a transaction is committed only when   *)
(* its write has been applied; a write is made at most once.               *)
(***************************************************************************)
CONSTANTS
  Writer,   \* the calls that write a body
  Verified  \* those that read it back: the Safe Write Transactions

VARIABLES
  stage,    \* what each call has come to
  written   \* the calls whose write has been applied

Init ==
  /\ stage = [c \in Writer |-> "pending"]
  /\ written = {}

Move(c, from, to) ==
  /\ stage[c] = from
  /\ stage' = [stage EXCEPT ![c] = to]
  /\ UNCHANGED written

Refuse(c) == Move(c, "pending", "refused")

Execute(c) == Move(c, "pending", "executing")

Commit(c) ==
  /\ c \in Verified => c \in written
  /\ Move(c, "executing", "committed")

GiveUp(c) == Move(c, "executing", "unknown")

Reject(c) == c \in Verified /\ Move(c, "executing", "mismatched")

Apply(c) ==
  /\ c \notin written
  /\ stage[c] \notin {"pending", "refused"}
  /\ written' = written \cup {c}
  /\ UNCHANGED stage

Next ==
  \E c \in Writer : Refuse(c) \/ Execute(c) \/ Commit(c) \/ GiveUp(c) \/ Reject(c) \/ Apply(c)

Spec == Init /\ [][Next]_<<stage, written>>
=============================================================================
