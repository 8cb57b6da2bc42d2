---------------------------- MODULE MCNoteWrites ----------------------------
(* Instances of NoteWrites: the policies the user may publish. *)
EXTENDS NoteWrites, FiniteSets

CONSTANT Rivals   \* of these calls at most one is made in a behaviour

OneRival == Cardinality({c \in Rivals : pc[c] # "idle"}) <= 1

Policy(o, t, n) == [op |-> o, tagging |-> t, notebook |-> n]

(* For a confirmed call the last two each forbid what the other permits. *)
MCPolicies ==
  {Policy("allow", "always", "allow"), Policy("confirm", "off", "deny"), Policy("deny", "ask", "allow")}

(* The user reconsiders the operation and nothing else. *)
MCOperationOnly ==
  {Policy("allow", "off", "allow"), Policy("confirm", "off", "allow"), Policy("deny", "off", "allow")}
=============================================================================
