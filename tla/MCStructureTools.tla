--------------------------- MODULE MCStructureTools ---------------------------
(***************************************************************************)
(* Instances of StructureTools: two notebooks; a document and a possible   *)
(* parent at their roots; a rename and the moves asked for.                *)
(***************************************************************************)
EXTENDS StructureTools, FiniteSets

CONSTANTS Note, Folder, A, B,
          Rivals   \* of these calls at most one is made in a behaviour

OneRival == Cardinality({c \in Rivals : pc[c] # "idle"}) <= 1

Node(box, path, title) == [box |-> box, path |-> path, title |-> title, updated |-> 0]

MCTrees ==
  { [x \in {Note, Folder} |-> IF x = Note THEN Node(A, <<Note>>, "x") ELSE Node(A, <<Folder>>, "z")],
    [x \in {Note, Folder} |-> IF x = Note THEN Node(A, <<Note>>, "x") ELSE Node(B, <<Folder>>, "y")] }

MCRenames == { [doc |-> Note, title |-> "y"] }

MCMoves ==
  { [doc |-> Note, box |-> B, parent |-> NoDoc],
    [doc |-> Note, box |-> A, parent |-> Folder] }

MCDoomed == [c \in Deletes |-> [doc |-> Note, title |-> "x"]]

Policy(op, cross, delete, allowed) ==
  [rename |-> op, move |-> op, cross |-> cross, delete |-> delete, allowed |-> allowed]

MCPolicies ==
  { Policy("allow", "confirm", "confirm", {A, B}),
    Policy("confirm", "deny", "deny", {A}) }
=============================================================================
