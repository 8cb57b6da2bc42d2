SPECIFICATION FairSpec
CONSTANTS
  Note = Note
  Folder = Folder
  A = A
  B = B
  Doc = {Note, Folder}
  Notebook = {A, B}
  InitialTrees <- MCTrees
  Renames <- MCRenames
  Moves <- MCMoves
  Previews = {w1}
  Executions = {c1, c2}
  Deletes = {x1}
  Rivals = {c1, x1}
  Doomed <- MCDoomed
  Confirmed = {c2, x1}
  NoDoc = NoDoc
  NoCall = NoCall
  UserTitles = {"y"}
  PolicyChoices <- MCPolicies
  MaxPolls = 2
  MaxActs = 1
  MaxPublished = 1
CONSTRAINT OneRival
INVARIANTS
  TypeOK
  WritesFollowPolicy
  OutcomesTrue
PROPERTIES
  ImplementsTickets
  VerificationEnds
CHECK_DEADLOCK FALSE
