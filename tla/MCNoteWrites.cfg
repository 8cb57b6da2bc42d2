SPECIFICATION Spec
CONSTANTS
  Updates = {u1}
  Edits = {e1}
  Appends = {p1}
  Taggings = {g1}
  Rivals = {p1, g1}
  Confirmed = {u1, p1}
  Deciding = {p1}
  UserEdits = {h1}
  PolicyChoices <- MCPolicies
  MaxPublished = 1
CONSTRAINT OneRival
INVARIANTS
  TypeOK
  DriftStopsWrite
  EditsFollowPolicy
PROPERTIES
  ImplementsSafeWrite
CHECK_DEADLOCK FALSE
