SPECIFICATION Spec
CONSTANTS
  Updates = {u1}
  Edits = {}
  Appends = {}
  Taggings = {}
  Rivals = {}
  Confirmed = {}
  Deciding = {}
  UserEdits = {}
  PolicyChoices <- MCOperationOnly
  MaxPublished = 1
INVARIANTS
  UpdatesFollowPolicy
CHECK_DEADLOCK FALSE
