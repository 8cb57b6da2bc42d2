SPECIFICATION MCSpec
CONSTANTS
  Hashes = {h1, h2}
  None = None
  Previews = {}
  Confirms = {}
  Others = {}
  AuditCap = 1
  ReadLimit = 1
  MaxRestarts = 0
  Runs = {x1, x2, x3}
  MaxClock = 1
INVARIANTS
  FailedStaysFailed
CHECK_DEADLOCK FALSE
