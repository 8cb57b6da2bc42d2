SPECIFICATION MCSpec
CONSTANTS
  Hashes = {h1, h2}
  None = None
  Previews = {p1}
  Confirms = {c1, c2}
  Others = {a1}
  AuditCap = 3
  ReadLimit = 2
  MaxRestarts = 1
  Runs = {x1, x2, x3}
  MaxClock = 2
SYMMETRY Symmetry
INVARIANTS
  TransactionsTypeOK
  SuccessIsStored
PROPERTIES
  ReadsSeeAnswered
  ImplementsDecideOnce
  ForgettingHasCause
CHECK_DEADLOCK FALSE
