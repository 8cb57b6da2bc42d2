SPECIFICATION FairSpec
CONSTANTS
  Windows = {a, b}
  Policies = {D, P, Q}
  Default = D
  Stored = P
  None = None
  MayFail = TRUE
  Budgets <- MCBudgets
INVARIANTS
  SyncTypeOK
  StaleHasCause
PROPERTIES
  ReportsTrue
  DivergenceOutlives
  DockSettles
CHECK_DEADLOCK FALSE
