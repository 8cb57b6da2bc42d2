SPECIFICATION Spec
CONSTANTS
  SourceIds <- MCSourceIds
  Documents <- MCDocuments
  Keys <- MCKeys
  Sources = {c1, c2}
  Authorities = {c3}
  SourceInputs <- MCSourceInputs
  AuthorityInputs <- MCAuthorityInputs
  InitialFiles <- MCFiles
  Boundaries <- MCBoundaries
  ReadsFail = TRUE
  MaxRestarts = 1
  MaxChanges = 1
INVARIANTS
  RegistryTypeOK
  RegistryConsistent
  AnswersAccessible
PROPERTIES
  LossHasCause
CHECK_DEADLOCK FALSE
