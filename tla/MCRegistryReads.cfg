SPECIFICATION Spec
CONSTANTS
  SourceIds <- MCSourceIds
  Documents <- MCDocuments
  Keys <- MCKeys
  Sources = {c1, c2}
  Authorities = {}
  SourceInputs <- MCSourceInputs
  AuthorityInputs <- MCAuthorityInputs
  InitialFiles <- MCFiles
  Boundaries <- MCBoundaries
  ReadsFail = TRUE
  MaxRestarts = 0
  MaxChanges = 0
PROPERTIES
  RecordsKept
CHECK_DEADLOCK FALSE
