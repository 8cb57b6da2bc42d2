SPECIFICATION MCSpec
CONSTANT
  MaxReads = 3
INVARIANTS
  ScriptsTypeOK
  SmokeReportsTrue
  InstallReportsTrue
PROPERTY
  ReEnablesOldOnly
CHECK_DEADLOCK FALSE
