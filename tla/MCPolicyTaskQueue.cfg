SPECIFICATION FairSpec
CONSTANTS
  Task = {t1, t2, t3}
  Straying = {t2}
  MaxWaits = 2
INVARIANTS
  TypeOK
PROPERTIES
  OwnershipSpec
  RefusalsHaveCause
  EveryCallSettles
CHECK_DEADLOCK FALSE
