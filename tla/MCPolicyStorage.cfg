SPECIFICATION StorageSpec
CONSTANTS
  Task = {r1, s1, s2}
  Rivals = {}
  Reloads = {r1}
  Saves = {s1, s2}
  InvalidSaves = {s2}
  Audits = {}
  Straying = {}
  NoCall = NoCall
  MaxWaits = 20
  MaxAudit = 3
  MaxCrashes = 1
  HostDrops = TRUE
  InitialFiles <- MCFirstRuns
  OldEntries = {"old1", "old2", "legacy1"}
  LegacyPolicy = "legacy"
  LegacyAudit <- MCLegacyAudit
INVARIANTS
  StorageTypeOK
  FailClosed
  NotSavedNeverStored
  LegacyReadOnlyOnce
PROPERTIES
  StoredPolicyKept
  SavedIsStored
CHECK_DEADLOCK FALSE
