SPECIFICATION FairStorageSpec
CONSTANTS
  Task = {a1, a2, r1, s1}
  Rivals = {a2, r1, s1}
  Reloads = {r1}
  Saves = {s1}
  InvalidSaves = {}
  Audits = {a1, a2}
  Straying = {}
  NoCall = NoCall
  MaxWaits = 20
  MaxAudit = 3
  MaxCrashes = 0
  HostDrops = FALSE
  InitialFiles <- MCUpgraded
  OldEntries = {"old1", "old2", "legacy1"}
  LegacyPolicy = "missing"
  LegacyAudit <- MCLegacyAudit
CONSTRAINT OneRival
PROPERTIES
  MissesCounted
  HistoryKept
  EveryCallAnswered
CHECK_DEADLOCK FALSE
