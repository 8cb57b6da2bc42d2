--------------------------- MODULE MCPolicyStorage ---------------------------
(***************************************************************************)
(* Instances of PolicyStorage.  MCFirstRuns: what the current directory    *)
(* may hold when the plugin starts: nothing, a policy, a half-done         *)
(* migration, markers of older versions, unreadable files.                 *)
(***************************************************************************)
EXTENDS PolicyStorage

CONSTANT Rivals   \* of these calls at most one is made in a behaviour

OneRival == Cardinality({t \in Rivals : phase[t] # "idle"}) <= 1

OldLog == Log(<<"old1", "old2">>)
CorruptLog == [state |-> "corrupt", log |-> <<>>]

MCFirstRuns ==
  { File("missing", NoLog, "missing"),
    File("stored", NoLog, "missing"),
    File("missing", OldLog, "missing"),
    File("stored", CorruptLog, "missing"),
    File("stored", OldLog, "sealed"),
    File("missing", OldLog, "sealed"),
    File("missing", OldLog, "unsealedDefault"),
    File("stored", OldLog, "unsealedDefault"),
    File("missing", OldLog, "unsealedCopied"),
    File("corrupt", OldLog, "sealed"),
    File("stored", OldLog, "corrupt") }

MCUpgraded ==
  { File("stored", NoLog, "sealed"),
    File("stored", OldLog, "sealed"),
    File("stored", CorruptLog, "sealed"),
    File("missing", NoLog, "missing") }

MCLegacyAudit == Log(<<"legacy1">>)
=============================================================================
