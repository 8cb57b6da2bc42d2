----------------------------- MODULE DevInstall -----------------------------
(***************************************************************************)
(* The local installer scripts/dev-local.ps1: it replaces the plugin in a  *)
(* workspace, has a running SiYuan reload it, and, when a step fails, puts *)
(* the old plugin back.  A directory is moved as a whole or not at all.  A *)
(* call to SiYuan may be carried out although it failed for the script,    *)
(* even later.  The script may be killed at any point.                     *)
(***************************************************************************)
EXTENDS FiniteSets

VARIABLES
  phase,       \* $phase, and the steps of the recovery
  had,         \* $hadExistingPlugin
  skipReload,  \* -SkipReload
  attempted,   \* $disableAttempted
  moved,       \* $backupMoved
  installed,   \* $newInstalled
  restored,    \* $backupRestored
  errors,      \* $recoverErrors is not empty
  place,       \* which plugin each directory holds, or "none"
  enabled,     \* SiYuan has the plugin enabled
  late,        \* calls of setPetalEnabled that failed and are still out
  before,      \* history: whether the plugin was enabled at first
  strayed      \* history: a call that had failed was carried out later

flags == <<had, skipReload, attempted, moved, installed, restored>>
histories == <<before, strayed>>
installVars == <<phase, flags, errors, place, enabled, late, histories>>

Places == {"target", "staging", "backup", "failedPath"}
Phases == {"prepare", "workspace", "disable", "backup", "install", "check", "enable", "smoke",
           "quarantine", "disable_new", "restore", "re_enable", "done", "failed", "killed"}

InstallInit ==
  /\ phase = "prepare"
  /\ had \in BOOLEAN /\ skipReload \in BOOLEAN
  /\ attempted = FALSE /\ moved = FALSE /\ installed = FALSE /\ restored = FALSE
  /\ errors = FALSE
  /\ place = [d \in Places |-> IF d = "target" /\ had THEN "old" ELSE "none"]
  /\ enabled \in {FALSE, had}
  /\ late = {}
  /\ before = enabled
  /\ strayed = FALSE

(* Move-Item. *)
Moves(from, to) == place' = [place EXCEPT ![from] = "none", ![to] = place[from]]

(* setPetalEnabled succeeds; or it fails, carried out or not, or not yet. *)
Sets(value) == enabled' = value /\ UNCHANGED late
FailsToSet(value) ==
  \/ UNCHANGED <<enabled, late>>
  \/ enabled' = value /\ UNCHANGED late
  \/ late' = late \cup {value} /\ UNCHANGED enabled

(* What is left of a failed call is carried out, or never will be. *)
CallLands(value) ==
  /\ value \in late
  /\ late' = late \ {value}
  /\ \/ enabled' = value /\ strayed' = TRUE
     \/ UNCHANGED <<enabled, strayed>>
  /\ UNCHANGED <<phase, flags, errors, place, before>>

(***************************************************************************)
(* The installation.                                                       *)
(***************************************************************************)

(* A step throws: the recovery begins at its first part that applies. *)
Caught == IF installed' THEN "disable_new" ELSE IF moved' THEN "restore" ELSE "re_enable"

Throws == phase' = Caught

(* Validation, the probe, the build and the copy to a new directory. *)
Prepare ==
  /\ phase = "prepare"
  /\ UNCHANGED <<flags, errors, enabled, late, histories>>
  /\ \/ phase' = (IF skipReload THEN "backup" ELSE "workspace")
        /\ place' = [place EXCEPT !["staging"] = "new"]
     \/ Throws /\ place' \in {place, [place EXCEPT !["staging"] = "new"]}

(* The token is read; the running SiYuan must have the same workspace. *)
MatchWorkspace ==
  /\ phase = "workspace"
  /\ UNCHANGED <<flags, errors, place, enabled, late, histories>>
  /\ phase' = (IF had THEN "disable" ELSE "backup") \/ Throws

Disable ==
  /\ phase = "disable"
  /\ UNCHANGED <<had, skipReload, moved, installed, restored, errors, place, histories>>
  /\ attempted' = TRUE
  /\ \/ Sets(FALSE) /\ phase' = "backup"
     \/ FailsToSet(FALSE) /\ Throws

Backup ==
  /\ phase = "backup"
  /\ UNCHANGED <<had, skipReload, attempted, installed, restored, errors, enabled, late, histories>>
  /\ \/ had /\ Moves("target", "backup") /\ moved' = TRUE /\ phase' = "install"
     \/ ~had /\ phase' = "install" /\ UNCHANGED <<moved, place>>
     \/ UNCHANGED <<moved, place>> /\ Throws

Install ==
  /\ phase = "install"
  /\ UNCHANGED <<had, skipReload, attempted, moved, restored, errors, enabled, late, histories>>
  /\ \/ place["target"] = "none" /\ Moves("staging", "target") /\ installed' = TRUE /\ phase' = "check"
     \/ UNCHANGED <<installed, place>> /\ Throws

(* The new directory is complete; without a reload that is all. *)
Check ==
  /\ phase = "check"
  /\ UNCHANGED <<flags, errors, place, enabled, late, histories>>
  /\ phase' = (IF skipReload THEN "done" ELSE "enable") \/ Throws

Enable ==
  /\ phase = "enable"
  /\ UNCHANGED <<flags, errors, place, histories>>
  /\ \/ Sets(TRUE) /\ phase' = "smoke"
     \/ FailsToSet(TRUE) /\ Throws

(* smoke:mcp finds exactly the catalog's tools. *)
Smoke ==
  /\ phase = "smoke"
  /\ UNCHANGED <<flags, errors, place, enabled, late, histories>>
  /\ (enabled /\ phase' = "done") \/ Throws

(***************************************************************************)
(* The recovery.                                                           *)
(***************************************************************************)

Recovers(next) == phase' = next

AfterQuarantine == IF moved THEN "restore" ELSE "re_enable"

(* The new plugin is disabled if that can be done at all. *)
DisableNew ==
  /\ phase = "disable_new"
  /\ Recovers("quarantine")
  /\ \/ skipReload /\ UNCHANGED <<enabled, late, errors>>
     \/ ~skipReload /\ Sets(FALSE) /\ UNCHANGED errors
     \/ ~skipReload /\ FailsToSet(FALSE) /\ errors' = TRUE
  /\ UNCHANGED <<flags, place, histories>>

Quarantine ==
  /\ phase = "quarantine"
  /\ Recovers(AfterQuarantine)
  /\ \/ Moves("target", "failedPath") /\ UNCHANGED errors
     \/ errors' = TRUE /\ UNCHANGED place
  /\ UNCHANGED <<flags, enabled, late, histories>>

(* Faulty: a backup that cannot be restored is cleaned up. *)
RestoreDiscarding ==
  /\ phase = "restore"
  /\ Recovers("re_enable")
  /\ \/ place["target"] = "none" /\ Moves("backup", "target") /\ restored' = TRUE /\ UNCHANGED errors
     \/ errors' = TRUE /\ UNCHANGED restored /\ place' = [place EXCEPT !["backup"] = "none"]
  /\ UNCHANGED <<had, skipReload, attempted, moved, installed, enabled, late, histories>>

(* The backup goes back where it was, if that place is free. *)
Restore ==
  /\ phase = "restore"
  /\ Recovers("re_enable")
  /\ \/ place["target"] = "none" /\ Moves("backup", "target") /\ restored' = TRUE /\ UNCHANGED errors
     \/ errors' = TRUE /\ UNCHANGED <<place, restored>>
  /\ UNCHANGED <<had, skipReload, attempted, moved, installed, enabled, late, histories>>

(* Faulty: a target that exists is taken for the old plugin. *)
ShouldReEnableWhatIsThere == had /\ attempted /\ place["target"] # "none"

(* Test-ShouldReEnablePreviousPlugin *)
ShouldReEnable ==
  /\ had /\ attempted
  /\ restored \/ (~moved /\ ~installed /\ place["target"] # "none")

(* Faulty: a failure to enable the old plugin is not told. *)
ReEnableSilently ==
  /\ phase = "re_enable"
  /\ phase' = "failed"
  /\ IF ShouldReEnable THEN Sets(TRUE) \/ FailsToSet(TRUE) ELSE UNCHANGED <<enabled, late>>
  /\ UNCHANGED <<flags, errors, place, histories>>

ReEnable ==
  /\ phase = "re_enable"
  /\ phase' = "failed"
  /\ \/ ShouldReEnable /\ Sets(TRUE) /\ UNCHANGED errors
     \/ ShouldReEnable /\ FailsToSet(TRUE) /\ errors' = TRUE
     \/ ~ShouldReEnable /\ errors' = (errors \/ (had /\ attempted)) /\ UNCHANGED <<enabled, late>>
  /\ UNCHANGED <<flags, place, histories>>

Kill ==
  /\ phase \notin {"done", "failed", "killed"}
  /\ phase' = "killed"
  /\ UNCHANGED <<flags, errors, place, enabled, late, histories>>

InstallNext ==
  \/ Prepare \/ MatchWorkspace \/ Disable \/ Backup \/ Install \/ Check \/ Enable \/ Smoke
  \/ DisableNew \/ Quarantine \/ Restore \/ ReEnable \/ Kill
  \/ \E v \in BOOLEAN : CallLands(v)

InstallSpec == InstallInit /\ [][InstallNext]_installVars

-----------------------------------------------------------------------------

(* At every moment, wherever the script fails or is killed, the old plugin  *)
(* is in one directory.  (dev-local.ps1:461 and 862-884)                    *)
InstallTypeOK ==
  /\ phase \in Phases
  /\ {had, skipReload, attempted, moved, installed, restored, errors, enabled, before, strayed} \subseteq BOOLEAN
  /\ place \in [Places -> {"none", "old", "new"}]
  /\ late \in SUBSET BOOLEAN
  /\ Cardinality({d \in Places : place[d] = "old"}) = IF had THEN 1 ELSE 0

(* What the script says at its end is true.  A success has the new plugin *)
(* in place, enabled unless the reload was skipped, and the old one in the *)
(* backup.  A failure that reports no trouble with the recovery has the    *)
(* old plugin, if any, back in place, and enabled if it was or if the      *)
(* script tried to disable it, unless a call that the script had given up  *)
(* on was carried out later.  (dev-local.ps1:704-721 and 742-884)          *)
InstallReportsTrue ==
  /\ phase = "done" =>
       /\ place["target"] = "new" /\ (had => place["backup"] = "old")
       /\ enabled = IF skipReload THEN before ELSE TRUE
  /\ phase = "failed" /\ ~errors =>
       /\ place["target"] = IF had THEN "old" ELSE "none"
       /\ place["backup"] = "none"
       /\ enabled = (attempted \/ before) \/ strayed

(* "Never re-enable solely because target exists (failed new install must *)
(* not be enabled)" (dev-local.ps1:827).                                   *)
ReEnablesOldOnly ==
  [][phase = "re_enable" /\ (enabled' # enabled \/ late' # late) /\ phase' = "failed"
       => place["target"] = "old"]_installVars
=============================================================================
