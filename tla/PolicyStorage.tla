---------------------------- MODULE PolicyStorage ----------------------------
(***************************************************************************)
(* The kernel's persistent state: PolicyStorage (src/src/policy-storage.ts)*)
(* with the storage migration it runs on every load (migration.ts) and the *)
(* audit store that shares its queue (audit.ts).  Every call is a call of  *)
(* the deadline queue of PolicyTaskQueue; each action below is a queue     *)
(* action together with what the code of that call does in it.             *)
(*                                                                         *)
(* A request is one task.wait.  Reading a file (get, readDir probe, json)  *)
(* is one request: nothing can change the file between its parts while the *)
(* queue serves one request at a time.  The final wait of execute, which   *)
(* computes a snapshot and no host call, is part of the call's last step.  *)
(* Policies: a saved policy is named by the call that saves it.            *)
(***************************************************************************)
EXTENDS PolicyTaskQueue

CONSTANTS
  Reloads,       \* calls of reload()
  Saves,         \* calls of save(value)
  InvalidSaves,  \* those whose value is not a plausible policy
  Audits,        \* calls of AuditStore.record that pass its policy gate
  NoCall,        \* not a call
  MaxAudit,      \* bound: stands for MAX_AUDIT_ENTRIES = 2000
  MaxCrashes,    \* bound: kernel process crashes
  HostDrops,     \* whether the host may acknowledge a put that never lands
  InitialFiles,  \* what the current storage directory may hold at first
  OldEntries,    \* audit entries written before these calls
  LegacyPolicy,  \* the legacy policy file: "missing", "corrupt" or "legacy"
  LegacyAudit    \* the legacy audit file

ASSUME StorageAssumption ==
  /\ Task = Reloads \cup Saves \cup Audits
  /\ InvalidSaves \subseteq Saves
  /\ Reloads \cap Saves = {} /\ Reloads \cap Audits = {} /\ Saves \cap Audits = {}
  /\ NoCall \notin Task
  /\ MaxAudit \in Nat \ {0}
  /\ MaxCrashes \in Nat
  /\ HostDrops \in BOOLEAN

(* What the current storage directory holds. *)
File(p, a, m) == [policy |-> p, audit |-> a, marker |-> m]

(* isMigrationMarker: sealed has policyInitialized; unsealed markers come from *)
(* older versions, with a source that copied a policy or only decided default. *)
Markers == {"sealed", "unsealedCopied", "unsealedDefault"}

(* No save has stored its policy yet; a log on disk was written with the cap. *)
ASSUME FilesAssumption ==
  /\ \A f \in InitialFiles :
       /\ f = File(f.policy, f.audit, f.marker)
       /\ f.policy \in {"missing", "corrupt", "stored"}
       /\ f.audit.log \in Seq(OldEntries) /\ Len(f.audit.log) <= MaxAudit
       /\ f.marker \in Markers \cup {"missing", "corrupt"}
  /\ LegacyPolicy \in {"missing", "corrupt", "legacy"}
  /\ LegacyAudit.log \in Seq(OldEntries)
  /\ Saves \cap {"missing", "corrupt", "default", "legacy", "stored"} = {}

VARIABLES
  disk,           \* the current storage directory: policy, audit, marker
  legacyRead,     \* the marker files of reads from the legacy directory
  pc,             \* the last host request each call made
  mem,            \* what each call has read
  retained,       \* how many of the newest log entries are within an append's cutoff
  landed,         \* calls whose outstanding put has taken effect
  active,         \* `active`: the last execute() that entered its action
  loadState,      \* `loadState`
  policy,         \* `policy`, which publish() hands to the tools
  saveState,      \* `state.saveState` of each save
  catching,       \* execute() calls whose catch block is still to run
  reply,          \* the snapshot each execute() returned
  writeFailures,  \* audit calls counted in writeFailures (`counted`)
  announced,      \* fingerprints broadcast to the windows
  crashes         \* number of crashes so far

fileVars == <<disk, landed>>
storeVars == <<active, loadState, policy, saveState, catching, reply, announced>>
localVars == <<pc, mem, retained, legacyRead, writeFailures>>
storageVars == <<fileVars, storeVars, localVars, crashes>>
allVars == <<vars, storageVars>>

NoLog == [state |-> "missing", log |-> <<>>]
Log(s) == [state |-> "present", log |-> s]

Policies == {"default", "legacy", "stored"} \cup Saves

LoadPcs == {"start", "readMarker", "readPolicy", "readAudit", "readLegacyPolicy",
            "readLegacyAudit", "putPolicy", "checkPolicy", "putAudit", "checkAudit",
            "putMarker", "checkMarker", "sealMarker", "checkSeal"}
SavePcs == {"putSave", "checkSave"}
AuditPcs == {"readLog", "putLog", "warn"}
Pcs == LoadPcs \cup SavePcs \cup AuditPcs \cup {"committed"}
PutPcs == {"putPolicy", "putAudit", "putMarker", "sealMarker", "putSave", "putLog"}
CheckPcs == {"checkPolicy", "checkAudit", "checkMarker", "checkSeal", "checkSave"}
SealPcs == {"sealMarker", "checkSeal"}

NoMem == [marker |-> "missing", policy |-> "missing", audit |-> NoLog,
          legacyPolicy |-> "missing", legacyAudit |-> NoLog]

Ready == loadState \in {"loaded", "initial-default"}

(* No call is in the queue and every catch block has run. *)
Idle == queue = <<>> /\ catching = <<>>

StorageInit ==
  /\ Init
  /\ disk \in InitialFiles
  /\ legacyRead = {}
  /\ pc = [t \in Task |-> "start"]
  /\ mem = [t \in Task |-> NoMem]
  /\ retained = [t \in Task |-> MaxAudit]
  /\ landed = {}
  /\ active = NoCall
  /\ loadState = "unavailable"
  /\ policy = "default"
  /\ saveState = [t \in Saves |-> "not_saved"]
  /\ catching = <<>>
  /\ reply = [t \in Task |-> "none"]
  /\ writeFailures = {}
  /\ announced = {}
  /\ crashes = 0

-----------------------------------------------------------------------------
(* The migration, as decisions over what the call has read. *)

PolicyMissing(t) == mem[t].policy = "missing"

AuditEmpty(t) == mem[t].audit.log = <<>>

(* resolvePolicyAfterUpgrade: new storage wins, then legacy, then the default. *)
DecidedPolicy(t) ==
  IF ~PolicyMissing(t) THEN mem[t].policy
  ELSE IF mem[t].legacyPolicy # "missing" THEN mem[t].legacyPolicy
  ELSE "default"

(* runStorageMigration throws instead of going on. *)
MigrationRefuses(t) ==
  \/ pc[t] = "readMarker" /\ mem[t].marker = "corrupt"
  \/ pc[t] = "readPolicy" /\ mem[t].policy = "corrupt"
  \/ /\ pc[t] = "readPolicy"
     /\ PolicyMissing(t)
     /\ mem[t].marker \in {"sealed", "unsealedCopied"}
  \/ pc[t] = "readAudit" /\ mem[t].audit.state = "corrupt"
  \/ pc[t] = "readLegacyPolicy" /\ mem[t].legacyPolicy = "corrupt"
  \/ pc[t] = "readLegacyAudit" /\ mem[t].legacyAudit.state = "corrupt"

(* Without a marker: read what the decision needs, write what is missing, mark. *)
AfterLegacyReads(t) ==
  IF PolicyMissing(t) THEN "putPolicy"
  ELSE IF mem[t].legacyAudit.log # <<>> THEN "putAudit"
  ELSE "putMarker"

AfterAuditRead(t) ==
  IF PolicyMissing(t) THEN "readLegacyPolicy"
  ELSE IF AuditEmpty(t) THEN "readLegacyAudit"
  ELSE AfterLegacyReads(t)

(* With a marker: seal an unsealed one. *)
Sealing(t) == IF mem[t].marker = "sealed" THEN "loaded" ELSE "sealMarker"

(* Faulty AfterPolicyRead: the marker is not consulted. *)
AfterPolicyReadUnmarked(t) == "readAudit"

AfterPolicyRead(t) ==
  IF mem[t].marker = "missing" THEN "readAudit"
  ELSE IF PolicyMissing(t) THEN "putPolicy"
  ELSE Sealing(t)

(* The request that follows the one just answered, or "loaded". *)
NextOfLoad(t) ==
  CASE pc[t] = "start"            -> "readMarker"
    [] pc[t] = "readMarker"       -> "readPolicy"
    [] pc[t] = "readPolicy"       -> AfterPolicyRead(t)
    [] pc[t] = "readAudit"        -> AfterAuditRead(t)
    [] pc[t] = "readLegacyPolicy" -> IF AuditEmpty(t) THEN "readLegacyAudit" ELSE "putPolicy"
    [] pc[t] = "readLegacyAudit"  -> AfterLegacyReads(t)
    [] pc[t] = "putPolicy"        -> "checkPolicy"
    [] pc[t] = "checkPolicy"      -> IF mem[t].marker # "missing" THEN Sealing(t)
                                     ELSE IF mem[t].legacyAudit.log # <<>> THEN "putAudit"
                                     ELSE "putMarker"
    [] pc[t] = "putAudit"         -> "checkAudit"
    [] pc[t] = "checkAudit"       -> "putMarker"
    [] pc[t] = "putMarker"        -> "checkMarker"
    [] pc[t] = "sealMarker"       -> "checkSeal"
    [] OTHER                      -> "loaded"

(* The writes, as what the file holds afterwards. *)
LastEntries(s, n) == IF Len(s) <= n THEN s ELSE SubSeq(s, Len(s) - n + 1, Len(s))

(* What the append of call t makes of a log: the entries past its cutoff go, *)
(* then the oldest beyond the cap, and its own comes last.                   *)
Appended(t, log) == Append(LastEntries(LastEntries(log, retained[t]), MaxAudit - 1), t)

Written(t) ==
  CASE pc[t] = "putPolicy" -> [disk EXCEPT !.policy = DecidedPolicy(t)]
    [] pc[t] = "putSave"   -> [disk EXCEPT !.policy = t]
    [] pc[t] = "putAudit"  -> [disk EXCEPT !.audit = Log(LastEntries(mem[t].legacyAudit.log, MaxAudit))]
    [] pc[t] = "putLog"    -> [disk EXCEPT !.audit = Log(Appended(t, mem[t].audit.log))]
    [] OTHER               -> [disk EXCEPT !.marker = "sealed"]

(* The reads: what the call knows of a file.  A readback is only compared. *)
Remembered(t) ==
  CASE pc[t] = "readMarker"       -> [mem[t] EXCEPT !.marker = disk.marker]
    [] pc[t] = "readPolicy"       -> [mem[t] EXCEPT !.policy = disk.policy]
    [] pc[t] \in {"readAudit", "readLog"} -> [mem[t] EXCEPT !.audit = disk.audit]
    [] pc[t] = "readLegacyPolicy" -> [mem[t] EXCEPT !.legacyPolicy = LegacyPolicy]
    [] pc[t] = "readLegacyAudit"  -> [mem[t] EXCEPT !.legacyAudit = LegacyAudit]
    [] OTHER                      -> mem[t]

(* A readback that does not show what was written fails the call. *)
ReadbackMatches(t) ==
  CASE pc[t] = "checkPolicy" -> disk.policy = DecidedPolicy(t)
    [] pc[t] = "checkSave"   -> disk.policy = t
    [] pc[t] = "checkAudit"  -> disk.audit.log = LastEntries(mem[t].legacyAudit.log, MaxAudit)
    [] OTHER                 -> disk.marker = "sealed"

-----------------------------------------------------------------------------
(* Entering and leaving the queue. *)

(* reload, save or record reaches queue.run.  AuditStore hands one append at a *)
(* time to the queue (its writeQueue).                                          *)
Call(t) ==
  /\ t \in Audits => \A i \in 1..Len(queue) : queue[i] \notin Audits
  /\ Run(t)
  /\ UNCHANGED storageVars

(* pending settled: an execute() has its continuation scheduled.  An audit call *)
(* that never ran its append, or saw it fail, is counted (`failed`).            *)
Leave(t, counted) ==
  /\ IF t \in Audits
     THEN /\ writeFailures' = IF counted THEN writeFailures \cup {t} ELSE writeFailures
          /\ UNCHANGED catching
     ELSE /\ catching' = Append(catching, t)
          /\ UNCHANGED writeFailures

(* The queue enters the call's action, or refuses it.  The successor's start is *)
(* the microtask before the predecessor's catch block, so `active` already      *)
(* names the successor when that block runs.                                    *)
Enter(t) ==
  /\ Len(catching) <= 1
  /\ Begin(t)
  /\ IF phase'[t] = "done"
     THEN /\ Leave(t, TRUE)
          /\ UNCHANGED <<active, loadState>>
     ELSE /\ IF t \in Audits
             THEN UNCHANGED <<active, loadState>>
             ELSE active' = t /\ loadState' = "loading"
          /\ UNCHANGED <<catching, writeFailures>>
  /\ UNCHANGED <<fileVars, policy, saveState, reply, announced, pc, mem, retained, legacyRead, crashes>>

(* Faulty CatchBlock: the tools keep a policy that was not confirmed. *)
CatchKeepingPolicy(t) ==
  IF active = t \/ caller[t] = "blocked"
  THEN loadState' = "unavailable" /\ UNCHANGED policy
  ELSE UNCHANGED <<policy, loadState>>

(* The catch block of execute(): fail closed unless a later call took over. *)
CatchBlock(t) ==
  IF active = t \/ caller[t] = "blocked"
  THEN policy' = "default" /\ loadState' = "unavailable"
  ELSE UNCHANGED <<policy, loadState>>

(* The continuation of execute(): a snapshot is returned, or the catch block runs. *)
Return ==
  /\ catching # <<>>
  /\ LET t == Head(catching) IN
       /\ catching' = Tail(catching)
       /\ IF caller[t] = "value"
          THEN /\ reply' = [reply EXCEPT ![t] = "ready"]
               /\ UNCHANGED <<policy, loadState>>
          ELSE /\ reply' = [reply EXCEPT ![t] = "unavailable"]
               /\ CatchBlock(t)
  /\ UNCHANGED <<vars, fileVars, localVars, active, saveState, announced, crashes>>

-----------------------------------------------------------------------------
(* Requests. *)

(* The call makes its next host request p. *)
Ask(t, p) ==
  /\ Wait(t)
  /\ pc' = [pc EXCEPT ![t] = p]
  /\ legacyRead' = IF p \in {"readLegacyPolicy", "readLegacyAudit"}
                   THEN legacyRead \cup {disk.marker}
                   ELSE legacyRead

Running(t) == phase[t] = "running" /\ catching = <<>>

(* The step of the migration that failed may be the sealing of the marker, *)
(* whose error is swallowed; then the load goes on.                        *)
Answered(t) ==
  \/ answer[t] \in {"none", "ok"} /\ ~MigrationRefuses(t)
  \/ answer[t] = "error" /\ pc[t] \in SealPcs

LoadNext(t) == IF answer[t] = "error" THEN "loaded" ELSE NextOfLoad(t)

InLoad(t) == t \notin Audits /\ pc[t] \in LoadPcs /\ ~(t \in InvalidSaves)

(* The migration goes on with its next request. *)
MigrationStep(t) ==
  /\ Running(t)
  /\ InLoad(t)
  /\ Answered(t)
  /\ LoadNext(t) # "loaded"
  /\ Ask(t, LoadNext(t))
  /\ UNCHANGED <<fileVars, storeVars, mem, retained, writeFailures, crashes>>

LoadedState(t) ==
  IF PolicyMissing(t) /\ mem[t].legacyPolicy = "missing" THEN "initial-default" ELSE "loaded"

AtCommit(t) == InLoad(t) /\ Answered(t) /\ LoadNext(t) = "loaded" /\ InTime(t)

(* load() commits the migrated policy; a save() goes on to write its own. *)
ReloadCommits(t) ==
  /\ Running(t)
  /\ t \in Reloads
  /\ AtCommit(t)
  /\ pc' = [pc EXCEPT ![t] = "committed"]
  /\ policy' = DecidedPolicy(t)
  /\ loadState' = LoadedState(t)
  /\ UNCHANGED <<vars, fileVars, active, saveState, catching, reply, announced,
                 mem, retained, legacyRead, writeFailures, crashes>>

(* Faulty SaveCommitsLoad: saveState stays "not_saved" while the put is sent. *)
SaveCommitsLoadSilently(t) ==
  /\ Running(t)
  /\ t \in Saves
  /\ AtCommit(t)
  /\ policy' = DecidedPolicy(t)
  /\ loadState' = "loading"
  /\ Ask(t, "putSave")
  /\ UNCHANGED <<fileVars, saveState, active, catching, reply, announced, mem, retained,
                 writeFailures, crashes>>

SaveCommitsLoad(t) ==
  /\ Running(t)
  /\ t \in Saves
  /\ AtCommit(t)
  /\ policy' = DecidedPolicy(t)
  /\ loadState' = "loading"
  /\ saveState' = [saveState EXCEPT ![t] = "unknown"]
  /\ Ask(t, "putSave")
  /\ UNCHANGED <<fileVars, active, catching, reply, announced, mem, retained,
                 writeFailures, crashes>>

SaveReadsBack(t) ==
  /\ Running(t)
  /\ pc[t] = "putSave" /\ answer[t] = "ok"
  /\ Ask(t, "checkSave")
  /\ UNCHANGED <<fileVars, storeVars, mem, retained, writeFailures, crashes>>

(* Faulty SaveCommits: the put is trusted without a readback. *)
SaveCommitsUnread(t) ==
  /\ Running(t)
  /\ pc[t] = "putSave" /\ answer[t] = "ok"
  /\ InTime(t)
  /\ pc' = [pc EXCEPT ![t] = "committed"]
  /\ saveState' = [saveState EXCEPT ![t] = "saved"]
  /\ policy' = t
  /\ loadState' = "loaded"
  /\ announced' = announced \cup {t}
  /\ UNCHANGED <<vars, fileVars, active, catching, reply, mem, retained, legacyRead,
                 writeFailures, crashes>>

(* The readback matched: publish, tell the other windows, and answer. *)
SaveCommits(t) ==
  /\ Running(t)
  /\ pc[t] = "checkSave" /\ answer[t] = "ok"
  /\ InTime(t)
  /\ pc' = [pc EXCEPT ![t] = "committed"]
  /\ saveState' = [saveState EXCEPT ![t] = "saved"]
  /\ policy' = t
  /\ loadState' = "loaded"
  /\ announced' = announced \cup {t}
  /\ UNCHANGED <<vars, fileVars, active, catching, reply, mem, retained, legacyRead,
                 writeFailures, crashes>>

(* Faulty Stops: a timed-out request leaves the call waiting. *)
StopsOnErrorOnly(t) ==
  \/ t \in InvalidSaves
  \/ answer[t] = "error" /\ pc[t] # "committed"
  \/ InLoad(t) /\ MigrationRefuses(t)
  \/ pc[t] \in {"checkSave", "committed"} /\ ~InTime(t)

(* Whatever stops the action of an execute(): an invalid policy, a refusal of    *)
(* the migration, a failed or timed-out request, or a deadline seen by           *)
(* task.check() before or after a commit.                                        *)
Stops(t) ==
  \/ t \in InvalidSaves
  \/ /\ answer[t] \in {"error", "timeout"}
     /\ pc[t] # "committed"
     /\ ~(InLoad(t) /\ Answered(t))
  \/ InLoad(t) /\ MigrationRefuses(t)
  \/ InLoad(t) /\ Answered(t) /\ LoadNext(t) = "loaded" /\ ~InTime(t)
  \/ pc[t] \in {"checkSave", "committed"} /\ ~InTime(t)

Result(t) ==
  IF ~Stops(t) THEN "value" ELSE IF answer[t] = "timeout" \/ ~InTime(t) THEN "timeout" ELSE "error"

(* The action of an execute() returns or throws. *)
Complete(t) ==
  /\ Running(t)
  /\ t \notin Audits
  /\ Stops(t) \/ pc[t] = "committed"
  /\ Settle(t, Result(t))
  /\ Leave(t, FALSE)
  /\ UNCHANGED <<inFlight, outstanding, late, ended, answer, waits>>
  /\ UNCHANGED <<fileVars, active, loadState, policy, saveState, reply, announced,
                 pc, mem, retained, legacyRead, crashes>>

-----------------------------------------------------------------------------
(* AuditStore.appendEntry: read the log, append, write it back.  A failure is    *)
(* counted, then logged with one more request when the deadline still allows it. *)
(* The cutoff is computed before the read, from the clock and the retention days *)
(* of the policy in force: any number of the oldest entries may be past it.  An  *)
(* "error" of a read is a get that failed where the directory still names the    *)
(* file, or could not be listed.                                                 *)

AuditReads(t) ==
  /\ Running(t)
  /\ t \in Audits
  /\ pc[t] = "start"
  /\ \E n \in 0..MaxAudit : retained' = [retained EXCEPT ![t] = n]
  /\ Ask(t, "readLog")
  /\ UNCHANGED <<fileVars, storeVars, mem, writeFailures, crashes>>

(* Faulty LogReadable: a failed read is taken for an empty log. *)
LogReadableBlindly(t) ==
  \/ answer[t] = "ok" /\ mem[t].audit.state # "corrupt"
  \/ answer[t] = "error"

LogReadable(t) == answer[t] = "ok" /\ mem[t].audit.state # "corrupt"

AuditWrites(t) ==
  /\ Running(t)
  /\ pc[t] = "readLog"
  /\ LogReadable(t)
  /\ Ask(t, "putLog")
  /\ UNCHANGED <<fileVars, storeVars, mem, retained, writeFailures, crashes>>

AuditFailed(t) ==
  \/ pc[t] = "readLog" /\ answer[t] # "none" /\ ~LogReadable(t)
  \/ pc[t] = "putLog" /\ answer[t] \in {"error", "timeout"}
  \/ answer[t] = "timeout"

(* Faulty AuditWarns: the failure is logged but not counted. *)
AuditWarnsUncounted(t) ==
  /\ Running(t)
  /\ t \in Audits
  /\ AuditFailed(t)
  /\ pc[t] # "warn"
  /\ InTime(t)
  /\ Ask(t, "warn")
  /\ UNCHANGED <<fileVars, storeVars, mem, retained, writeFailures, crashes>>

AuditWarns(t) ==
  /\ Running(t)
  /\ t \in Audits
  /\ AuditFailed(t)
  /\ pc[t] # "warn"
  /\ InTime(t)
  /\ writeFailures' = writeFailures \cup {t}
  /\ Ask(t, "warn")
  /\ UNCHANGED <<fileVars, storeVars, mem, retained, crashes>>

(* appendEntry never throws: the tool call that is audited goes on. *)
AuditCompletes(t) ==
  /\ Running(t)
  /\ t \in Audits
  /\ \/ pc[t] = "putLog" /\ answer[t] = "ok"
     \/ pc[t] = "warn"
     \/ AuditFailed(t) /\ ~InTime(t)
  /\ Settle(t, "value")
  /\ Leave(t, AuditFailed(t))
  /\ UNCHANGED <<inFlight, outstanding, late, ended, answer, waits>>
  /\ UNCHANGED <<fileVars, active, loadState, policy, saveState, reply, announced,
                 pc, mem, retained, legacyRead, crashes>>

-----------------------------------------------------------------------------
(* The microtask that calls the host. *)
Send(t) ==
  /\ StartRequest(t)
  /\ landed' = landed \ {t}
  /\ UNCHANGED <<disk, storeVars, localVars, crashes>>

(* A put takes effect, before it is acknowledged and perhaps long after the *)
(* call that made it has timed out.                                         *)
PutLands(t) ==
  /\ catching = <<>>
  /\ t \in outstanding \ landed
  /\ pc[t] \in PutPcs
  /\ disk' = Written(t)
  /\ landed' = landed \cup {t}
  /\ UNCHANGED <<vars, storeVars, localVars, crashes>>

(* The host answers.  An error says nothing about whether a put has landed; an  *)
(* acknowledged put has landed unless the host drops writes.                    *)
Reply(t) ==
  /\ catching = <<>>
  /\ HostSettles(t)
  /\ answer'[t] = "ok" /\ phase[t] = "waiting" =>
       /\ pc[t] \in PutPcs => t \in landed \/ HostDrops
       /\ pc[t] \in CheckPcs => ReadbackMatches(t)
  /\ mem' = [mem EXCEPT ![t] = IF answer'[t] = "ok" THEN Remembered(t) ELSE @]
  /\ UNCHANGED <<fileVars, storeVars, pc, retained, legacyRead, writeFailures, crashes>>

Resumes(t) == Resume(t) /\ UNCHANGED storageVars

Deadline(t) == DeadlinePasses(t) /\ UNCHANGED storageVars

Timer(t) == catching = <<>> /\ TimerFires(t) /\ UNCHANGED storageVars

(* The kernel process dies with its host and comes back: the disk is what is left. *)
Crash ==
  /\ crashes < MaxCrashes
  /\ queue # <<>>
  /\ crashes' = crashes + 1
  /\ queue' = <<>>
  /\ phase' = [t \in Task |-> IF phase[t] = "idle" THEN "idle" ELSE "done"]
  /\ inFlight' = 0
  /\ outstanding' = {}
  /\ caller' = [t \in Task |-> IF caller[t] = "pending" THEN "error" ELSE caller[t]]
  /\ active' = NoCall
  /\ loadState' = "unavailable"
  /\ policy' = "default"
  /\ catching' = <<>>
  /\ writeFailures' = {}
  /\ UNCHANGED <<late, ended, answer, waits, fileVars, saveState, reply, announced,
                 pc, mem, retained, legacyRead>>

Code(t) ==
  \/ Enter(t)
  \/ MigrationStep(t)
  \/ ReloadCommits(t)
  \/ SaveCommitsLoad(t)
  \/ SaveReadsBack(t)
  \/ SaveCommits(t)
  \/ Complete(t)
  \/ AuditReads(t)
  \/ AuditWrites(t)
  \/ AuditWarns(t)
  \/ AuditCompletes(t)
  \/ Send(t)
  \/ Resumes(t)

StorageNext ==
  \/ \E t \in Task :
       \/ Call(t)
       \/ Code(t)
       \/ PutLands(t)
       \/ Reply(t)
       \/ Deadline(t)
       \/ Timer(t)
  \/ Return
  \/ Crash

StorageSpec == StorageInit /\ [][StorageNext]_allVars

StorageFairness ==
  /\ \A t \in Task : WF_allVars(Code(t)) /\ WF_allVars(Timer(t))
  /\ WF_allVars(Return)

FairStorageSpec == StorageSpec /\ StorageFairness

-----------------------------------------------------------------------------
(* The variables have the types the code gives them. *)
StorageTypeOK ==
  /\ TypeOK
  /\ disk.policy \in Policies \cup {"missing", "corrupt"}
  /\ disk.marker \in Markers \cup {"missing", "corrupt"}
  /\ Len(disk.audit.log) <= MaxAudit
  /\ landed \subseteq Task
  /\ pc \in [Task -> Pcs]
  /\ retained \in [Task -> 0..MaxAudit]
  /\ active \in Task \cup {NoCall}
  /\ loadState \in {"loading", "loaded", "initial-default", "unavailable"}
  /\ policy \in Policies
  /\ saveState \in [Saves -> {"not_saved", "unknown", "saved"}]
  /\ reply \in [Task -> {"none", "ready", "unavailable"}]
  /\ writeFailures \subseteq Audits
  /\ announced \subseteq Saves

(* Between calls the kernel fails closed: the policy the tools obey is the one  *)
(* on disk, or the state is "unavailable" and they obey the default, whatever   *)
(* timed out, failed or was blocked, and in whatever order (the `active` token  *)
(* of execute(), policy-storage.ts:89-107).                                     *)
FailClosed ==
  Idle => IF Ready THEN policy = disk.policy ELSE loadState = "unavailable" /\ policy = "default"

(* The strengthenings the proofs rest on.  ShapeInv: what the calls and the     *)
(* directory hold are records.  StageInv: a call asks before it is answered.    *)
(* MarkerInv: while a call that found no marker has not written one, nobody     *)
(* else has.  SaveInv: a policy that was not sent is nowhere.                   *)
ShapeInv ==
  /\ disk = File(disk.policy, disk.audit, disk.marker)
  /\ pc \in [Task -> Pcs]
  /\ DOMAIN mem = Task
  /\ \A t \in Task :
       mem[t] = [marker |-> mem[t].marker, policy |-> mem[t].policy,
                 audit |-> mem[t].audit, legacyPolicy |-> mem[t].legacyPolicy,
                 legacyAudit |-> mem[t].legacyAudit]
  /\ saveState \in [Saves -> {"not_saved", "unknown", "saved"}]

StageInv ==
  \A t \in Task :
    /\ phase[t] = "running" /\ answer[t] = "none" => pc[t] = "start"
    /\ phase[t] = "resumed" => answer[t] # "none"
    /\ phase[t] \in {"idle", "queued"} => pc[t] = "start"
    /\ pc[t] = "start" => answer[t] = "none" /\ phase[t] \in {"idle", "queued", "running", "done"}
    /\ pc[t] \in {"readAudit", "readLegacyPolicy", "readLegacyAudit"} => mem[t].marker = "missing"

MarkerInv ==
  \A t \in Task :
    /\ phase[t] \in Active
    /\ mem[t].marker = "missing"
    /\ \/ pc[t] \in {"readPolicy", "readAudit", "readLegacyPolicy", "readLegacyAudit"}
       \/ pc[t] = "readMarker" /\ answer[t] = "ok"
    => disk.marker = "missing"

SaveInv ==
  \A s \in Saves :
    saveState[s] = "not_saved" =>
      /\ pc[s] # "putSave"
      /\ disk.policy # s
      /\ \A t \in Task : mem[t].policy # s /\ mem[t].legacyPolicy # s

StorageInv == ShapeInv /\ StageInv /\ MarkerInv /\ SaveInv

(* A stored policy is replaced only by a saved one, an unreadable one never:    *)
(* "New policy always wins; never overwrite with legacy" (migration.ts:9), also *)
(* by a migration write that lands after its call has timed out.                *)
StoredPolicyKept ==
  [][disk'.policy # disk.policy =>
       \/ disk.policy = "missing"
       \/ disk.policy # "corrupt" /\ disk'.policy \in Saves]_allVars

(* A save that reports "not_saved" has no put that landed or still may land.    *)
NotSavedNeverStored == \A t \in Saves : saveState[t] = "not_saved" => disk.policy # t

(* "saved" is reported, and the other windows are told, only when the policy is *)
(* on disk (policy-storage.ts:71-75).                                           *)
SavedIsStored == [][\A t \in announced' \ announced : disk.policy = t]_allVars

(* Only confirmed missing storage permits an initial default, and the marker    *)
(* makes startups idempotent (migration.ts:11,13): once a marker is on disk no  *)
(* call reads the legacy directory again.                                       *)
LegacyReadOnlyOnce == legacyRead \subseteq {"missing"}

(* The audit log changes only by one append: to the log as it is on disk one    *)
(* entry is added at its end, and what goes are the entries past the cutoff of  *)
(* that append and the oldest beyond the cap, no others, also when a read       *)
(* failed or an older append's put lands late.  It is copied from the legacy    *)
(* log only while empty; an unreadable log is left alone (audit.ts:17-23).      *)
HistoryKept ==
  [][disk'.audit # disk.audit =>
       /\ disk.audit.state # "corrupt"
       /\ \/ \E t \in Audits : disk'.audit.log = Appended(t, disk.audit.log)
          \/ disk.audit.log = <<>> /\ disk'.audit.log = LastEntries(LegacyAudit.log, MaxAudit)]_allVars

(* An audited call ends with its entry in the log or counted in writeFailures   *)
(* (audit.ts:24-26), whichever step of the append failed or timed out.  What    *)
(* becomes of an entry that is in the log, HistoryKept says.                    *)
MissesCounted ==
  [][\A t \in Audits :
       phase[t] # "done" /\ phase'[t] = "done" /\ crashes' = crashes =>
         \/ t \in writeFailures'
         \/ \E i \in 1..Len(disk.audit.log) : disk.audit.log[i] = t]_allVars

(* Every call ends and every reload or save is answered, even by a host that    *)
(* never answers.                                                               *)
EveryCallAnswered ==
  \A t \in Task :
    phase[t] = "queued" ~> phase[t] = "done" /\ (t \notin Audits => reply[t] # "none")

(* The storage drives its queue as PolicyTaskQueue allows. *)
ImplementsQueue == Spec
=============================================================================
