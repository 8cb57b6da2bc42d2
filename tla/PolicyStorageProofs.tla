------------------------- MODULE PolicyStorageProofs -------------------------
(***************************************************************************)
(* The storage drives its queue as PolicyTaskQueue allows, for any calls,  *)
(* files and host: every step of PolicyStorage but Crash is a step of the  *)
(* queue, and Crash empties it.  So the queue's invariant carries over; on *)
(* it rest the invariants of the files, because two writers never overlap. *)
(*                                                                         *)
(* A call knows the files: from the moment it has read one until its own   *)
(* write lands, the file is what the call read, because the one host       *)
(* request in flight is its own, also as an orphan.  On that rest the      *)
(* promises about what a write may replace, the "fails closed" of the      *)
(* policy the kernel publishes, and the count of missed audit entries.     *)
(***************************************************************************)
EXTENDS PolicyStorage, PolicyTaskQueueProofs

(* Leaving the queue and asking the host touch the queue's variables only      *)
(* through Settle and Wait; every code step is a queue step or changes nothing *)
(* of it.                                                                      *)
LEMMA CodeStep ==
  ASSUME NEW t \in Task, Code(t)
  PROVE  [Next]_vars
<1>1. CASE Enter(t)
  BY <1>1 DEF Enter, Next, Microtask
<1>2. CASE MigrationStep(t)
  BY <1>2 DEF MigrationStep, Ask, Next, Microtask
<1>3. CASE ReloadCommits(t)
  BY <1>3 DEF ReloadCommits
<1>4. CASE SaveCommitsLoad(t)
  BY <1>4 DEF SaveCommitsLoad, Ask, Next, Microtask
<1>5. CASE SaveReadsBack(t)
  BY <1>5 DEF SaveReadsBack, Ask, Next, Microtask
<1>6. CASE SaveCommits(t)
  BY <1>6 DEF SaveCommits
<1>7. CASE Complete(t)
  <2>1. Result(t) \in {"value", "error", "timeout"}
    BY DEF Result
  <2>2. Result(t) = "timeout" => answer[t] = "timeout" \/ ~InTime(t)
    BY DEF Result
  <2>3. Finish(t)
    BY <1>7, <2>1, <2>2 DEF Complete, Running, Finish
  <2>4. QED
    BY <2>3 DEF Next, Microtask
<1>8. CASE AuditReads(t)
  BY <1>8 DEF AuditReads, Ask, Next, Microtask
<1>9. CASE AuditWrites(t)
  BY <1>9 DEF AuditWrites, Ask, Next, Microtask
<1>10. CASE AuditWarns(t)
  BY <1>10 DEF AuditWarns, Ask, Next, Microtask
<1>11. CASE AuditCompletes(t)
  <2>1. Finish(t)
    BY <1>11 DEF AuditCompletes, Running, Finish
  <2>2. QED
    BY <2>1 DEF Next, Microtask
<1>12. CASE Send(t)
  BY <1>12 DEF Send, Next, Microtask
<1>13. CASE Resumes(t)
  BY <1>13 DEF Resumes, Next, Microtask
<1>14. QED
  BY <1>1, <1>2, <1>3, <1>4, <1>5, <1>6, <1>7, <1>8, <1>9, <1>10, <1>11,
     <1>12, <1>13
  DEF Code

(* Every storage step that is not a crash is a step of the queue, or none. *)
LEMMA QueueStep ==
  ASSUME StorageNext, ~Crash
  PROVE  [Next]_vars
<1>1. ASSUME NEW t \in Task,
             Call(t) \/ PutLands(t) \/ Reply(t) \/ Deadline(t) \/ Timer(t)
      PROVE  [Next]_vars
  BY <1>1 DEF Call, PutLands, Reply, Deadline, Timer, Next
<1>2. CASE Return
  BY <1>2 DEF Return
<1>3. QED
  BY <1>1, <1>2, CodeStep DEF StorageNext

(* A crash leaves an empty queue: no call, no request, no count. *)
LEMMA CrashStep ==
  ASSUME IInv, Crash
  PROVE  IInv'
<1> USE DEF IInv, TypeOK, Crash
<1>1. TypeOK'
  BY DEF Phases, Replies
<1>2. \A t \in Task : phase'[t] \in {"idle", "done"}
  OBVIOUS
<1>3. ChainInv'
  BY <1>1, <1>2 DEF ChainInv, Active
<1>4. RequestInv'
  BY <1>2 DEF RequestInv, OneHostRequest
<1>5. \A t \in ended' : phase'[t] # "idle"
  BY DEF TimerInv
<1>6. TimerInv'
  BY <1>5 DEF TimerInv, Replies
<1>7. QED
  BY <1>1, <1>3, <1>4, <1>6

(* The initial state satisfies the storage invariant. *)
LEMMA StorageInitInv == StorageInit => StorageInv
<1> SUFFICES ASSUME StorageInit
             PROVE  StorageInv
  OBVIOUS
<1> USE DEF StorageInit, Init
<1>1. ShapeInv
  BY FilesAssumption DEF ShapeInv, NoMem, Pcs, LoadPcs
<1>2. StageInv
  BY DEF StageInv
<1>3. MarkerInv
  BY DEF MarkerInv, Active
<1>4. SaveInv
  BY FilesAssumption, StorageAssumption DEF SaveInv, NoMem
<1>5. QED
  BY <1>1, <1>2, <1>3, <1>4 DEF StorageInv

(* Steps that change neither the files nor what a call has read or asked, and  *)
(* that start no call anew, keep the storage invariant.                        *)
LEMMA PhaseStep ==
  ASSUME TypeOK, StorageInv, NEW t \in Task, NEW p \in Phases,
         phase' = [phase EXCEPT ![t] = p],
         p \in {"queued", "running", "done"},
         p = "queued" => phase[t] = "idle",
         p = "running" => phase[t] = "queued",
         UNCHANGED <<answer, disk, pc, mem, saveState>>
  PROVE  StorageInv'
<1> USE DEF TypeOK, StorageInv
<1>1. ShapeInv'
  BY DEF ShapeInv, File
<1>2. StageInv'
  BY DEF StageInv, Phases, Active
<1>3. MarkerInv'
  BY DEF MarkerInv, StageInv, Active
<1>4. SaveInv'
  BY DEF SaveInv
<1>5. QED
  BY <1>1, <1>2, <1>3, <1>4

(* A call asks for p.  A request that belongs to a load without a marker is    *)
(* made only while there is still none.                                        *)
LEMMA AskStep ==
  ASSUME TypeOK, StorageInv, NEW t \in Task, NEW p \in Pcs,
         Ask(t, p), UNCHANGED <<disk, mem>>,
         p # "start",
         p = "readMarker" => answer[t] = "none",
         p \in {"readAudit", "readLegacyPolicy", "readLegacyAudit"} => mem[t].marker = "missing",
         p \in {"readPolicy", "readAudit", "readLegacyPolicy", "readLegacyAudit"}
           /\ mem[t].marker = "missing" => disk.marker = "missing",
         \/ p # "putSave" /\ saveState' = saveState
         \/ t \in Saves /\ saveState' = [saveState EXCEPT ![t] = "unknown"]
  PROVE  StorageInv'
<1> USE DEF TypeOK, StorageInv, Ask, Wait
<1>1. ShapeInv'
  BY DEF ShapeInv, File
<1>2. StageInv'
  BY DEF StageInv, ShapeInv, Phases, Active
<1>3. MarkerInv'
  BY DEF MarkerInv, ShapeInv, Active
<1>4. SaveInv'
  BY StorageAssumption DEF SaveInv, ShapeInv
<1>5. QED
  BY <1>1, <1>2, <1>3, <1>4

(* The migration asks for the requests of a load only.                         *)
LEMMA LoadRequests ==
  ASSUME NEW t \in Task, InLoad(t), Answered(t), LoadNext(t) # "loaded"
  PROVE  /\ LoadNext(t) \in LoadPcs \ {"start"}
         /\ LoadNext(t) = "readMarker" => pc[t] = "start"
         /\ LoadNext(t) = "readPolicy" => pc[t] = "readMarker"
         /\ LoadNext(t) \in {"readAudit", "readLegacyPolicy", "readLegacyAudit"} =>
              \/ pc[t] = "readPolicy" /\ mem[t].marker = "missing"
              \/ pc[t] \in {"readAudit", "readLegacyPolicy"}
         /\ answer[t] \in {"none", "ok"}
  BY DEF InLoad, Answered, LoadNext, NextOfLoad, LoadPcs, AfterPolicyRead, AfterAuditRead,
     AfterLegacyReads, Sealing

(* The migration goes on.                                                      *)
LEMMA MigrationInv ==
  ASSUME TypeOK, StorageInv, NEW t \in Task, MigrationStep(t)
  PROVE  StorageInv'
<1> DEFINE p == LoadNext(t)
<1>1. /\ p \in LoadPcs \ {"start"}
      /\ p = "readMarker" => pc[t] = "start"
      /\ p = "readPolicy" => pc[t] = "readMarker"
      /\ p \in {"readAudit", "readLegacyPolicy", "readLegacyAudit"} =>
           \/ pc[t] = "readPolicy" /\ mem[t].marker = "missing"
           \/ pc[t] \in {"readAudit", "readLegacyPolicy"}
      /\ answer[t] \in {"none", "ok"}
  BY LoadRequests DEF MigrationStep
<1>2. p \in Pcs /\ p # "putSave" /\ p # "start"
  BY <1>1 DEF Pcs, LoadPcs
<1>3. p = "readMarker" => answer[t] = "none"
  BY <1>1 DEF StorageInv, StageInv
<1>4. p = "readPolicy" => answer[t] = "ok"
  BY <1>1 DEF StorageInv, StageInv, MigrationStep, Running
<1>5. p \in {"readPolicy", "readAudit", "readLegacyPolicy", "readLegacyAudit"}
        /\ mem[t].marker = "missing" => disk.marker = "missing"
  BY <1>1, <1>4 DEF StorageInv, MarkerInv, MigrationStep, Running, Active
<1>6. p \in {"readAudit", "readLegacyPolicy", "readLegacyAudit"} => mem[t].marker = "missing"
  BY <1>1 DEF StorageInv, StageInv
<1>7. Ask(t, p) /\ UNCHANGED <<disk, mem, saveState>>
  BY DEF MigrationStep, fileVars, storeVars
<1> HIDE DEF p
<1>8. QED
  BY <1>2, <1>3, <1>5, <1>6, <1>7, AskStep

(* A commit, or an answer to the caller, changes what the call asked last at    *)
(* most.                                                                       *)
LEMMA CommitInv ==
  ASSUME TypeOK, StorageInv, NEW t \in Task, ReloadCommits(t) \/ SaveCommits(t)
  PROVE  StorageInv'
<1> USE DEF TypeOK, StorageInv, ReloadCommits, SaveCommits, vars, fileVars
<1>1. phase[t] = "running" /\ UNCHANGED <<phase, answer, disk, mem>>
  BY DEF Running
<1>2. pc' = [pc EXCEPT ![t] = "committed"] /\ "committed" \in Pcs
  BY DEF Pcs
<1>3. answer[t] # "none"
  BY <1>1 DEF StageInv, AtCommit, LoadNext, NextOfLoad
<1>4. \/ saveState' = saveState
      \/ t \in Saves /\ saveState' = [saveState EXCEPT ![t] = "saved"]
  BY StorageAssumption DEF ShapeInv, SaveInv
<1>5. ShapeInv'
  BY <1>1, <1>2, <1>4 DEF ShapeInv, File
<1>6. StageInv'
  BY <1>1, <1>2, <1>3 DEF StageInv, ShapeInv
<1>7. MarkerInv'
  BY <1>1, <1>2 DEF MarkerInv, ShapeInv
<1>8. SaveInv'
  BY <1>1, <1>2, <1>4, StorageAssumption DEF SaveInv, ShapeInv
<1>9. QED
  BY <1>5, <1>6, <1>7, <1>8

(* What a call has read, and the saved policies, stay distinct from a policy   *)
(* that was not sent, also when a write lands late.                            *)
LEMMA PutLandsInv ==
  ASSUME IInv, StorageInv, NEW t \in Task, PutLands(t)
  PROVE  StorageInv'
<1> USE DEF IInv, StorageInv, PutLands, vars, storeVars, localVars
<1>1. UNCHANGED <<phase, answer, pc, mem, saveState>> /\ disk' = Written(t)
  OBVIOUS
<1>2. ShapeInv'
  BY <1>1 DEF ShapeInv, Written, File
<1>3. StageInv'
  BY <1>1 DEF StageInv
<1>4. \A u \in Task : phase[u] \in Active => u = t
  BY DEF RequestInv
<1>5. MarkerInv'
  BY <1>1, <1>4 DEF MarkerInv, PutPcs
<1>6. DecidedPolicy(t) \notin {s \in Saves : saveState[s] = "not_saved"}
  BY FilesAssumption DEF DecidedPolicy, SaveInv
<1>7. disk'.policy \in {disk.policy, DecidedPolicy(t)} \/ (pc[t] = "putSave" /\ disk'.policy = t)
  BY <1>1 DEF Written, ShapeInv, File
<1>8. SaveInv'
  BY <1>1, <1>6, <1>7 DEF SaveInv
<1>9. QED
  BY <1>2, <1>3, <1>5, <1>8

(* An answer hands the call what the directory holds at that moment.           *)
LEMMA ReplyInv ==
  ASSUME IInv, StorageInv, NEW t \in Task, Reply(t)
  PROVE  StorageInv'
<1> USE DEF IInv, StorageInv, TypeOK
<1>1. /\ UNCHANGED <<disk, pc, saveState>>
      /\ mem' = [mem EXCEPT ![t] = IF answer'[t] = "ok" THEN Remembered(t) ELSE mem[t]]
  BY DEF Reply, fileVars, storeVars
<1>2. \/ /\ phase[t] = "waiting"
         /\ phase' = [phase EXCEPT ![t] = "resumed"]
         /\ \E r \in {"ok", "error"} : answer' = [answer EXCEPT ![t] = r]
      \/ UNCHANGED <<phase, answer>>
  BY DEF Reply, HostSettles
<1>3. /\ Remembered(t) = [marker |-> Remembered(t).marker, policy |-> Remembered(t).policy,
                          audit |-> Remembered(t).audit,
                          legacyPolicy |-> Remembered(t).legacyPolicy,
                          legacyAudit |-> Remembered(t).legacyAudit]
      /\ Remembered(t).marker = IF pc[t] = "readMarker" THEN disk.marker ELSE mem[t].marker
      /\ Remembered(t).policy \in {disk.policy, mem[t].policy}
      /\ Remembered(t).legacyPolicy \in {LegacyPolicy, mem[t].legacyPolicy}
  BY DEF Remembered, ShapeInv
<1>4. ShapeInv'
  BY <1>1, <1>3 DEF ShapeInv
<1>5. StageInv'
  BY <1>1, <1>2, <1>3 DEF StageInv, ShapeInv
<1>6. MarkerInv'
  BY <1>1, <1>2, <1>3 DEF MarkerInv, ShapeInv, Active
<1>7. SaveInv'
  BY <1>1, <1>3, FilesAssumption DEF SaveInv, ShapeInv
<1>8. QED
  BY <1>4, <1>5, <1>6, <1>7

(* The steps in which the queue moves a call that is asking, or was answered.  *)
LEMMA WaitingInv ==
  ASSUME TypeOK, StorageInv, NEW t \in Task, Send(t) \/ Resumes(t) \/ Timer(t)
  PROVE  StorageInv'
<1> USE DEF TypeOK, StorageInv
<1>1. UNCHANGED <<disk, pc, mem, saveState>>
  BY DEF Send, Resumes, Timer, storeVars, localVars, storageVars, fileVars
<1>2. \/ /\ phase[t] \in {"starting", "waiting", "resumed"}
         /\ \/ phase' = [phase EXCEPT ![t] = "waiting"] /\ answer' = answer
            \/ /\ phase' = [phase EXCEPT ![t] = "running"]
               /\ \/ answer' = [answer EXCEPT ![t] = "timeout"]
                  \/ phase[t] = "resumed" /\ answer' = answer
      \/ UNCHANGED <<phase, answer>>
  <2>1. CASE Send(t)
    BY <2>1 DEF Send, StartRequest
  <2>2. CASE Resumes(t)
    BY <2>2 DEF Resumes, Resume
  <2>3. CASE Timer(t)
    BY <2>3 DEF Timer, TimerFires
  <2>4. QED
    BY <2>1, <2>2, <2>3
<1>3. ShapeInv'
  BY <1>1 DEF ShapeInv, File
<1>4. StageInv'
  BY <1>1, <1>2 DEF StageInv
<1>5. MarkerInv'
  BY <1>1, <1>2 DEF MarkerInv, Active
<1>6. SaveInv'
  BY <1>1 DEF SaveInv
<1>7. QED
  BY <1>3, <1>4, <1>5, <1>6

(* A crash ends every call and keeps the files.                                *)
LEMMA CrashInv ==
  ASSUME TypeOK, StorageInv, Crash
  PROVE  StorageInv'
<1> USE DEF TypeOK, StorageInv, Crash, fileVars
<1>1. ShapeInv'
  BY DEF ShapeInv, File
<1>2. StageInv'
  BY DEF StageInv
<1>3. MarkerInv'
  BY DEF MarkerInv, Active
<1>4. SaveInv'
  BY DEF SaveInv
<1>5. QED
  BY <1>1, <1>2, <1>3, <1>4

(* A call enters the queue, or leaves it.                                      *)
LEMMA CallInv ==
  ASSUME TypeOK, StorageInv, NEW t \in Task,
         Call(t) \/ Enter(t) \/ Complete(t) \/ AuditCompletes(t)
  PROVE  StorageInv'
<1>1. UNCHANGED <<answer, disk, pc, mem, saveState>>
  BY DEF Call, Run, Enter, Begin, Complete, AuditCompletes, storageVars, storeVars,
     localVars, fileVars
<1>2. CASE Call(t)
  BY <1>1, <1>2, PhaseStep DEF Call, Run, Phases, Active
<1>3. CASE Enter(t)
  BY <1>1, <1>3, PhaseStep DEF Enter, Begin, Settle, Phases, Active
<1>4. CASE Complete(t) \/ AuditCompletes(t)
  BY <1>1, <1>4, PhaseStep DEF Complete, AuditCompletes, Settle, Phases, Active
<1>5. QED
  BY <1>2, <1>3, <1>4

(* The requests of a save and of an audit append.                              *)
LEMMA OtherRequestsInv ==
  ASSUME TypeOK, StorageInv, NEW t \in Task,
         \/ SaveCommitsLoad(t)
         \/ SaveReadsBack(t)
         \/ AuditReads(t)
         \/ AuditWrites(t)
         \/ AuditWarns(t)
  PROVE  StorageInv'
<1>1. UNCHANGED <<disk, mem>>
  BY DEF SaveCommitsLoad, SaveReadsBack, AuditReads, AuditWrites, AuditWarns, fileVars
<1>2. CASE SaveCommitsLoad(t)
  BY <1>1, <1>2, AskStep DEF SaveCommitsLoad, Pcs, SavePcs
<1>3. CASE SaveReadsBack(t)
  BY <1>1, <1>3, AskStep DEF SaveReadsBack, storeVars, Pcs, SavePcs
<1>4. CASE AuditReads(t)
  BY <1>1, <1>4, AskStep DEF AuditReads, storeVars, Pcs, AuditPcs
<1>5. CASE AuditWrites(t)
  BY <1>1, <1>5, AskStep DEF AuditWrites, storeVars, Pcs, AuditPcs
<1>6. CASE AuditWarns(t)
  BY <1>1, <1>6, AskStep DEF AuditWarns, storeVars, Pcs, AuditPcs
<1>7. QED
  BY <1>2, <1>3, <1>4, <1>5, <1>6

(* The storage invariant is inductive, given the queue's.                      *)
LEMMA StorageNextInv ==
  ASSUME IInv, StorageInv, [StorageNext]_allVars
  PROVE  StorageInv'
<1>1. TypeOK
  BY DEF IInv
<1>2. ASSUME NEW t \in Task, Code(t)
      PROVE  StorageInv'
  BY <1>1, <1>2, CallInv, MigrationInv, CommitInv, OtherRequestsInv, WaitingInv DEF Code
<1>3. ASSUME NEW t \in Task, Deadline(t)
      PROVE  StorageInv'
  BY <1>3
  DEF Deadline, DeadlinePasses, storageVars, fileVars, storeVars, localVars, StorageInv,
      ShapeInv, StageInv, MarkerInv, SaveInv, File
<1>4. CASE Return
  BY <1>4
  DEF Return, vars, fileVars, localVars, StorageInv, ShapeInv, StageInv, MarkerInv,
      SaveInv, File
<1>5. CASE UNCHANGED allVars
  BY <1>5
  DEF allVars, vars, storageVars, fileVars, storeVars, localVars, StorageInv, ShapeInv,
      StageInv, MarkerInv, SaveInv, File
<1>6. QED
  BY <1>1, <1>2, <1>3, <1>4, <1>5, CallInv, PutLandsInv, ReplyInv, WaitingInv, CrashInv
  DEF StorageNext

(* Both invariants hold in every reachable state of the storage.               *)
THEOREM StorageCorrect == StorageSpec => [](IInv /\ StorageInv)
<1>1. StorageInit => IInv /\ StorageInv
  BY InitInv, StorageInitInv DEF StorageInit
<1>2. IInv /\ StorageInv /\ [StorageNext]_allVars => (IInv /\ StorageInv)'
  BY QueueStep, CrashStep, NextInv, StorageNextInv DEF allVars, vars
<1>3. QED
  BY <1>1, <1>2, PTL DEF StorageSpec

(* A save that reports "not_saved" stored nothing, whatever timed out, landed  *)
(* late or crashed (policy-storage.ts:57-65).                                  *)
THEOREM NotSavedNotStored == StorageSpec => []NotSavedNeverStored
<1>1. IInv /\ StorageInv => NotSavedNeverStored
  BY DEF StorageInv, SaveInv, NotSavedNeverStored
<1>2. QED
  BY <1>1, StorageCorrect, PTL

(* The legacy directory is asked only by a call that found no marker, and while *)
(* that call is under way nobody else writes one: two migrations never overlap. *)
LEMMA LegacyStep ==
  ASSUME IInv, StorageInv, LegacyReadOnlyOnce, [StorageNext]_allVars
  PROVE  LegacyReadOnlyOnce'
<1> USE DEF LegacyReadOnlyOnce
<1>1. ASSUME NEW t \in Task, MigrationStep(t)
      PROVE  LegacyReadOnlyOnce'
  <2>1. LoadNext(t) \in {"readLegacyPolicy", "readLegacyAudit"} =>
          \/ pc[t] = "readPolicy" /\ mem[t].marker = "missing"
          \/ pc[t] \in {"readAudit", "readLegacyPolicy"}
    BY <1>1, LoadRequests DEF MigrationStep
  <2>2. LoadNext(t) \in {"readLegacyPolicy", "readLegacyAudit"} => disk.marker = "missing"
    BY <1>1, <2>1
    DEF MigrationStep, Running, StorageInv, StageInv, MarkerInv, Active
  <2>3. QED
    BY <1>1, <2>2 DEF MigrationStep, Ask
<1>2. ASSUME NEW t \in Task, Code(t), ~MigrationStep(t)
      PROVE  UNCHANGED legacyRead
  BY <1>2
  DEF Code, Enter, ReloadCommits, SaveCommitsLoad, SaveReadsBack, SaveCommits, Complete,
      AuditReads, AuditWrites, AuditWarns, AuditCompletes, Send, Resumes, Ask, Run,
      storageVars, localVars
<1>3. ASSUME NEW t \in Task,
             Call(t) \/ PutLands(t) \/ Reply(t) \/ Deadline(t) \/ Timer(t)
      PROVE  UNCHANGED legacyRead
  BY <1>3 DEF Call, PutLands, Reply, Deadline, Timer, storageVars, localVars
<1>4. Return \/ Crash \/ UNCHANGED allVars => UNCHANGED legacyRead
  BY DEF Return, Crash, allVars, storageVars, localVars
<1>5. QED
  BY <1>1, <1>2, <1>3, <1>4 DEF StorageNext

(* Once a marker is on disk no call reads the legacy directory again           *)
(* (migration.ts:9-13), for any number of calls, crashes and late writes.      *)
THEOREM LegacyReadOnce == StorageSpec => []LegacyReadOnlyOnce
<1>1. StorageInit => LegacyReadOnlyOnce
  BY DEF StorageInit, LegacyReadOnlyOnce
<1>2. QED
  BY <1>1, LegacyStep, StorageCorrect, PTL DEF StorageSpec

(* The host never serves two requests of the storage at once, so a migration  *)
(* write, a save and an audit append never overlap, also when the first of    *)
(* them is an orphan (policy-sync.ts:62, policy-storage.ts:38).               *)
THEOREM StorageOneRequest == StorageSpec => []OneHostRequest
<1>1. IInv => OneHostRequest
  BY DEF IInv, RequestInv
<1>2. QED
  BY <1>1, StorageCorrect, PTL

(* Without crashes the storage is an implementation of its queue.             *)
THEOREM StorageImplementsQueue ==
  ASSUME MaxCrashes = 0
  PROVE  StorageSpec => ImplementsQueue
<1>1. StorageInit => Init /\ crashes = 0
  BY DEF StorageInit
<1>2. crashes = 0 /\ [StorageNext]_allVars => (crashes = 0)' /\ [Next]_vars
  <2>1. crashes = 0 => ~Crash
    BY DEF Crash
  <2>2. ASSUME crashes = 0, StorageNext PROVE crashes' = 0
    BY <2>1, <2>2
    DEF StorageNext, Code, Call, Enter, MigrationStep, ReloadCommits, SaveCommitsLoad,
        SaveReadsBack, SaveCommits, Complete, AuditReads, AuditWrites, AuditWarns,
        AuditCompletes, Send, Resumes, PutLands, Reply, Deadline, Timer, Return,
        storageVars
  <2>3. QED
    BY <2>1, <2>2, QueueStep DEF allVars, storageVars, vars
<1>3. QED
  BY <1>1, <1>2, PTL DEF StorageSpec, ImplementsQueue, Spec

-----------------------------------------------------------------------------
(* The invariant. *)

(* The call has the storage: nobody else's request is in flight. *)
Holds(t) == phase[t] \in Active \/ t \in outstanding

(* The last request of the call was answered, and the call goes on from it. *)
Has(t) == phase[t] \in {"resumed", "running"} /\ answer[t] = "ok"

(* The write the call asked for has not landed. *)
Unwritten(t) == phase[t] = "starting" \/ t \in outstanding \ landed

BeforePolicy == {"start", "readMarker", "readPolicy"}
BeforeAudit == BeforePolicy \cup {"readAudit"}
LegacyPcs == {"readLegacyPolicy", "readLegacyAudit"}

(* KindInv: a call makes the requests of its kind, and commits at its end.     *)
KindInv(t) ==
  /\ t \in Audits => pc[t] \in AuditPcs \cup {"start"}
  /\ t \in Reloads => pc[t] \in LoadPcs \cup {"committed"}
  /\ t \in Saves => pc[t] \in LoadPcs \cup SavePcs \cup {"committed"}
  /\ pc[t] = "committed" => phase[t] \in {"running", "done"}
  /\ t \in outstanding /\ phase[t] # "waiting" => answer[t] = "timeout"

(* ReadInv: a load goes on only from what it can read, and writes only what is *)
(* missing.                                                                     *)
ReadInv(t) ==
  t \notin Audits =>
    /\ pc[t] \notin BeforePolicy => mem[t].policy # "corrupt"
    /\ pc[t] \in {"readLegacyPolicy", "putPolicy", "checkPolicy"} => PolicyMissing(t)
    /\ pc[t] # "readLegacyPolicy" => mem[t].legacyPolicy # "corrupt"
    /\ pc[t] \in BeforeAudit => mem[t].legacyAudit.log = <<>>
    /\ pc[t] \notin BeforeAudit /\ mem[t].marker = "missing" => mem[t].audit.state # "corrupt"
    /\ mem[t].legacyAudit.log # <<>> =>
         AuditEmpty(t) /\ mem[t].marker = "missing" /\ mem[t].legacyAudit = LegacyAudit
    /\ pc[t] = "readLegacyAudit" => AuditEmpty(t)
    /\ pc[t] = "putAudit" => mem[t].legacyAudit.log # <<>>

(* PolicyKnown, LogKnown: while the call has the storage, the files are what    *)
(* it read, until its own write has landed.                                     *)
PolicyKnown(t) ==
  /\ \/ pc[t] = "readPolicy" /\ Has(t)
     \/ pc[t] \in LegacyPcs \cup {"readAudit"}
     \/ pc[t] = "putPolicy" /\ Unwritten(t)
     => disk.policy = mem[t].policy
  /\ \/ pc[t] = "checkPolicy" /\ Has(t)
     \/ pc[t] \in {"putAudit", "checkAudit", "putMarker", "checkMarker", "sealMarker", "checkSeal"}
     \/ pc[t] = "putSave" /\ Unwritten(t)
     => disk.policy = DecidedPolicy(t)
  /\ pc[t] = "checkSave" /\ Has(t) => disk.policy = t

LogKnown(t) ==
  /\ mem[t].marker = "missing" /\ t \notin Audits =>
       (\/ pc[t] = "readAudit" /\ Has(t)
        \/ pc[t] \in LegacyPcs \cup {"putPolicy", "checkPolicy"}
        \/ pc[t] = "putAudit" /\ Unwritten(t)
        => disk.audit = mem[t].audit)
  /\ t \in Audits =>
       /\ (\/ pc[t] = "readLog" /\ Has(t)
           \/ pc[t] = "putLog" /\ Unwritten(t)
           => disk.audit = mem[t].audit)
       /\ pc[t] = "putLog" => mem[t].audit.state # "corrupt"

DiskKnown(t) == Holds(t) => PolicyKnown(t) /\ LogKnown(t)

CallFiles(t) == KindInv(t) /\ ReadInv(t) /\ DiskKnown(t)

FilesInv == \A t \in Task : CallFiles(t)

(* The policy the tools obey. *)
(* OwnerInv: a load under way owns `active`; what it has committed is on disk.  *)
OwnerInv ==
  \A t \in Task \ Audits :
    phase[t] \in Active =>
      active = t /\ IF pc[t] = "committed" THEN Ready ELSE loadState = "loading"

(* CatchInv: catch blocks are of calls that ended; a blocked call was refused   *)
(* for an orphan that is still there.                                           *)
CatchInv ==
  /\ catching \in Seq(Task \ Audits)
  /\ \A i \in 1..Len(catching) :
       /\ phase[catching[i]] = "done"
       /\ caller[catching[i]] = "blocked" => \E o \in outstanding : phase[o] = "done"

(* LoadInv: a load that has not answered is under way or its catch block is;    *)
(* an answered one shows the disk, and nothing can still change it.             *)
LoadInv ==
  /\ loadState \in {"loading", "loaded", "initial-default", "unavailable"}
  /\ loadState = "loading" =>
       /\ active \in Task \ Audits
       /\ \/ phase[active] \in Active
          \/ caller[active] # "value" /\ \E i \in 1..Len(catching) : catching[i] = active
  /\ loadState = "unavailable" => policy = "default"
  /\ Ready => policy = disk.policy /\ outstanding \subseteq Audits

PendingInv == \A t \in Task : IsQueued(t) => caller[t] = "pending"

PublishInv == OwnerInv /\ CatchInv /\ LoadInv /\ PendingInv

-----------------------------------------------------------------------------
(* The files. *)

(* Before any call nothing is asked and nothing is read.                       *)
LEMMA FilesInit ==
  ASSUME StorageInit
  PROVE  FilesInv
<1> SUFFICES ASSUME NEW t \in Task
             PROVE  CallFiles(t)
  BY DEF FilesInv
<1>1. phase[t] = "idle" /\ pc[t] = "start" /\ mem[t] = NoMem /\ outstanding = {}
  BY DEF StorageInit, Init
<1>2. KindInv(t)
  BY <1>1 DEF KindInv, LoadPcs
<1>3. ReadInv(t)
  BY <1>1 DEF ReadInv, NoMem, NoLog, BeforePolicy, BeforeAudit
<1>4. ~Holds(t)
  BY <1>1 DEF Holds, Active
<1>5. QED
  BY <1>2, <1>3, <1>4 DEF CallFiles, DiskKnown

(* A step of call t leaves alone what another call knows: it moves no other    *)
(* call, and a file changes only when that other call has not the storage.     *)
LEMMA OthersFiles ==
  ASSUME FilesInv, NEW t \in Task, CallFiles(t)',
         \A u \in Task \ {t} :
           /\ phase'[u] = phase[u] /\ answer'[u] = answer[u]
           /\ pc'[u] = pc[u] /\ mem'[u] = mem[u]
           /\ (u \in outstanding') = (u \in outstanding)
           /\ (u \in landed') = (u \in landed)
           /\ disk' = disk \/ ~Holds(u)
  PROVE  FilesInv'
<1> SUFFICES ASSUME NEW u \in Task, u # t
             PROVE  CallFiles(u)'
  BY DEF FilesInv
<1>1. CallFiles(u)
  BY DEF FilesInv
<1>2. KindInv(u)'
  BY <1>1 DEF CallFiles, KindInv
<1>3. ReadInv(u)'
  BY <1>1 DEF CallFiles, ReadInv, PolicyMissing, AuditEmpty
<1>4. Holds(u)' = Holds(u)
  BY DEF Holds
<1>5. disk' = disk => (PolicyKnown(u) => PolicyKnown(u)') /\ (LogKnown(u) => LogKnown(u)')
  BY DEF PolicyKnown, LogKnown, Has, Unwritten, DecidedPolicy, PolicyMissing
<1>6. DiskKnown(u)'
  BY <1>1, <1>4, <1>5 DEF CallFiles, DiskKnown
<1>7. QED
  BY <1>2, <1>3, <1>6 DEF CallFiles

(* The storage belongs to one call.                                            *)
LEMMA OneHolder ==
  ASSUME IInv, NEW t \in Task, NEW u \in Task, Holds(t), Holds(u)
  PROVE  t = u
  BY DEF IInv, ChainInv, RequestInv, Holds, OneHostRequest, Current

(* A call that is not asked, nor answered, nor a new one, keeps what it knows. *)
LEMMA MoveFiles ==
  ASSUME TypeOK, FilesInv, NEW t \in Task, NEW p \in Phases,
         phase' = [phase EXCEPT ![t] = p],
         \/ p = "queued" /\ phase[t] = "idle"
         \/ p = "running" /\ phase[t] = "queued" /\ pc[t] = "start"
         \/ p = "done" /\ phase[t] # "waiting",
         UNCHANGED <<answer, outstanding, disk, landed, pc, mem>>
  PROVE  FilesInv'
<1>1. CallFiles(t)
  BY DEF FilesInv
<1>2. phase'[t] = p
  BY DEF TypeOK
<1>3. KindInv(t)'
  BY <1>1, <1>2 DEF CallFiles, KindInv
<1>4. ReadInv(t)'
  BY <1>1 DEF CallFiles, ReadInv, PolicyMissing, AuditEmpty
<1>5. pc[t] = "start" => PolicyKnown(t)' /\ LogKnown(t)'
  BY DEF PolicyKnown, LogKnown, LegacyPcs
<1>6. p # "running" /\ Holds(t)' => Holds(t)
  BY <1>2 DEF Holds, Active
<1>7. p # "running" => (PolicyKnown(t) => PolicyKnown(t)') /\ (LogKnown(t) => LogKnown(t)')
  BY <1>2 DEF PolicyKnown, LogKnown, Has, Unwritten, DecidedPolicy, PolicyMissing
<1>8. DiskKnown(t)'
  BY <1>1, <1>5, <1>6, <1>7 DEF CallFiles, DiskKnown
<1>9. CallFiles(t)'
  BY <1>3, <1>4, <1>8 DEF CallFiles
<1>10. QED
  BY <1>9, OthersFiles DEF TypeOK

(* What must be known of the files when call t asks for p.                     *)
CanAsk(t, p) ==
  /\ p \in Pcs \ {"start", "committed"}
  /\ t \in Audits => p \in AuditPcs
  /\ t \in Reloads => p \in LoadPcs
  /\ t \in Saves => p \in LoadPcs \cup SavePcs
  /\ t \notin Audits =>
       /\ p \notin BeforePolicy => mem[t].policy # "corrupt"
       /\ p \in {"readLegacyPolicy", "putPolicy", "checkPolicy"} => PolicyMissing(t)
       /\ p # "readLegacyPolicy" => mem[t].legacyPolicy # "corrupt"
       /\ p \in BeforeAudit => mem[t].legacyAudit.log = <<>>
       /\ p \notin BeforeAudit /\ mem[t].marker = "missing" => mem[t].audit.state # "corrupt"
       /\ p = "readLegacyAudit" => AuditEmpty(t)
       /\ p = "putAudit" => mem[t].legacyAudit.log # <<>>
  /\ p \in LegacyPcs \cup {"readAudit", "putPolicy"} => disk.policy = mem[t].policy
  /\ p \in {"putAudit", "checkAudit", "putMarker", "checkMarker", "sealMarker", "checkSeal",
            "putSave"} => disk.policy = DecidedPolicy(t)
  /\ mem[t].marker = "missing" /\ t \notin Audits
       /\ p \in LegacyPcs \cup {"putPolicy", "checkPolicy", "putAudit"} => disk.audit = mem[t].audit
  /\ p = "putLog" => disk.audit = mem[t].audit /\ mem[t].audit.state # "corrupt"

LEMMA AskFiles ==
  ASSUME IInv, FilesInv, ShapeInv, NEW t \in Task, NEW p,
         Ask(t, p), CanAsk(t, p), answer[t] # "timeout" \/ InTime(t),
         UNCHANGED <<disk, landed, mem>>
  PROVE  FilesInv'
<1>1. CallFiles(t)
  BY DEF FilesInv
<1>2. /\ pc'[t] = p /\ mem'[t] = mem[t]
      /\ t \notin outstanding /\ outstanding' = outstanding
      /\ phase[t] = "running"
      /\ \/ phase'[t] = "starting" /\ answer' = answer
         \/ phase'[t] = "running" /\ answer'[t] = "timeout"
  BY <1>1 DEF Ask, Wait, ShapeInv, IInv, TypeOK, RequestInv, InTime, CallFiles, KindInv
<1>3. KindInv(t)'
  BY <1>2 DEF CanAsk, KindInv
<1>4. ReadInv(t)'
  BY <1>1, <1>2 DEF CanAsk, CallFiles, ReadInv, PolicyMissing, AuditEmpty
<1>5. ~Has(t)'
  BY <1>2 DEF Has
<1>6. DecidedPolicy(t)' = DecidedPolicy(t)
  BY DEF DecidedPolicy, PolicyMissing
<1>7. PolicyKnown(t)'
  BY <1>2, <1>5, <1>6 DEF CanAsk, PolicyKnown
<1>8. LogKnown(t)'
  BY <1>2, <1>5 DEF CanAsk, LogKnown
<1>9. CallFiles(t)'
  BY <1>3, <1>4, <1>7, <1>8 DEF CallFiles, DiskKnown
<1>10. \A u \in Task \ {t} : phase'[u] = phase[u] /\ answer'[u] = answer[u] /\ pc'[u] = pc[u]
  BY DEF Ask, Wait, IInv, TypeOK, ShapeInv
<1>11. QED
  BY <1>2, <1>9, <1>10, OthersFiles

(* The next request of a load is asked with what it needs known.               *)
LEMMA LoadAsks ==
  ASSUME StorageInv, FilesInv, NEW t \in Task, Running(t), InLoad(t), Answered(t),
         LoadNext(t) # "loaded"
  PROVE  CanAsk(t, LoadNext(t)) /\ answer[t] # "timeout"
<1> DEFINE p == LoadNext(t)
<1>1. CallFiles(t)
  BY DEF FilesInv
<1>2. /\ t \notin Audits /\ phase[t] = "running"
      /\ answer[t] \in {"none", "ok"} /\ ~MigrationRefuses(t)
      /\ p = NextOfLoad(t)
      /\ pc[t] \in LoadPcs
  BY DEF InLoad, Answered, LoadNext, Running
<1>3. answer[t] = "none" => pc[t] = "start"
  BY <1>2 DEF StorageInv, StageInv
<1>4. PolicyKnown(t) /\ LogKnown(t) /\ ReadInv(t)
  BY <1>1, <1>2 DEF CallFiles, DiskKnown, Holds, Active
<1>5. pc[t] # "start" => Has(t)
  BY <1>2, <1>3 DEF Has, StorageInv, StageInv
<1>6. p \in LoadPcs \ {"start"}
  BY LoadRequests DEF Answered
<1>7. t \in Reloads \cup Saves
  BY <1>2, StorageAssumption
<1>8. /\ p \notin BeforePolicy => mem[t].policy # "corrupt"
      /\ p \in {"readLegacyPolicy", "putPolicy", "checkPolicy"} => PolicyMissing(t)
      /\ p # "readLegacyPolicy" => mem[t].legacyPolicy # "corrupt"
  BY <1>2, <1>4
  DEF NextOfLoad, LoadPcs, ReadInv, MigrationRefuses, AfterPolicyRead, AfterAuditRead,
      AfterLegacyReads, Sealing, BeforePolicy
<1>9. /\ p \in BeforeAudit => mem[t].legacyAudit.log = <<>>
      /\ p \notin BeforeAudit /\ mem[t].marker = "missing" => mem[t].audit.state # "corrupt"
      /\ p = "readLegacyAudit" => AuditEmpty(t)
      /\ p = "putAudit" => mem[t].legacyAudit.log # <<>>
  BY <1>2, <1>4
  DEF NextOfLoad, LoadPcs, ReadInv, MigrationRefuses, AfterPolicyRead, AfterAuditRead,
      AfterLegacyReads, Sealing, BeforePolicy, BeforeAudit
<1>10. /\ p \in LegacyPcs \cup {"readAudit", "putPolicy"} => disk.policy = mem[t].policy
       /\ p \in {"putAudit", "checkAudit", "putMarker", "checkMarker", "sealMarker", "checkSeal"}
            => disk.policy = DecidedPolicy(t)
  BY <1>2, <1>4, <1>5
  DEF NextOfLoad, LoadPcs, LegacyPcs, PolicyKnown, MigrationRefuses, AfterPolicyRead,
      AfterAuditRead, AfterLegacyReads, Sealing, DecidedPolicy
<1>11. mem[t].marker = "missing" /\ p \in LegacyPcs \cup {"putPolicy", "checkPolicy", "putAudit"}
         => disk.audit = mem[t].audit
  BY <1>2, <1>4, <1>5
  DEF NextOfLoad, LoadPcs, LegacyPcs, LogKnown, AfterPolicyRead, AfterAuditRead,
      AfterLegacyReads, Sealing
<1>12. p \notin {"putSave", "putLog", "committed"} /\ p \in Pcs
  BY <1>6 DEF LoadPcs, Pcs
<1> HIDE DEF p
<1>13. CanAsk(t, p)
  BY <1>2, <1>6, <1>7, <1>8, <1>9, <1>10, <1>11, <1>12 DEF CanAsk
<1>14. QED
  BY <1>2, <1>13 DEF p

(* At its commit point a load knows that its policy is on disk.                *)
LEMMA CommitKnown ==
  ASSUME StorageInv, FilesInv, NEW t \in Task, Running(t), AtCommit(t)
  PROVE  disk.policy = DecidedPolicy(t)
<1>1. CallFiles(t)
  BY DEF FilesInv
<1>2. PolicyKnown(t) /\ ReadInv(t)
  BY <1>1 DEF CallFiles, DiskKnown, Holds, Active, Running
<1>3. CASE pc[t] \in SealPcs
  BY <1>2, <1>3 DEF PolicyKnown, SealPcs
<1>4. CASE pc[t] \notin SealPcs
  <2>1. /\ pc[t] \in LoadPcs /\ phase[t] = "running" /\ ~MigrationRefuses(t)
        /\ answer[t] \in {"none", "ok"} /\ NextOfLoad(t) = "loaded"
    BY <1>4 DEF AtCommit, InLoad, Answered, LoadNext, Running
  <2>2. pc[t] # "start" /\ answer[t] = "ok"
    BY <2>1 DEF NextOfLoad, StorageInv, StageInv
  <2>3. \/ pc[t] = "readPolicy" /\ ~PolicyMissing(t)
        \/ pc[t] \in {"checkPolicy", "checkMarker"}
    BY <1>4, <2>1, <2>2
    DEF NextOfLoad, LoadPcs, SealPcs, AfterPolicyRead, AfterAuditRead, AfterLegacyReads,
        Sealing
  <2>4. QED
    BY <1>2, <2>1, <2>2, <2>3 DEF PolicyKnown, Has, DecidedPolicy
<1>5. QED
  BY <1>3, <1>4

(* The requests of a save and of an audit append.                              *)
LEMMA OtherAsks ==
  ASSUME IInv, StorageInv, FilesInv, NEW t \in Task,
         \/ SaveCommitsLoad(t)
         \/ SaveReadsBack(t)
         \/ AuditReads(t)
         \/ AuditWrites(t)
         \/ AuditWarns(t)
  PROVE  FilesInv'
<1>1. CallFiles(t) /\ ShapeInv
  BY DEF FilesInv, StorageInv
<1>2. phase[t] = "running" /\ PolicyKnown(t) /\ LogKnown(t) /\ ReadInv(t) /\ KindInv(t)
  BY <1>1
  DEF CallFiles, DiskKnown, Holds, Active, Running, SaveCommitsLoad, SaveReadsBack,
      AuditReads, AuditWrites, AuditWarns
<1>3. UNCHANGED <<disk, landed, mem>>
  BY DEF SaveCommitsLoad, SaveReadsBack, AuditReads, AuditWrites, AuditWarns, fileVars
<1>4. CASE SaveCommitsLoad(t)
  <2>1. Running(t) /\ AtCommit(t) /\ t \in Saves /\ Ask(t, "putSave")
    BY <1>4 DEF SaveCommitsLoad
  <2>2. disk.policy = DecidedPolicy(t)
    BY <2>1, CommitKnown
  <2>3. t \notin Audits /\ t \notin Reloads
    BY <2>1, StorageAssumption
  <2>4. /\ pc[t] \in LoadPcs /\ answer[t] # "timeout"
        /\ \/ pc[t] \in SealPcs
           \/ ~MigrationRefuses(t) /\ NextOfLoad(t) = "loaded"
    BY <2>1 DEF AtCommit, InLoad, Answered, LoadNext
  <2>5. /\ mem[t].policy # "corrupt" /\ mem[t].legacyPolicy # "corrupt"
        /\ mem[t].marker = "missing" => mem[t].audit.state # "corrupt"
    <3>1. CASE pc[t] \in SealPcs \cup {"checkPolicy", "checkMarker"}
      BY <1>2, <2>3, <3>1 DEF ReadInv, SealPcs, BeforePolicy, BeforeAudit
    <3>2. CASE pc[t] = "readPolicy" /\ mem[t].marker # "missing"
      BY <1>2, <2>3, <2>4, <3>2 DEF ReadInv, MigrationRefuses, SealPcs
    <3>3. QED
      BY <2>4, <3>1, <3>2
      DEF NextOfLoad, LoadPcs, SealPcs, AfterPolicyRead, AfterAuditRead,
          AfterLegacyReads, Sealing
  <2>6. CanAsk(t, "putSave")
    BY <2>1, <2>2, <2>3, <2>5
    DEF CanAsk, Pcs, LoadPcs, SavePcs, LegacyPcs, BeforePolicy, BeforeAudit
  <2>7. QED
    BY <1>1, <1>3, <2>1, <2>4, <2>6, AskFiles
<1>5. CASE SaveReadsBack(t)
  <2>1. Ask(t, "checkSave") /\ pc[t] = "putSave" /\ answer[t] = "ok"
    BY <1>5 DEF SaveReadsBack
  <2>2. t \in Saves /\ t \notin Audits /\ t \notin Reloads
    BY <1>2, <2>1, StorageAssumption DEF KindInv, AuditPcs, LoadPcs
  <2>3. CanAsk(t, "checkSave")
    BY <1>2, <2>1, <2>2
    DEF CanAsk, ReadInv, Pcs, LoadPcs, SavePcs, LegacyPcs, BeforePolicy, BeforeAudit
  <2>4. QED
    BY <1>1, <1>3, <2>1, <2>3, AskFiles
<1>6. CASE AuditReads(t) \/ AuditWrites(t) \/ AuditWarns(t)
  <2>1. t \in Audits /\ t \notin Reloads /\ t \notin Saves
    <3>1. pc[t] = "readLog" => t \in Audits
      BY <1>2, StorageAssumption DEF KindInv, LoadPcs, SavePcs
    <3>2. QED
      BY <1>6, <3>1, StorageAssumption DEF AuditReads, AuditWrites, AuditWarns
  <2>2. CASE AuditReads(t)
    <3>1. Ask(t, "readLog") /\ answer[t] # "timeout"
      BY <2>2 DEF AuditReads, StorageInv, StageInv
    <3>2. CanAsk(t, "readLog")
      BY <2>1 DEF CanAsk, Pcs, AuditPcs, LegacyPcs
    <3>3. QED
      BY <1>1, <1>3, <3>1, <3>2, AskFiles
  <2>3. CASE AuditWrites(t)
    <3>1. Ask(t, "putLog") /\ pc[t] = "readLog" /\ answer[t] = "ok" /\ mem[t].audit.state # "corrupt"
      BY <2>3 DEF AuditWrites, LogReadable
    <3>2. CanAsk(t, "putLog")
      BY <1>2, <2>1, <3>1 DEF CanAsk, Pcs, AuditPcs, LegacyPcs, LogKnown, Has
    <3>3. QED
      BY <1>1, <1>3, <3>1, <3>2, AskFiles
  <2>4. CASE AuditWarns(t)
    <3>1. Ask(t, "warn") /\ InTime(t)
      BY <2>4 DEF AuditWarns
    <3>2. CanAsk(t, "warn")
      BY <2>1 DEF CanAsk, Pcs, AuditPcs, LegacyPcs
    <3>3. QED
      BY <1>1, <1>3, <3>1, <3>2, AskFiles
  <2>5. QED
    BY <1>6, <2>2, <2>3, <2>4
<1>7. QED
  BY <1>4, <1>5, <1>6

(* A call that has committed asks nothing more.                                *)
LEMMA CommitFiles ==
  ASSUME IInv, StorageInv, FilesInv, NEW t \in Task, ReloadCommits(t) \/ SaveCommits(t)
  PROVE  FilesInv'
<1>1. /\ CallFiles(t) /\ ShapeInv
      /\ phase[t] = "running" /\ pc' = [pc EXCEPT ![t] = "committed"]
      /\ UNCHANGED <<phase, answer, outstanding, disk, landed, mem>>
  BY DEF FilesInv, StorageInv, ReloadCommits, SaveCommits, Running, vars, fileVars
<1>2. pc'[t] = "committed" /\ mem'[t] = mem[t]
  BY <1>1 DEF ShapeInv
<1>3. t \notin Audits /\ ReadInv(t) /\ KindInv(t)
  <2>1. CASE ReloadCommits(t)
    BY <1>1, <2>1, StorageAssumption DEF ReloadCommits, CallFiles
  <2>2. CASE SaveCommits(t)
    BY <1>1, <2>2 DEF SaveCommits, CallFiles, KindInv, AuditPcs
  <2>3. QED
    BY <2>1, <2>2
<1>4. KindInv(t)'
  BY <1>1, <1>2, <1>3 DEF KindInv
<1>5. /\ mem[t].policy # "corrupt" /\ mem[t].legacyPolicy # "corrupt"
      /\ mem[t].marker = "missing" => mem[t].audit.state # "corrupt"
  <2>1. CASE SaveCommits(t)
    BY <1>3, <2>1 DEF SaveCommits, ReadInv, BeforePolicy, BeforeAudit
  <2>2. CASE ReloadCommits(t)
    <3>1. /\ pc[t] \in LoadPcs
          /\ \/ pc[t] \in SealPcs
             \/ ~MigrationRefuses(t) /\ NextOfLoad(t) = "loaded"
      BY <2>2 DEF ReloadCommits, AtCommit, InLoad, Answered, LoadNext
    <3>2. CASE pc[t] \in SealPcs \cup {"checkPolicy", "checkMarker"}
      BY <1>3, <3>2 DEF ReadInv, SealPcs, BeforePolicy, BeforeAudit
    <3>3. CASE pc[t] = "readPolicy" /\ mem[t].marker # "missing"
      BY <1>3, <3>1, <3>3 DEF ReadInv, MigrationRefuses, SealPcs
    <3>4. QED
      BY <3>1, <3>2, <3>3
      DEF NextOfLoad, LoadPcs, SealPcs, AfterPolicyRead, AfterAuditRead, AfterLegacyReads,
          Sealing
  <2>3. QED
    BY <2>1, <2>2
<1>6. ReadInv(t)'
  BY <1>1, <1>2, <1>3, <1>5 DEF ReadInv, PolicyMissing, AuditEmpty, BeforePolicy, BeforeAudit
<1>7. PolicyKnown(t)' /\ LogKnown(t)'
  BY <1>2, <1>3 DEF PolicyKnown, LogKnown, LegacyPcs
<1>8. CallFiles(t)'
  BY <1>4, <1>6, <1>7 DEF CallFiles, DiskKnown
<1>9. QED
  BY <1>1, <1>8, OthersFiles DEF ShapeInv

(* The request is sent, its answer is handed over, or the deadline ends the    *)
(* wait: the call knows no more than before.                                   *)
LEMMA WaitingFiles ==
  ASSUME IInv, StorageInv, FilesInv, NEW t \in Task, Send(t) \/ Resumes(t) \/ Timer(t)
  PROVE  FilesInv'
<1> USE DEF IInv, TypeOK
<1>1. CallFiles(t) /\ UNCHANGED <<disk, pc, mem>>
  BY DEF FilesInv, Send, Resumes, Timer, storeVars, localVars, storageVars, fileVars
<1>2. \/ UNCHANGED <<phase, answer, outstanding, landed>>
      \/ /\ phase[t] \in {"starting", "waiting", "resumed"}
         /\ \/ /\ phase[t] = "starting" /\ phase' = [phase EXCEPT ![t] = "waiting"]
               /\ UNCHANGED answer
               /\ outstanding' = outstanding \cup {t} /\ landed' = landed \ {t}
            \/ /\ phase' = [phase EXCEPT ![t] = "running"]
               /\ \/ answer' = [answer EXCEPT ![t] = "timeout"]
                  \/ phase[t] = "resumed" /\ UNCHANGED answer
               /\ UNCHANGED outstanding
               /\ \/ UNCHANGED landed
                  \/ phase[t] = "starting" /\ landed' = landed \ {t}
  <2>1. CASE Send(t)
    BY <2>1 DEF Send, StartRequest
  <2>2. CASE Resumes(t)
    BY <2>2 DEF Resumes, Resume, storageVars, fileVars
  <2>3. CASE Timer(t)
    BY <2>3 DEF Timer, TimerFires, storageVars, fileVars
  <2>4. QED
    BY <2>1, <2>2, <2>3
<1>3. CASE phase' = phase
  <2>1. UNCHANGED <<phase, answer, outstanding, landed, disk, pc, mem>>
    BY <1>1, <1>2, <1>3
  <2>2. CallFiles(t)'
    BY <1>1, <2>1
    DEF CallFiles, KindInv, ReadInv, DiskKnown, Holds, PolicyKnown, LogKnown, Has, Unwritten,
        DecidedPolicy, PolicyMissing, AuditEmpty
  <2>3. QED
    BY <2>1, <2>2, OthersFiles
<1>4. CASE phase' # phase
  <2>1. /\ phase[t] \in {"starting", "waiting", "resumed"}
        /\ phase'[t] \in {"waiting", "running"}
        /\ phase'[t] = "running" => answer'[t] = "timeout" \/ (phase[t] = "resumed" /\ answer' = answer)
        /\ phase'[t] = "waiting" => phase[t] = "starting"
    BY <1>2, <1>4
  <2>2. pc[t] # "committed"
    BY <1>1, <2>1 DEF CallFiles, KindInv
  <2>3. phase[t] = "resumed" => t \notin outstanding
    BY <1>1, <2>1 DEF RequestInv
  <2>4. phase[t] = "resumed" => outstanding' = outstanding /\ landed' = landed
    BY <1>2, <1>4
  <2>5. KindInv(t)'
    BY <1>1, <2>1, <2>2, <2>3, <2>4 DEF CallFiles, KindInv
  <2>6. ReadInv(t)'
    BY <1>1 DEF CallFiles, ReadInv, PolicyMissing, AuditEmpty
  <2>7. PolicyKnown(t) /\ LogKnown(t)
    BY <1>1, <2>1 DEF CallFiles, DiskKnown, Holds, Active
  <2>8. Has(t)' => Has(t)
    BY <2>1 DEF Has
  <2>9. Unwritten(t)' => Unwritten(t)
    <3>1. phase[t] = "starting" => Unwritten(t)
      BY DEF Unwritten
    <3>2. phase[t] # "starting" => UNCHANGED <<outstanding, landed>> /\ phase'[t] # "starting"
      BY <1>2, <1>4, <2>1
    <3>3. QED
      BY <3>1, <3>2 DEF Unwritten
  <2>10. PolicyKnown(t)' /\ LogKnown(t)'
    BY <1>1, <2>7, <2>8, <2>9 DEF PolicyKnown, LogKnown, DecidedPolicy, PolicyMissing
  <2>11. CallFiles(t)'
    BY <2>5, <2>6, <2>10 DEF CallFiles, DiskKnown
  <2>12. \A u \in Task \ {t} :
           /\ phase'[u] = phase[u] /\ answer'[u] = answer[u]
           /\ (u \in outstanding') = (u \in outstanding)
           /\ (u \in landed') = (u \in landed)
    BY <1>2
  <2>13. QED
    BY <1>1, <2>11, <2>12, OthersFiles
<1>5. QED
  BY <1>3, <1>4

(* A write lands, perhaps long after its call has ended: it is known, and       *)
(* nobody else has the storage.                                                 *)
LEMMA LandFiles ==
  ASSUME IInv, StorageInv, FilesInv, NEW t \in Task, PutLands(t)
  PROVE  FilesInv'
<1>1. /\ CallFiles(t) /\ ShapeInv
      /\ UNCHANGED <<phase, answer, outstanding, pc, mem>>
      /\ t \in outstanding \ landed /\ landed' = landed \cup {t}
      /\ pc[t] \in PutPcs /\ disk' = Written(t)
  BY DEF FilesInv, StorageInv, PutLands, vars, storeVars, localVars
<1>2. Holds(t) /\ PolicyKnown(t) /\ LogKnown(t)
  BY <1>1 DEF Holds, CallFiles, DiskKnown
<1>3. KindInv(t)'
  BY <1>1 DEF CallFiles, KindInv
<1>4. ReadInv(t)'
  BY <1>1 DEF CallFiles, ReadInv, PolicyMissing, AuditEmpty
<1>5. phase[t] # "starting" /\ ~Unwritten(t)'
  BY <1>1 DEF IInv, RequestInv, Unwritten
<1>6. disk'.policy = disk.policy \/ pc[t] \in {"putPolicy", "putSave"}
  BY <1>1 DEF Written, ShapeInv, File
<1>7. disk'.audit = disk.audit \/ pc[t] \in {"putAudit", "putLog"}
  BY <1>1 DEF Written, ShapeInv, File
<1>8. PolicyKnown(t)'
  BY <1>1, <1>2, <1>5, <1>6 DEF PolicyKnown, LegacyPcs, PutPcs, DecidedPolicy, PolicyMissing
<1>9. LogKnown(t)'
  BY <1>1, <1>2, <1>5, <1>7 DEF LogKnown, LegacyPcs, PutPcs
<1>10. CallFiles(t)'
  BY <1>3, <1>4, <1>8, <1>9 DEF CallFiles, DiskKnown
<1>11. \A u \in Task \ {t} : ~Holds(u)
  BY <1>2, OneHolder
<1>12. QED
  BY <1>1, <1>10, <1>11, OthersFiles

(* An answer is what the file held when the host gave it: the call knows what  *)
(* it has read, and a readback has shown what it wrote.                        *)
LEMMA ReplyFiles ==
  ASSUME IInv, StorageInv, FilesInv, NEW t \in Task, Reply(t)
  PROVE  FilesInv'
<1> USE DEF IInv, TypeOK
<1>1. /\ CallFiles(t) /\ ShapeInv
      /\ UNCHANGED <<disk, landed, pc>>
      /\ t \in outstanding /\ outstanding' = outstanding \ {t}
      /\ mem' = [mem EXCEPT ![t] = IF answer'[t] = "ok" THEN Remembered(t) ELSE mem[t]]
  BY DEF FilesInv, StorageInv, Reply, HostSettles, fileVars
<1>2. Holds(t) /\ PolicyKnown(t) /\ LogKnown(t) /\ ReadInv(t) /\ KindInv(t)
  BY <1>1 DEF Holds, CallFiles, DiskKnown
<1>3. \A u \in Task \ {t} :
        /\ phase'[u] = phase[u] /\ answer'[u] = answer[u] /\ mem'[u] = mem[u]
        /\ (u \in outstanding') = (u \in outstanding)
  BY <1>1 DEF Reply, HostSettles, ShapeInv
<1>4. CASE phase[t] # "waiting"
  <2>1. UNCHANGED <<phase, answer>> /\ answer[t] = "timeout"
    BY <1>1, <1>2, <1>4 DEF Reply, HostSettles, KindInv
  <2>2. mem'[t] = mem[t]
    BY <1>1, <2>1 DEF ShapeInv
  <2>3. KindInv(t)' /\ ReadInv(t)'
    BY <1>1, <1>2, <2>1, <2>2 DEF KindInv, ReadInv, PolicyMissing, AuditEmpty
  <2>4. PolicyKnown(t)' /\ LogKnown(t)'
    BY <1>1, <1>2, <2>1, <2>2
    DEF PolicyKnown, LogKnown, Has, Unwritten, DecidedPolicy, PolicyMissing
  <2>5. CallFiles(t)'
    BY <2>3, <2>4 DEF CallFiles, DiskKnown
  <2>6. QED
    BY <1>1, <1>3, <2>5, OthersFiles
<1>5. CASE phase[t] = "waiting"
  <2>1. phase'[t] = "resumed" /\ answer'[t] \in {"ok", "error"} /\ t \notin outstanding'
    BY <1>1, <1>5 DEF Reply, HostSettles
  <2>2. mem'[t] = IF answer'[t] = "ok" THEN Remembered(t) ELSE mem[t]
    BY <1>1 DEF ShapeInv
  <2>3. KindInv(t)'
    BY <1>1, <1>2, <1>5, <2>1 DEF KindInv
  <2>4. ~Unwritten(t)'
    BY <2>1 DEF Unwritten
  <2>5. answer'[t] = "ok" /\ pc[t] \in CheckPcs => ReadbackMatches(t)
    BY <1>5 DEF Reply
  <2>6. CASE answer'[t] = "error"
    <3>1. mem'[t] = mem[t] /\ ~Has(t)'
      BY <2>1, <2>2, <2>6 DEF Has
    <3>2. ReadInv(t)'
      BY <1>1, <1>2, <3>1 DEF ReadInv, PolicyMissing, AuditEmpty
    <3>3. PolicyKnown(t)' /\ LogKnown(t)'
      BY <1>1, <1>2, <2>4, <3>1
      DEF PolicyKnown, LogKnown, DecidedPolicy, PolicyMissing, Unwritten
    <3>4. CallFiles(t)'
      BY <2>3, <3>2, <3>3 DEF CallFiles, DiskKnown
    <3>5. QED
      BY <1>1, <1>3, <3>4, OthersFiles
  <2>7. CASE answer'[t] = "ok"
    <3>1. mem'[t] = Remembered(t)
      BY <2>2, <2>7
    <3>2. /\ Remembered(t).marker = IF pc[t] = "readMarker" THEN disk.marker ELSE mem[t].marker
          /\ Remembered(t).policy = IF pc[t] = "readPolicy" THEN disk.policy ELSE mem[t].policy
          /\ Remembered(t).audit =
               IF pc[t] \in {"readAudit", "readLog"} THEN disk.audit ELSE mem[t].audit
          /\ Remembered(t).legacyPolicy =
               IF pc[t] = "readLegacyPolicy" THEN LegacyPolicy ELSE mem[t].legacyPolicy
          /\ Remembered(t).legacyAudit =
               IF pc[t] = "readLegacyAudit" THEN LegacyAudit ELSE mem[t].legacyAudit
      BY <1>1 DEF Remembered, ShapeInv
    <3>3. pc[t] = "readLegacyAudit" => mem[t].marker = "missing"
      BY DEF StorageInv, StageInv
    <3>4. ReadInv(t)'
      <4>1. ASSUME t \notin Audits PROVE pc[t] # "readLog"
        BY <1>2, <4>1, StorageAssumption DEF KindInv, LoadPcs, SavePcs
      <4>2. QED
        BY <1>1, <1>2, <3>1, <3>2, <3>3, <4>1
        DEF ReadInv, PolicyMissing, AuditEmpty, BeforePolicy, BeforeAudit
    <3>5. PolicyKnown(t)'
      <4>1. pc[t] \in {"readPolicy", "readAudit"} \cup LegacyPcs => mem'[t].policy = disk'.policy
        BY <1>1, <1>2, <3>1, <3>2 DEF PolicyKnown
      <4>2. pc[t] \notin {"readPolicy", "readLegacyPolicy"} => DecidedPolicy(t)' = DecidedPolicy(t)
        BY <3>1, <3>2 DEF DecidedPolicy, PolicyMissing
      <4>3. QED
        BY <1>1, <1>2, <2>4, <2>5, <2>7, <4>1, <4>2
        DEF PolicyKnown, LegacyPcs, CheckPcs, ReadbackMatches
    <3>6. LogKnown(t)'
      <4>1. pc[t] # "readMarker" => mem'[t].marker = mem[t].marker
        BY <3>1, <3>2
      <4>2. pc[t] \notin {"readAudit", "readLog"} => mem'[t].audit = mem[t].audit
        BY <3>1, <3>2
      <4>3. pc[t] \in {"readAudit", "readLog"} => mem'[t].audit = disk.audit
        BY <3>1, <3>2
      <4>4. QED
        BY <1>1, <1>2, <2>4, <4>1, <4>2, <4>3 DEF LogKnown, LegacyPcs
    <3>7. CallFiles(t)'
      BY <2>3, <3>4, <3>5, <3>6 DEF CallFiles, DiskKnown
    <3>8. QED
      BY <1>1, <1>3, <3>7, OthersFiles
  <2>8. QED
    BY <2>1, <2>6, <2>7
<1>6. QED
  BY <1>4, <1>5

(* A crash ends every call: nobody has the storage.                            *)
LEMMA CrashFiles ==
  ASSUME TypeOK, FilesInv, Crash
  PROVE  FilesInv'
<1> SUFFICES ASSUME NEW t \in Task
             PROVE  CallFiles(t)'
  BY DEF FilesInv
<1>1. /\ CallFiles(t)
      /\ phase'[t] \in {"idle", "done"} /\ (phase'[t] = "idle" => phase[t] = "idle")
      /\ outstanding' = {}
      /\ UNCHANGED <<answer, pc, mem>>
  BY DEF FilesInv, Crash
<1>2. KindInv(t)'
  BY <1>1 DEF CallFiles, KindInv
<1>3. ReadInv(t)'
  BY <1>1 DEF CallFiles, ReadInv, PolicyMissing, AuditEmpty
<1>4. ~Holds(t)'
  BY <1>1 DEF Holds, Active
<1>5. QED
  BY <1>2, <1>3, <1>4 DEF CallFiles, DiskKnown

(* What the calls know of the files stays true.                                *)
LEMMA FilesNext ==
  ASSUME IInv, StorageInv, FilesInv, [StorageNext]_allVars
  PROVE  FilesInv'
<1>1. ASSUME NEW t \in Task,
             Call(t) \/ Enter(t) \/ Complete(t) \/ AuditCompletes(t)
      PROVE  FilesInv'
  <2>1. UNCHANGED <<answer, outstanding, disk, landed, pc, mem>>
    BY <1>1
    DEF Call, Run, Enter, Begin, Complete, AuditCompletes, storageVars, fileVars, localVars
  <2>2. CASE Call(t)
    BY <2>1, <2>2, MoveFiles DEF Call, Run, IInv, Phases
  <2>3. CASE Enter(t)
    <3>1. pc[t] = "start" /\ phase[t] = "queued"
      BY <2>3 DEF Enter, Begin, StorageInv, StageInv
    <3>2. QED
      BY <2>1, <2>3, <3>1, MoveFiles DEF Enter, Begin, Settle, IInv, Phases, Active
  <2>4. CASE Complete(t) \/ AuditCompletes(t)
    BY <2>1, <2>4, MoveFiles DEF Complete, AuditCompletes, Running, Settle, IInv, Phases
  <2>5. QED
    BY <1>1, <2>2, <2>3, <2>4
<1>2. ASSUME NEW t \in Task, MigrationStep(t)
      PROVE  FilesInv'
  <2>1. /\ Running(t) /\ InLoad(t) /\ Answered(t) /\ LoadNext(t) # "loaded"
        /\ Ask(t, LoadNext(t))
        /\ UNCHANGED <<disk, landed, mem>>
    BY <1>2 DEF MigrationStep, fileVars
  <2>2. CanAsk(t, LoadNext(t)) /\ answer[t] # "timeout"
    BY <2>1, LoadAsks
  <2>3. QED
    BY <2>1, <2>2, AskFiles DEF StorageInv
<1>3. ASSUME NEW t \in Task, Code(t)
      PROVE  FilesInv'
  BY <1>1, <1>2, <1>3, OtherAsks, CommitFiles, WaitingFiles DEF Code
<1>4. ASSUME UNCHANGED <<phase, answer, outstanding, disk, landed, pc, mem>>
      PROVE  FilesInv'
  BY <1>4
  DEF FilesInv, CallFiles, KindInv, ReadInv, DiskKnown, Holds, PolicyKnown, LogKnown, Has,
      Unwritten, DecidedPolicy, PolicyMissing, AuditEmpty
<1>5. ASSUME NEW t \in Task, Deadline(t)
      PROVE  FilesInv'
  BY <1>4, <1>5 DEF Deadline, DeadlinePasses, storageVars, fileVars, localVars
<1>6. Return \/ UNCHANGED allVars => FilesInv'
  BY <1>4 DEF Return, allVars, storageVars, fileVars, localVars, vars
<1>7. Crash => FilesInv'
  BY CrashFiles DEF IInv
<1>8. QED
  BY <1>1, <1>3, <1>5, <1>6, <1>7, WaitingFiles, LandFiles, ReplyFiles DEF StorageNext

-----------------------------------------------------------------------------
(* The policy the tools obey. *)

(* At first nothing is loaded and the tools obey the default.                  *)
LEMMA PublishInit ==
  ASSUME StorageInit
  PROVE  PublishInv
<1> USE DEF StorageInit, Init
<1>1. OwnerInv
  BY DEF OwnerInv, Active
<1>2. CatchInv
  BY DEF CatchInv
<1>3. LoadInv
  BY DEF LoadInv, Ready
<1>4. PendingInv
  BY DEF PendingInv, IsQueued
<1>5. QED
  BY <1>1, <1>2, <1>3, <1>4 DEF PublishInv

(* Every call in the queue is still unanswered.                                *)
LEMMA PendingNext ==
  ASSUME IInv, PendingInv, [StorageNext]_allVars
  PROVE  PendingInv'
<1> USE DEF IInv, TypeOK
<1>1. ASSUME UNCHANGED <<queue, caller>>
      PROVE  PendingInv'
  BY <1>1 DEF PendingInv, IsQueued
<1>2. ASSUME NEW t \in Task, Run(t)
      PROVE  PendingInv'
  <2>1. /\ queue' = Append(queue, t)
        /\ caller'[t] = "pending" /\ \A u \in Task \ {t} : caller'[u] = caller[u]
    BY <1>2 DEF Run
  <2>2. \A u \in Task : IsQueued(u)' => IsQueued(u) \/ u = t
    BY <2>1 DEF IsQueued
  <2>3. QED
    BY <2>1, <2>2 DEF PendingInv
<1>3. ASSUME NEW t \in Task, NEW r, Current(t), Settle(t, r)
      PROVE  PendingInv'
  <2>1. /\ queue # <<>> /\ queue[1] = t /\ queue' = Tail(queue)
        /\ \A u \in Task \ {t} : caller'[u] = caller[u]
    BY <1>3 DEF Settle, Current
  <2>2. \A i \in 1..Len(queue') : queue'[i] = queue[i + 1] /\ i + 1 \in 1..Len(queue)
    BY <2>1
  <2>3. ASSUME NEW u \in Task, IsQueued(u)'
        PROVE  u # t /\ IsQueued(u)
    <3>1. PICK i \in 1..Len(queue') : queue'[i] = u
      BY <2>3 DEF IsQueued
    <3>2. queue[i + 1] = u /\ i + 1 \in 1..Len(queue) /\ i + 1 # 1
      BY <2>2, <3>1
    <3>3. 1 \in 1..Len(queue)
      BY <3>2
    <3>4. QED
      BY <2>1, <3>2, <3>3 DEF IsQueued, ChainInv
  <2>4. QED
    BY <2>1, <2>3 DEF PendingInv
<1>4. ASSUME NEW t \in Task, Code(t)
      PROVE  PendingInv'
  <2>1. CASE Enter(t)
    BY <1>1, <1>3, <2>1 DEF Enter, Begin
  <2>2. CASE Complete(t) \/ AuditCompletes(t)
    BY <1>3, <2>2 DEF Complete, AuditCompletes, Running, ChainInv, Active
  <2>3. ~Enter(t) /\ ~Complete(t) /\ ~AuditCompletes(t) => UNCHANGED <<queue, caller>>
    BY <1>4
    DEF Code, MigrationStep, ReloadCommits, SaveCommitsLoad, SaveReadsBack, SaveCommits,
        AuditReads, AuditWrites, AuditWarns, Send, Resumes, Ask, Wait, StartRequest, Resume,
        vars
  <2>4. QED
    BY <1>1, <2>1, <2>2, <2>3
<1>5. ASSUME NEW t \in Task, PutLands(t) \/ Reply(t) \/ Deadline(t) \/ Timer(t)
      PROVE  PendingInv'
  BY <1>1, <1>5
  DEF PutLands, Reply, Deadline, Timer, HostSettles, DeadlinePasses, TimerFires, vars
<1>6. Return \/ UNCHANGED allVars => PendingInv'
  BY <1>1 DEF Return, allVars, vars
<1>7. Crash => PendingInv'
  BY DEF Crash, PendingInv, IsQueued
<1>8. QED
  BY <1>2, <1>4, <1>5, <1>6, <1>7 DEF StorageNext, Call

(* A step inside a call touches neither what is published nor a catch block,   *)
(* and can take away nothing they rest on.                                     *)
LEMMA QuietPublish ==
  ASSUME IInv, OwnerInv, CatchInv, LoadInv, NEW t \in Task,
         UNCHANGED <<active, loadState, policy, catching, caller>>,
         \A u \in Task :
           \/ phase'[u] = phase[u]
           \/ u = t /\ phase[t] \in Active /\ phase'[t] \in Active,
         \A u \in Task : (pc'[u] = "committed") = (pc[u] = "committed"),
         Ready => disk'.policy = disk.policy /\ outstanding' \subseteq Audits,
         catching # <<>> => outstanding \subseteq outstanding'
  PROVE  OwnerInv' /\ CatchInv' /\ LoadInv'
<1>1. \A u \in Task : (phase[u] = "done" => phase'[u] = "done")
                      /\ (phase'[u] \in Active) = (phase[u] \in Active)
  BY DEF Active
<1>2. OwnerInv'
  BY <1>1 DEF OwnerInv, Ready
<1>3. CatchInv'
  BY <1>1 DEF CatchInv, IInv, TypeOK
<1>4. LoadInv'
  BY <1>1 DEF LoadInv, Ready
<1>5. QED
  BY <1>2, <1>3, <1>4

(* The requests of a call, its answers and its timeouts are such steps; so is  *)
(* the landing of a write, which after an answered load is an audit entry's.   *)
LEMMA RequestPublish ==
  ASSUME IInv, StorageInv, FilesInv, OwnerInv, CatchInv, LoadInv, NEW t \in Task,
         \/ MigrationStep(t) \/ SaveReadsBack(t)
         \/ AuditReads(t) \/ AuditWrites(t) \/ AuditWarns(t)
         \/ Send(t) \/ Resumes(t) \/ PutLands(t) \/ Reply(t) \/ Deadline(t) \/ Timer(t)
  PROVE  OwnerInv' /\ CatchInv' /\ LoadInv'
<1> USE DEF IInv, TypeOK
<1>1. CallFiles(t) /\ ShapeInv /\ KindInv(t)
  BY DEF FilesInv, StorageInv, CallFiles
<1>2. UNCHANGED <<active, loadState, policy>>
  BY DEF MigrationStep, SaveReadsBack, AuditReads, AuditWrites, AuditWarns, Send, Resumes,
         PutLands, Reply, Deadline, Timer, storageVars, storeVars
<1>3. UNCHANGED <<catching, caller>>
  BY DEF MigrationStep, SaveReadsBack, AuditReads, AuditWrites, AuditWarns, Send, Resumes,
         PutLands, Reply, Deadline, Timer, storageVars, storeVars, Ask, Wait, StartRequest,
         Resume, HostSettles, DeadlinePasses, TimerFires, vars
<1>4. CASE MigrationStep(t) \/ SaveReadsBack(t) \/ AuditReads(t) \/ AuditWrites(t) \/ AuditWarns(t)
  <2>1. PICK p : Ask(t, p) /\ p # "committed"
    <3>1. MigrationStep(t) => Ask(t, LoadNext(t)) /\ LoadNext(t) # "committed"
      BY LoadRequests DEF MigrationStep, LoadPcs
    <3>2. QED
      BY <1>4, <3>1 DEF SaveReadsBack, AuditReads, AuditWrites, AuditWarns
  <2>2. pc[t] # "committed"
    <3>1. t \in Audits => pc[t] # "committed"
      BY <1>1 DEF KindInv, AuditPcs
    <3>2. AuditReads(t) \/ AuditWrites(t) \/ AuditWarns(t) => pc[t] # "committed"
      BY <3>1 DEF AuditReads, AuditWrites, AuditWarns
    <3>3. QED
      BY <1>4, <3>2 DEF MigrationStep, InLoad, LoadPcs, SaveReadsBack
  <2>3. \A u \in Task : (pc'[u] = "committed") = (pc[u] = "committed")
    BY <1>1, <2>1, <2>2 DEF Ask, ShapeInv
  <2>4. \A u \in Task :
          \/ phase'[u] = phase[u]
          \/ u = t /\ phase[t] \in Active /\ phase'[t] \in Active
    BY <2>1 DEF Ask, Wait, Active
  <2>5. outstanding' = outstanding /\ disk' = disk
    BY <1>4, <2>1
    DEF Ask, Wait, MigrationStep, SaveReadsBack, AuditReads, AuditWrites, AuditWarns, fileVars
  <2>6. QED
    BY <1>2, <1>3, <2>3, <2>4, <2>5, QuietPublish DEF LoadInv
<1>5. CASE Send(t) \/ Resumes(t) \/ Timer(t) \/ Deadline(t) \/ Reply(t)
  <2>1. pc' = pc /\ disk' = disk
    BY <1>5
    DEF Send, Resumes, Timer, Deadline, Reply, storageVars, localVars, fileVars
  <2>2. \A u \in Task :
          \/ phase'[u] = phase[u]
          \/ u = t /\ phase[t] \in Active /\ phase'[t] \in Active
    BY <1>5
    DEF Send, Resumes, Timer, Deadline, Reply, StartRequest, Resume, HostSettles,
        DeadlinePasses, TimerFires, Active
  <2>3. CASE Send(t)
    <3>1. phase[t] = "starting" /\ outstanding' \in {outstanding, outstanding \cup {t}}
      BY <2>3 DEF Send, StartRequest
    <3>2. Ready => t \in Audits
      BY <1>1, <3>1 DEF OwnerInv, KindInv, Ready, Active
    <3>3. QED
      BY <1>2, <1>3, <2>1, <2>2, <3>1, <3>2, QuietPublish DEF LoadInv
  <2>4. CASE Reply(t)
    <3>1. catching = <<>> /\ outstanding' \subseteq outstanding
      BY <2>4 DEF Reply, HostSettles
    <3>2. QED
      BY <1>2, <1>3, <2>1, <2>2, <3>1, QuietPublish DEF LoadInv
  <2>5. CASE Resumes(t) \/ Timer(t) \/ Deadline(t)
    <3>1. outstanding' = outstanding
      BY <2>5 DEF Resumes, Timer, Deadline, Resume, DeadlinePasses, TimerFires
    <3>2. QED
      BY <1>2, <1>3, <2>1, <2>2, <3>1, QuietPublish DEF LoadInv
  <2>6. QED
    BY <1>5, <2>3, <2>4, <2>5
<1>6. CASE PutLands(t)
  <2>1. /\ UNCHANGED <<phase, pc, outstanding>> /\ t \in outstanding
        /\ pc[t] \in PutPcs /\ disk' = Written(t)
    BY <1>6 DEF PutLands, vars, localVars
  <2>2. Ready => pc[t] = "putLog"
    BY <1>1, <2>1 DEF LoadInv, KindInv, AuditPcs, PutPcs
  <2>3. Ready => disk'.policy = disk.policy
    BY <1>1, <2>1, <2>2 DEF Written, ShapeInv, File
  <2>4. QED
    BY <1>2, <1>3, <2>1, <2>3, QuietPublish DEF LoadInv
<1>7. QED
  BY <1>4, <1>5, <1>6

(* A call reaches the queue: it is not the owner, nor has it a catch block.    *)
LEMMA CallPublish ==
  ASSUME IInv, OwnerInv, CatchInv, LoadInv, NEW t \in Task, Call(t)
  PROVE  OwnerInv' /\ CatchInv' /\ LoadInv'
<1> USE DEF IInv, TypeOK
<1>1. /\ phase[t] = "idle" /\ phase'[t] = "queued"
      /\ \A u \in Task \ {t} : phase'[u] = phase[u] /\ caller'[u] = caller[u]
      /\ UNCHANGED <<outstanding, disk, pc, active, loadState, policy, catching>>
  BY DEF Call, Run, storageVars, fileVars, localVars, storeVars
<1>2. OwnerInv'
  BY <1>1 DEF OwnerInv, Ready, Active
<1>3. CatchInv'
  <2>1. \A i \in 1..Len(catching) : catching[i] \in Task /\ catching[i] # t
    BY <1>1 DEF CatchInv
  <2>2. \A o \in outstanding : phase[o] = "done" => phase'[o] = "done"
    BY <1>1
  <2>3. QED
    BY <1>1, <2>1, <2>2 DEF CatchInv
<1>4. LoadInv'
  <2>1. loadState = "loading" => active # t
    BY <1>1 DEF LoadInv, CatchInv, Active
  <2>2. QED
    BY <1>1, <2>1 DEF LoadInv, Ready
<1>5. QED
  BY <1>2, <1>3, <1>4

(* Nobody is under way when a call enters.  One that is refused as blocked      *)
(* finds an orphan; a load that enters takes `active` over.                     *)
LEMMA EnterPublish ==
  ASSUME IInv, StorageInv, PublishInv, NEW t \in Task, Enter(t)
  PROVE  OwnerInv' /\ CatchInv' /\ LoadInv'
<1> USE DEF IInv, TypeOK, PublishInv
<1>1. /\ phase[t] = "queued" /\ pc[t] = "start" /\ Current(t)
      /\ \A u \in Task \ {t} : phase'[u] = phase[u] /\ caller'[u] = caller[u]
      /\ UNCHANGED <<outstanding, disk, pc, policy>>
  BY DEF Enter, Begin, Settle, StorageInv, StageInv, fileVars
<1>2. \A u \in Task : phase[u] \notin Active
  BY <1>1 DEF ChainInv, Current, Active
<1>3. \A i \in 1..Len(catching) : catching[i] \in Task \ Audits /\ catching[i] # t
  BY <1>1 DEF CatchInv
<1>4. \A o \in outstanding : phase[o] = "done" => phase'[o] = "done"
  BY <1>1
<1>5. CASE phase'[t] = "done"
  <2>1. UNCHANGED <<active, loadState>> /\ catching' = IF t \in Audits THEN catching ELSE Append(catching, t)
    BY <1>5 DEF Enter, Leave
  <2>2. caller'[t] = "blocked" => \E o \in outstanding : phase[o] = "done"
    <3>1. caller'[t] = "blocked" => caller[t] = "blocked" \/ inFlight > 0
      BY <1>5 DEF Enter, Begin, Settle
    <3>2. caller[t] = "pending" \/ caller'[t] = caller[t]
      BY <1>5 DEF Enter, Begin, Settle
    <3>3. inFlight > 0 => \E o \in outstanding : phase[o] = "done"
      BY <1>2 DEF RequestInv, Active
    <3>4. IsQueued(t)
      BY <1>1 DEF IsQueued, Current
    <3>5. QED
      BY <3>1, <3>2, <3>3, <3>4 DEF PendingInv
  <2>3. OwnerInv'
    BY <1>1, <1>2, <1>5 DEF OwnerInv, Active
  <2>4. CatchInv'
    <3>1. catching' \in Seq(Task \ Audits)
      BY <2>1 DEF CatchInv
    <3>2. ASSUME NEW i \in 1..Len(catching')
          PROVE  \/ i \in 1..Len(catching) /\ catching'[i] = catching[i]
                 \/ catching'[i] = t
      BY <2>1, <3>2 DEF CatchInv
    <3>3. QED
      BY <1>1, <1>3, <1>4, <1>5, <2>2, <3>1, <3>2 DEF CatchInv
  <2>5. LoadInv'
    <3>1. \A i \in 1..Len(catching) : i \in 1..Len(catching') /\ catching'[i] = catching[i]
      BY <2>1 DEF CatchInv
    <3>2. loadState = "loading" => active # t /\ active \in Task
      BY <1>2, <1>3 DEF LoadInv
    <3>3. QED
      BY <1>1, <1>2, <2>1, <3>1, <3>2 DEF LoadInv, Ready
  <2>6. QED
    BY <2>3, <2>4, <2>5
<1>6. CASE phase'[t] # "done"
  <2>1. /\ phase'[t] = "running" /\ UNCHANGED <<catching, caller>>
        /\ IF t \in Audits THEN UNCHANGED <<active, loadState>>
           ELSE active' = t /\ loadState' = "loading"
    BY <1>1, <1>6 DEF Enter, Begin, Settle
  <2>2. OwnerInv'
    BY <1>1, <1>2, <2>1 DEF OwnerInv
  <2>3. CatchInv'
    BY <1>1, <1>3, <1>4, <2>1 DEF CatchInv
  <2>4. LoadInv'
    <3>1. CASE t \in Audits
      BY <1>1, <1>2, <2>1, <3>1 DEF LoadInv, Ready
    <3>2. CASE t \notin Audits
      BY <2>1, <3>2 DEF LoadInv, Ready, Active
    <3>3. QED
      BY <3>1, <3>2
  <2>5. QED
    BY <2>2, <2>3, <2>4
<1>7. QED
  BY <1>5, <1>6

(* A commit publishes what is on disk, and nothing of the storage is in flight.*)
LEMMA CommitPublish ==
  ASSUME IInv, StorageInv, FilesInv, OwnerInv, CatchInv, LoadInv, NEW t \in Task,
         ReloadCommits(t) \/ SaveCommitsLoad(t) \/ SaveCommits(t)
  PROVE  OwnerInv' /\ CatchInv' /\ LoadInv'
<1> USE DEF IInv, TypeOK
<1>1. CallFiles(t) /\ ShapeInv /\ Running(t) /\ InTime(t)
  BY DEF FilesInv, StorageInv, ReloadCommits, SaveCommitsLoad, SaveCommits, AtCommit
<1>2. phase[t] = "running" /\ catching = <<>> /\ t \notin Audits /\ KindInv(t)
  BY <1>1, StorageAssumption
  DEF ReloadCommits, SaveCommitsLoad, SaveCommits, Running, CallFiles, KindInv, AuditPcs
<1>3. \A u \in Task : phase[u] \in Active => u = t
  BY <1>2 DEF ChainInv, Current, Active
<1>4. outstanding = {}
  <2>1. ASSUME NEW o \in outstanding PROVE FALSE
    BY <1>1, <1>2 DEF RequestInv, InTime, Active
  <2>2. QED
    BY <2>1
<1>5. active = t
  BY <1>2 DEF OwnerInv, Active
<1>6. UNCHANGED <<disk, active, catching, caller, outstanding>>
  BY DEF ReloadCommits, SaveCommitsLoad, SaveCommits, vars, fileVars, Ask, Wait
<1>7. CASE ReloadCommits(t) \/ SaveCommits(t)
  <2>1. UNCHANGED phase /\ pc'[t] = "committed"
    BY <1>1, <1>7 DEF ReloadCommits, SaveCommits, vars, ShapeInv
  <2>2. policy' = disk.policy /\ loadState' \in {"loaded", "initial-default"}
    <3>1. CASE ReloadCommits(t)
      BY <1>1, <3>1, CommitKnown DEF ReloadCommits, LoadedState
    <3>2. CASE SaveCommits(t)
      BY <1>1, <1>2, <3>2
      DEF SaveCommits, CallFiles, DiskKnown, Holds, Active, PolicyKnown, Has
    <3>3. QED
      BY <1>7, <3>1, <3>2
  <2>3. OwnerInv'
    BY <1>3, <1>5, <1>6, <2>1, <2>2 DEF OwnerInv, Ready
  <2>4. CatchInv'
    BY <1>2, <1>6 DEF CatchInv
  <2>5. LoadInv'
    BY <1>4, <1>6, <2>2 DEF LoadInv, Ready
  <2>6. QED
    BY <2>3, <2>4, <2>5
<1>8. CASE SaveCommitsLoad(t)
  <2>1. /\ phase'[t] \in Active /\ pc'[t] # "committed" /\ loadState' = "loading"
        /\ \A u \in Task \ {t} : phase'[u] = phase[u]
    BY <1>1, <1>8 DEF SaveCommitsLoad, Ask, Wait, ShapeInv, Active
  <2>2. OwnerInv'
    BY <1>3, <1>5, <1>6, <2>1 DEF OwnerInv, Ready
  <2>3. CatchInv'
    BY <1>2, <1>6 DEF CatchInv
  <2>4. LoadInv'
    BY <1>2, <1>5, <1>6, <2>1 DEF LoadInv, Ready
  <2>5. QED
    BY <2>2, <2>3, <2>4
<1>9. QED
  BY <1>7, <1>8

(* An action that ends without a value leaves its catch block to be run.       *)
LEMMA LeavePublish ==
  ASSUME IInv, StorageInv, FilesInv, PublishInv, NEW t \in Task,
         Complete(t) \/ AuditCompletes(t)
  PROVE  OwnerInv' /\ CatchInv' /\ LoadInv'
<1> USE DEF IInv, TypeOK, PublishInv
<1>1. /\ phase[t] = "running" /\ catching = <<>> /\ phase'[t] = "done"
      /\ \A u \in Task \ {t} : phase'[u] = phase[u] /\ caller'[u] = caller[u]
      /\ UNCHANGED <<outstanding, disk, pc, active, loadState, policy>>
  BY DEF Complete, AuditCompletes, Running, Settle, fileVars
<1>2. \A u \in Task : phase[u] \in Active => u = t
  BY <1>1 DEF ChainInv, Current, Active
<1>3. caller[t] = "pending"
  <2>1. Current(t)
    BY <1>1 DEF ChainInv, Active
  <2>2. IsQueued(t)
    BY <2>1 DEF Current, IsQueued
  <2>3. QED
    BY <2>2 DEF PendingInv
<1>4. OwnerInv'
  BY <1>1, <1>2 DEF OwnerInv, Active
<1>5. CASE AuditCompletes(t)
  <2>1. catching' = <<>> /\ t \in Audits
    BY <1>1, <1>5 DEF AuditCompletes, Leave
  <2>2. loadState # "loading"
    BY <1>1, <1>2, <2>1 DEF LoadInv
  <2>3. QED
    BY <1>1, <1>4, <2>1, <2>2 DEF CatchInv, LoadInv, Ready
<1>6. CASE Complete(t)
  <2>1. /\ t \notin Audits /\ catching' = <<t>> /\ caller'[t] = Result(t)
        /\ Stops(t) \/ pc[t] = "committed"
    BY <1>1, <1>3, <1>6 DEF Complete, Leave, Settle
  <2>2. Result(t) # "blocked" /\ (Stops(t) => Result(t) # "value")
    BY DEF Result
  <2>3. CatchInv'
    BY <1>1, <2>1, <2>2 DEF CatchInv
  <2>4. loadState = "loading" => active = t /\ Result(t) # "value"
    BY <1>1, <2>1, <2>2 DEF OwnerInv, Ready, Active
  <2>5. LoadInv'
    BY <1>1, <2>1, <2>4 DEF LoadInv, Ready
  <2>6. QED
    BY <1>4, <2>3, <2>5
<1>7. QED
  BY <1>5, <1>6

(* A catch block fails closed unless a later call has taken over; it never      *)
(* takes the answer of a load that is under way.                                *)
LEMMA ReturnPublish ==
  ASSUME IInv, OwnerInv, CatchInv, LoadInv, Return
  PROVE  OwnerInv' /\ CatchInv' /\ LoadInv'
<1> USE DEF IInv, TypeOK
<1> DEFINE h == Head(catching)
<1>1. /\ catching # <<>> /\ h = catching[1] /\ h \in Task \ Audits /\ phase[h] = "done"
      /\ catching' = Tail(catching)
      /\ UNCHANGED <<phase, outstanding, disk, pc, active, caller>>
      /\ caller[h] = "blocked" => \E o \in outstanding : phase[o] = "done"
  BY DEF Return, CatchInv, vars, fileVars, localVars
<1>2. \/ /\ caller[h] # "value" /\ (active = h \/ caller[h] = "blocked")
         /\ policy' = "default" /\ loadState' = "unavailable"
      \/ /\ caller[h] = "value" \/ active # h
         /\ UNCHANGED <<policy, loadState>>
  BY DEF Return, CatchBlock
<1>3. ASSUME NEW u \in Task \ Audits, phase[u] \in Active
      PROVE  active # h /\ caller[h] # "blocked"
  <2>1. active = u /\ u # h
    BY <1>1, <1>3 DEF OwnerInv, Active
  <2>2. caller[h] # "blocked"
    BY <1>1, <1>3 DEF RequestInv, Active
  <2>3. QED
    BY <2>1, <2>2
<1>4. OwnerInv'
  BY <1>1, <1>2, <1>3 DEF OwnerInv, Ready
<1>5. CatchInv'
  BY <1>1 DEF CatchInv
<1>6. LoadInv'
  <2>1. ASSUME loadState = "loading", loadState' = "loading", phase[active] \notin Active
        PROVE  /\ caller[active] # "value"
               /\ \E i \in 1..Len(catching') : catching'[i] = active
    <3>1. caller[active] # "value" /\ \E i \in 1..Len(catching) : catching[i] = active
      BY <2>1 DEF LoadInv
    <3>2. PICK i \in 1..Len(catching) : catching[i] = active
      BY <3>1
    <3>3. i # 1
      BY <1>1, <1>2, <2>1, <3>1, <3>2
    <3>4. i - 1 \in 1..Len(catching') /\ catching'[i - 1] = active
      BY <1>1, <3>2, <3>3 DEF CatchInv
    <3>5. QED
      BY <3>1, <3>4
  <2>2. QED
    BY <1>1, <1>2, <2>1 DEF LoadInv, Ready
<1>7. QED
  BY <1>4, <1>5, <1>6

(* What is published stays owned, and is never ahead of the disk.              *)
LEMMA PublishNext ==
  ASSUME IInv, StorageInv, FilesInv, PublishInv, [StorageNext]_allVars
  PROVE  PublishInv'
<1>1. PendingInv'
  BY PendingNext DEF PublishInv
<1>2. ASSUME NEW t \in Task,
             Call(t) \/ Code(t) \/ PutLands(t) \/ Reply(t) \/ Deadline(t) \/ Timer(t)
      PROVE  OwnerInv' /\ CatchInv' /\ LoadInv'
  BY <1>2, CallPublish, RequestPublish, EnterPublish, CommitPublish, LeavePublish
  DEF Code, PublishInv
<1>3. Return => OwnerInv' /\ CatchInv' /\ LoadInv'
  BY ReturnPublish DEF PublishInv
<1>4. Crash => OwnerInv' /\ CatchInv' /\ LoadInv'
  BY DEF Crash, OwnerInv, CatchInv, LoadInv, Ready, Active
<1>5. UNCHANGED allVars => OwnerInv' /\ CatchInv' /\ LoadInv'
  BY DEF allVars, vars, storageVars, fileVars, storeVars, localVars, PublishInv, OwnerInv,
         CatchInv, LoadInv, Ready
<1>6. QED
  BY <1>1, <1>2, <1>3, <1>4, <1>5 DEF StorageNext, PublishInv

-----------------------------------------------------------------------------
(* The theorems. *)

(* The files are what the call that has the storage knows of them, and the     *)
(* published policy is owned, in every reachable state.                        *)
THEOREM FilesCorrect == StorageSpec => [](IInv /\ StorageInv /\ FilesInv /\ PublishInv)
<1>1. StorageInit => FilesInv /\ PublishInv
  BY FilesInit, PublishInit
<1>2. IInv /\ StorageInv /\ FilesInv /\ PublishInv /\ [StorageNext]_allVars
        => FilesInv' /\ PublishInv'
  BY FilesNext, PublishNext
<1>3. QED
  BY <1>1, <1>2, StorageCorrect, PTL DEF StorageSpec

(* Between calls the policy the tools obey is the one on disk, or the state is  *)
(* "unavailable" and they obey the default (policy-storage.ts:89-107).          *)
THEOREM StorageFailsClosed == StorageSpec => []FailClosed
<1>1. IInv /\ PublishInv => FailClosed
  <2> SUFFICES ASSUME IInv, PublishInv, Idle
               PROVE  IF Ready THEN policy = disk.policy
                      ELSE loadState = "unavailable" /\ policy = "default"
    BY DEF FailClosed
  <2>1. catching = <<>> /\ \A u \in Task : phase[u] \notin Active
    BY DEF Idle, IInv, ChainInv, Current
  <2>2. loadState # "loading"
    BY <2>1 DEF PublishInv, LoadInv
  <2>3. QED
    BY <2>2 DEF PublishInv, LoadInv, Ready
<1>2. QED
  BY <1>1, FilesCorrect, PTL

(* A stored policy is replaced only by a saved one, an unreadable one never,   *)
(* also by a write that lands after its call has timed out (migration.ts:9).    *)
LEMMA PolicyStep ==
  ASSUME IInv, StorageInv, FilesInv, [StorageNext]_allVars, disk'.policy # disk.policy
  PROVE  disk.policy = "missing" \/ (disk.policy # "corrupt" /\ disk'.policy \in Saves)
<1>1. PICK t \in Task : PutLands(t)
  BY DEF StorageNext, Code, Call, Enter, MigrationStep, ReloadCommits, SaveCommitsLoad,
         SaveReadsBack, SaveCommits, Complete, AuditReads, AuditWrites, AuditWarns,
         AuditCompletes, Send, Resumes, Reply, Deadline, Timer, Return, Crash, allVars,
         storageVars, fileVars
<1>2. /\ disk' = Written(t) /\ t \in outstanding \ landed
      /\ ShapeInv /\ CallFiles(t)
  BY <1>1 DEF PutLands, StorageInv, FilesInv
<1>3. PolicyKnown(t) /\ ReadInv(t) /\ KindInv(t) /\ Unwritten(t)
  BY <1>2 DEF CallFiles, DiskKnown, Holds, Unwritten
<1>4. CASE pc[t] = "putPolicy"
  <2>1. t \notin Audits
    BY <1>3, <1>4 DEF KindInv, AuditPcs
  <2>2. QED
    BY <1>3, <1>4, <2>1 DEF PolicyKnown, ReadInv, PolicyMissing
<1>5. CASE pc[t] = "putSave"
  <2>1. t \in Saves /\ t \notin Audits
    BY <1>3, <1>5, StorageAssumption DEF KindInv, AuditPcs, LoadPcs
  <2>2. disk'.policy = t
    BY <1>2, <1>5 DEF Written, ShapeInv, File
  <2>3. disk.policy = DecidedPolicy(t) /\ DecidedPolicy(t) # "corrupt"
    BY <1>3, <1>5, <2>1 DEF PolicyKnown, ReadInv, DecidedPolicy, BeforePolicy
  <2>4. QED
    BY <2>1, <2>2, <2>3
<1>6. pc[t] \in {"putPolicy", "putSave"}
  BY <1>2 DEF Written, ShapeInv, File
<1>7. QED
  BY <1>4, <1>5, <1>6

(* "New policy always wins; never overwrite with legacy" (migration.ts:9), for *)
(* any calls, files, host and crashes.                                          *)
THEOREM StoredPolicyIsKept == StorageSpec => StoredPolicyKept
<1>1. IInv /\ StorageInv /\ FilesInv /\ [StorageNext]_allVars =>
        [disk'.policy # disk.policy =>
           \/ disk.policy = "missing"
           \/ disk.policy # "corrupt" /\ disk'.policy \in Saves]_allVars
  BY PolicyStep
<1>2. QED
  BY <1>1, FilesCorrect, PTL DEF StorageSpec, StoredPolicyKept

(* "saved" is reported, and the other windows are told, only when the policy    *)
(* is on disk (policy-storage.ts:71-75).                                        *)
LEMMA AnnounceStep ==
  ASSUME FilesInv, [StorageNext]_allVars, NEW s \in announced' \ announced
  PROVE  disk.policy = s
<1>1. PICK t \in Task : SaveCommits(t)
  BY DEF StorageNext, Code, Call, Enter, MigrationStep, ReloadCommits, SaveCommitsLoad,
         SaveReadsBack, Complete, AuditReads, AuditWrites, AuditWarns, AuditCompletes,
         Send, Resumes, PutLands, Reply, Deadline, Timer, Return, Crash, allVars,
         storageVars, storeVars
<1>2. s = t
  BY <1>1 DEF SaveCommits
<1>3. CallFiles(t)
  BY DEF FilesInv
<1>4. QED
  BY <1>1, <1>2, <1>3
  DEF SaveCommits, Running, CallFiles, DiskKnown, Holds, Active, PolicyKnown, Has

(* A save that says "saved" has stored its policy, whatever other calls did.   *)
THEOREM SavedPolicyStored == StorageSpec => SavedIsStored
<1>1. FilesInv /\ [StorageNext]_allVars =>
        [\A t \in announced' \ announced : disk.policy = t]_allVars
  BY AnnounceStep
<1>2. QED
  BY <1>1, FilesCorrect, PTL DEF StorageSpec, SavedIsStored

(* A write replaces the audit log only by what its append makes of the log that *)
(* is on disk, or fills an empty one from the legacy log.                       *)
LEMMA HistoryStep ==
  ASSUME IInv, StorageInv, FilesInv, [StorageNext]_allVars, disk'.audit # disk.audit
  PROVE  /\ disk.audit.state # "corrupt"
         /\ \/ \E t \in Audits : disk'.audit.log = Appended(t, disk.audit.log)
            \/ disk.audit.log = <<>> /\ disk'.audit.log = LastEntries(LegacyAudit.log, MaxAudit)
<1>1. PICK t \in Task : PutLands(t)
  BY DEF StorageNext, Code, Call, Enter, MigrationStep, ReloadCommits, SaveCommitsLoad,
         SaveReadsBack, SaveCommits, Complete, AuditReads, AuditWrites, AuditWarns,
         AuditCompletes, Send, Resumes, Reply, Deadline, Timer, Return, Crash, allVars,
         storageVars, fileVars
<1>2. /\ disk' = Written(t) /\ t \in outstanding \ landed
      /\ ShapeInv /\ CallFiles(t)
  BY <1>1 DEF PutLands, StorageInv, FilesInv
<1>3. LogKnown(t) /\ ReadInv(t) /\ KindInv(t) /\ Unwritten(t)
  BY <1>2 DEF CallFiles, DiskKnown, Holds, Unwritten
<1>4. CASE pc[t] = "putAudit"
  <2>1. t \notin Audits
    BY <1>3, <1>4 DEF KindInv, AuditPcs
  <2>2. /\ mem[t].audit.state # "corrupt" /\ mem[t].audit.log = <<>>
        /\ mem[t].marker = "missing" /\ mem[t].legacyAudit = LegacyAudit
    BY <1>3, <1>4, <2>1 DEF ReadInv, AuditEmpty, BeforeAudit, BeforePolicy
  <2>3. disk.audit = mem[t].audit
    BY <1>3, <1>4, <2>1, <2>2 DEF LogKnown
  <2>4. disk'.audit.log = LastEntries(LegacyAudit.log, MaxAudit)
    BY <1>2, <1>4, <2>2 DEF Written, ShapeInv, File, Log
  <2>5. QED
    BY <2>2, <2>3, <2>4
<1>5. CASE pc[t] = "putLog"
  <2>1. t \in Audits
    BY <1>3, <1>5, StorageAssumption DEF KindInv, LoadPcs, SavePcs
  <2>2. disk.audit = mem[t].audit /\ mem[t].audit.state # "corrupt"
    BY <1>3, <1>5, <2>1 DEF LogKnown
  <2>3. disk'.audit.log = Appended(t, mem[t].audit.log)
    BY <1>2, <1>5 DEF Written, ShapeInv, File, Log
  <2>4. QED
    BY <2>1, <2>2, <2>3
<1>6. pc[t] \in {"putAudit", "putLog"}
  BY <1>2 DEF Written, ShapeInv, File
<1>7. QED
  BY <1>4, <1>5, <1>6

(* The audit history is kept (audit.ts:17-23), also against a write that lands  *)
(* late: the log it writes back is the one on disk, less the entries past its   *)
(* cutoff and the oldest beyond the cap.                                        *)
THEOREM AuditHistoryKept == StorageSpec => HistoryKept
<1>1. IInv /\ StorageInv /\ FilesInv /\ [StorageNext]_allVars =>
        [disk'.audit # disk.audit =>
           /\ disk.audit.state # "corrupt"
           /\ \/ \E t \in Audits : disk'.audit.log = Appended(t, disk.audit.log)
              \/ disk.audit.log = <<>> /\ disk'.audit.log = LastEntries(LegacyAudit.log, MaxAudit)]_allVars
  BY HistoryStep
<1>2. QED
  BY <1>1, FilesCorrect, PTL DEF StorageSpec, HistoryKept

-----------------------------------------------------------------------------
(* Types: the log never outgrows its cap, and the tools obey a policy that was *)
(* saved, stored, imported or the default.                                      *)

Entries == OldEntries \cup Audits

(* DataInv: what the files hold and what the calls have read of them.          *)
DataInv ==
  /\ disk.policy \in Policies \cup {"missing", "corrupt"}
  /\ disk.marker \in Markers \cup {"missing", "corrupt"}
  /\ disk.audit.log \in Seq(Entries) /\ Len(disk.audit.log) <= MaxAudit
  /\ \A t \in Task :
       /\ mem[t].policy \in Policies \cup {"missing", "corrupt"}
       /\ mem[t].legacyPolicy \in {"missing", "corrupt", "legacy"}
       /\ mem[t].audit.log \in Seq(Entries)
       /\ mem[t].legacyAudit.log \in Seq(Entries)

(* StateInv: the types of the other variables.                                 *)
StateInv ==
  /\ landed \subseteq Task
  /\ active \in Task \cup {NoCall}
  /\ policy \in Policies
  /\ reply \in [Task -> {"none", "ready", "unavailable"}]
  /\ writeFailures \subseteq Audits
  /\ announced \subseteq Saves
  /\ retained \in [Task -> 0..MaxAudit]
  /\ crashes \in Nat

(* The newest n entries of a log are a log of at most n entries.               *)
LEMMA LastEntriesType ==
  ASSUME NEW S, NEW s \in Seq(S), NEW n \in Nat
  PROVE  LastEntries(s, n) \in Seq(S) /\ Len(LastEntries(s, n)) <= n
<1>1. CASE Len(s) <= n
  BY <1>1 DEF LastEntries
<1>2. CASE Len(s) > n
  <2>1. Len(s) \in Nat /\ Len(s) - n + 1 \in 1..(Len(s) + 1)
    BY <1>2
  <2>2. SubSeq(s, Len(s) - n + 1, Len(s)) \in Seq(S)
    BY <2>1
  <2>3. Len(SubSeq(s, Len(s) - n + 1, Len(s))) = n
    BY <2>1
  <2>4. QED
    BY <1>2, <2>1, <2>2, <2>3 DEF LastEntries
<1>3. QED
  BY <1>1, <1>2

(* An append leaves a log within the cap, the call's entry last.               *)
LEMMA AppendedType ==
  ASSUME StateInv, NEW t \in Audits, NEW s \in Seq(Entries)
  PROVE  /\ Appended(t, s) \in Seq(Entries)
         /\ Len(Appended(t, s)) \in 1..MaxAudit
         /\ Appended(t, s)[Len(Appended(t, s))] = t
<1> DEFINE kept == LastEntries(LastEntries(s, retained[t]), MaxAudit - 1)
<1>1. retained[t] \in Nat /\ MaxAudit \in Nat /\ MaxAudit - 1 \in Nat /\ t \in Entries
  BY StorageAssumption DEF StateInv, Entries
<1>2. LastEntries(s, retained[t]) \in Seq(Entries)
  BY <1>1, LastEntriesType
<1>3. kept \in Seq(Entries) /\ Len(kept) <= MaxAudit - 1
  BY <1>1, <1>2, LastEntriesType
<1>4. Appended(t, s) = Append(kept, t)
  BY DEF Appended
<1> HIDE DEF kept
<1>5. QED
  BY <1>1, <1>3, <1>4

(* What a write leaves in a file has the file's type.                          *)
LEMMA WrittenType ==
  ASSUME ShapeInv, DataInv, StateInv, NEW t \in Task, pc[t] = "putSave" => t \in Saves,
         pc[t] = "putLog" => t \in Audits
  PROVE  /\ Written(t).policy \in Policies \cup {"missing", "corrupt"}
         /\ Written(t).marker \in Markers \cup {"missing", "corrupt"}
         /\ Written(t).audit.log \in Seq(Entries) /\ Len(Written(t).audit.log) <= MaxAudit
<1>1. /\ Written(t).policy = CASE pc[t] = "putPolicy" -> DecidedPolicy(t)
                              [] pc[t] = "putSave"   -> t
                              [] OTHER               -> disk.policy
      /\ Written(t).marker \in {disk.marker, "sealed"}
      /\ Written(t).audit = CASE pc[t] = "putAudit" -> Log(LastEntries(mem[t].legacyAudit.log, MaxAudit))
                             [] pc[t] = "putLog"   -> Log(Appended(t, mem[t].audit.log))
                             [] OTHER              -> disk.audit
  BY DEF Written, ShapeInv, File
<1>2. DecidedPolicy(t) \in Policies \cup {"missing", "corrupt"}
  BY DEF DecidedPolicy, DataInv, Policies
<1>3. Written(t).policy \in Policies \cup {"missing", "corrupt"}
  BY <1>1, <1>2 DEF DataInv, Policies
<1>4. Written(t).marker \in Markers \cup {"missing", "corrupt"}
  BY <1>1 DEF DataInv, Markers
<1>5. MaxAudit \in Nat
  BY StorageAssumption
<1>6. /\ LastEntries(mem[t].legacyAudit.log, MaxAudit) \in Seq(Entries)
      /\ Len(LastEntries(mem[t].legacyAudit.log, MaxAudit)) <= MaxAudit
  BY <1>5, LastEntriesType DEF DataInv
<1>7. pc[t] = "putLog" => /\ Appended(t, mem[t].audit.log) \in Seq(Entries)
                          /\ Len(Appended(t, mem[t].audit.log)) <= MaxAudit
  BY <1>5, AppendedType DEF DataInv
<1>8. Log(LastEntries(mem[t].legacyAudit.log, MaxAudit)).log
        = LastEntries(mem[t].legacyAudit.log, MaxAudit)
      /\ Log(Appended(t, mem[t].audit.log)).log = Appended(t, mem[t].audit.log)
  BY DEF Log
<1>9. Written(t).audit.log \in Seq(Entries) /\ Len(Written(t).audit.log) <= MaxAudit
  BY <1>1, <1>6, <1>7, <1>8 DEF DataInv
<1>10. QED
  BY <1>3, <1>4, <1>9

LEMMA DataInit ==
  ASSUME StorageInit
  PROVE  DataInv /\ StateInv
<1> USE DEF StorageInit
<1>1. \A t \in Task : mem[t] = NoMem
  OBVIOUS
<1>2. <<>> \in Seq(Entries)
  OBVIOUS
<1>3. disk.audit.log \in Seq(Entries) /\ Len(disk.audit.log) <= MaxAudit
  <2>1. disk.audit.log \in Seq(OldEntries) /\ Len(disk.audit.log) <= MaxAudit
    BY FilesAssumption
  <2>2. \A i \in 1..Len(disk.audit.log) : disk.audit.log[i] \in Entries
    BY <2>1 DEF Entries
  <2>3. QED
    BY <2>1, <2>2
<1>4. DataInv
  BY <1>1, <1>2, <1>3, FilesAssumption DEF DataInv, NoMem, NoLog, Policies
<1>5. StateInv
  BY StorageAssumption DEF StateInv, Policies
<1>6. QED
  BY <1>4, <1>5

(* Only a write that lands and an answer move data.                            *)
LEMMA DataNext ==
  ASSUME StorageInv, FilesInv, DataInv, StateInv, [StorageNext]_allVars
  PROVE  DataInv'
<1>1. ASSUME UNCHANGED <<disk, mem>>
      PROVE  DataInv'
  BY <1>1 DEF DataInv
<1>2. ASSUME NEW t \in Task, PutLands(t)
      PROVE  DataInv'
  <2>1. disk' = Written(t) /\ UNCHANGED mem /\ ShapeInv /\ KindInv(t)
    BY <1>2 DEF PutLands, localVars, StorageInv, FilesInv, CallFiles
  <2>2. (pc[t] = "putSave" => t \in Saves) /\ (pc[t] = "putLog" => t \in Audits)
    BY <2>1, StorageAssumption DEF KindInv, LoadPcs, SavePcs, AuditPcs
  <2>3. QED
    BY <2>1, <2>2, WrittenType DEF DataInv
<1>3. ASSUME NEW t \in Task, Reply(t)
      PROVE  DataInv'
  <2>1. /\ UNCHANGED disk /\ ShapeInv
        /\ mem' = [mem EXCEPT ![t] = IF answer'[t] = "ok" THEN Remembered(t) ELSE mem[t]]
    BY <1>3 DEF Reply, fileVars, StorageInv
  <2>2. LegacyAudit.log \in Seq(Entries)
    <3>1. LegacyAudit.log \in Seq(OldEntries)
      BY FilesAssumption
    <3>2. \A i \in 1..Len(LegacyAudit.log) : LegacyAudit.log[i] \in Entries
      BY <3>1 DEF Entries
    <3>3. QED
      BY <3>1, <3>2
  <2>3. /\ Remembered(t).policy \in {disk.policy, mem[t].policy}
        /\ Remembered(t).legacyPolicy \in {LegacyPolicy, mem[t].legacyPolicy}
        /\ Remembered(t).audit \in {disk.audit, mem[t].audit}
        /\ Remembered(t).legacyAudit \in {LegacyAudit, mem[t].legacyAudit}
    BY <2>1 DEF Remembered, ShapeInv
  <2>4. QED
    BY <2>1, <2>2, <2>3, FilesAssumption DEF DataInv, ShapeInv
<1>4. ASSUME NEW t \in Task, Call(t) \/ Code(t) \/ Deadline(t) \/ Timer(t)
      PROVE  UNCHANGED <<disk, mem>>
  BY <1>4
  DEF Call, Code, Deadline, Timer, Enter, MigrationStep, ReloadCommits, SaveCommitsLoad,
      SaveReadsBack, SaveCommits, Complete, AuditReads, AuditWrites, AuditWarns,
      AuditCompletes, Send, Resumes, storageVars, fileVars, localVars
<1>5. Return \/ Crash \/ UNCHANGED allVars => UNCHANGED <<disk, mem>>
  BY DEF Return, Crash, allVars, storageVars, fileVars, localVars
<1>6. QED
  BY <1>1, <1>2, <1>3, <1>4, <1>5 DEF StorageNext

(* A commit publishes a policy, never an unreadable or a missing one.          *)
LEMMA CommitsPolicy ==
  ASSUME StorageInv, FilesInv, DataInv, NEW t \in Task, Running(t), AtCommit(t)
  PROVE  DecidedPolicy(t) \in Policies
<1>1. CallFiles(t) /\ t \notin Audits
  BY DEF FilesInv, AtCommit, InLoad
<1>2. ReadInv(t)
  BY <1>1 DEF CallFiles
<1>3. /\ pc[t] \in LoadPcs
      /\ \/ pc[t] \in SealPcs
         \/ ~MigrationRefuses(t) /\ NextOfLoad(t) = "loaded"
  BY DEF AtCommit, InLoad, Answered, LoadNext
<1>4. pc[t] \in SealPcs \cup {"readPolicy", "checkPolicy", "checkMarker"}
  BY <1>3
  DEF NextOfLoad, LoadPcs, SealPcs, AfterPolicyRead, AfterAuditRead, AfterLegacyReads, Sealing
<1>5. mem[t].policy # "corrupt" /\ mem[t].legacyPolicy # "corrupt"
  BY <1>1, <1>2, <1>3, <1>4 DEF ReadInv, MigrationRefuses, SealPcs, BeforePolicy
<1>6. mem[t].policy \in Policies \cup {"missing"} /\ mem[t].legacyPolicy \in {"missing", "legacy"}
  BY <1>5 DEF DataInv
<1>7. QED
  BY <1>6 DEF DecidedPolicy, PolicyMissing, Policies

LEMMA StateNext ==
  ASSUME IInv, StorageInv, FilesInv, PublishInv, DataInv, StateInv, [StorageNext]_allVars
  PROVE  StateInv'
<1> USE DEF StateInv, IInv, TypeOK
<1>1. landed' \subseteq Task
  BY DEF StorageNext, Code, Call, Enter, MigrationStep, ReloadCommits, SaveCommitsLoad,
         SaveReadsBack, SaveCommits, Complete, AuditReads, AuditWrites, AuditWarns,
         AuditCompletes, Send, Resumes, PutLands, Reply, Deadline, Timer, Return, Crash,
         allVars, storageVars, fileVars
<1>2. active' \in Task \cup {NoCall}
  BY DEF StorageNext, Code, Call, Enter, MigrationStep, ReloadCommits, SaveCommitsLoad,
         SaveReadsBack, SaveCommits, Complete, AuditReads, AuditWrites, AuditWarns,
         AuditCompletes, Send, Resumes, PutLands, Reply, Deadline, Timer, Return, Crash,
         allVars, storageVars, storeVars
<1>3. policy' \in Policies
  <2>1. ASSUME NEW t \in Task, ReloadCommits(t) \/ SaveCommitsLoad(t)
        PROVE  policy' \in Policies
    BY <2>1, CommitsPolicy DEF ReloadCommits, SaveCommitsLoad
  <2>2. ASSUME NEW t \in Task, SaveCommits(t)
        PROVE  policy' \in Policies
    <3>1. t \in Saves
      BY <2>2, StorageAssumption
      DEF FilesInv, CallFiles, KindInv, SaveCommits, AuditPcs, LoadPcs
    <3>2. QED
      BY <2>2, <3>1 DEF SaveCommits, Policies
  <2>3. Return \/ Crash => policy' \in Policies
    BY DEF Return, CatchBlock, Crash, Policies
  <2>4. ASSUME NEW t \in Task,
               Enter(t) \/ MigrationStep(t) \/ SaveReadsBack(t) \/ Complete(t) \/ AuditReads(t)
               \/ AuditWrites(t) \/ AuditWarns(t) \/ AuditCompletes(t) \/ Send(t) \/ Resumes(t)
               \/ Call(t) \/ PutLands(t) \/ Reply(t) \/ Deadline(t) \/ Timer(t)
        PROVE  policy' = policy
    BY <2>4
    DEF Enter, MigrationStep, SaveReadsBack, Complete, AuditReads, AuditWrites, AuditWarns,
        AuditCompletes, Send, Resumes, Call, PutLands, Reply, Deadline, Timer, storageVars,
        storeVars
  <2>5. UNCHANGED allVars => policy' = policy
    BY DEF allVars, storageVars, storeVars
  <2>6. QED
    BY <2>1, <2>2, <2>3, <2>4, <2>5 DEF StorageNext, Code
<1>4. reply' \in [Task -> {"none", "ready", "unavailable"}]
  <2>1. Return => reply' \in [Task -> {"none", "ready", "unavailable"}]
    BY DEF Return
  <2>2. ~Return => reply' = reply
    BY DEF StorageNext, Code, Call, Enter, MigrationStep, ReloadCommits, SaveCommitsLoad,
           SaveReadsBack, SaveCommits, Complete, AuditReads, AuditWrites, AuditWarns,
           AuditCompletes, Send, Resumes, PutLands, Reply, Deadline, Timer, Crash,
           allVars, storageVars, storeVars
  <2>3. QED
    BY <2>1, <2>2
<1>5. writeFailures' \subseteq Audits
  BY DEF StorageNext, Code, Call, Enter, Leave, MigrationStep, ReloadCommits, SaveCommitsLoad,
         SaveReadsBack, SaveCommits, Complete, AuditReads, AuditWrites, AuditWarns,
         AuditCompletes, Send, Resumes, PutLands, Reply, Deadline, Timer, Return, Crash, Ask,
         allVars, storageVars, localVars
<1>6. announced' \subseteq Saves
  <2>1. ASSUME NEW t \in Task, SaveCommits(t)
        PROVE  announced' \subseteq Saves
    <3>1. t \in Saves
      BY <2>1, StorageAssumption
      DEF FilesInv, CallFiles, KindInv, SaveCommits, AuditPcs, LoadPcs
    <3>2. QED
      BY <2>1, <3>1 DEF SaveCommits
  <2>2. (\A t \in Task : ~SaveCommits(t)) => announced' = announced
    BY DEF StorageNext, Code, Call, Enter, MigrationStep, ReloadCommits, SaveCommitsLoad,
           SaveReadsBack, Complete, AuditReads, AuditWrites, AuditWarns,
           AuditCompletes, Send, Resumes, PutLands, Reply, Deadline, Timer, Return, Crash,
           allVars, storageVars, storeVars
  <2>3. QED
    BY <2>1, <2>2
<1>7. crashes' \in Nat
  <2>1. Crash => crashes' = crashes + 1
    BY DEF Crash
  <2>2. ~Crash => crashes' = crashes
    BY DEF StorageNext, Code, Call, Enter, MigrationStep, ReloadCommits, SaveCommitsLoad,
           SaveReadsBack, SaveCommits, Complete, AuditReads, AuditWrites, AuditWarns,
           AuditCompletes, Send, Resumes, PutLands, Reply, Deadline, Timer, Return,
           allVars, storageVars
  <2>3. QED
    BY <2>1, <2>2
<1>8. retained' \in [Task -> 0..MaxAudit]
  <2>1. ASSUME NEW t \in Task, AuditReads(t)
        PROVE  retained' \in [Task -> 0..MaxAudit]
    BY <2>1 DEF AuditReads
  <2>2. (\A t \in Task : ~AuditReads(t)) => retained' = retained
    BY DEF StorageNext, Code, Call, Enter, MigrationStep, ReloadCommits, SaveCommitsLoad,
           SaveReadsBack, SaveCommits, Complete, AuditWrites, AuditWarns,
           AuditCompletes, Send, Resumes, PutLands, Reply, Deadline, Timer, Return, Crash,
           allVars, storageVars, localVars
  <2>3. QED
    BY <2>1, <2>2
<1>9. QED
  BY <1>1, <1>2, <1>3, <1>4, <1>5, <1>6, <1>7, <1>8

(* The data keep their types in every reachable state.                          *)
LEMMA DataCorrect == StorageSpec => [](DataInv /\ StateInv)
<1>1. StorageInit => DataInv /\ StateInv
  BY DataInit
<1>2. IInv /\ StorageInv /\ FilesInv /\ PublishInv /\ DataInv /\ StateInv /\ [StorageNext]_allVars
        => DataInv' /\ StateInv'
  BY DataNext, StateNext
<1>3. QED
  BY <1>1, <1>2, FilesCorrect, PTL DEF StorageSpec

(* The types of the storage; the audit log stays within MAX_AUDIT_ENTRIES.      *)
THEOREM StorageTypeCorrect == StorageSpec => []StorageTypeOK
<1>1. IInv /\ StorageInv /\ PublishInv /\ DataInv /\ StateInv => StorageTypeOK
  BY DEF StorageTypeOK, IInv, StorageInv, ShapeInv, PublishInv, LoadInv, DataInv, StateInv
<1>2. QED
  BY <1>1, DataCorrect, FilesCorrect, PTL

-----------------------------------------------------------------------------
(* The count of missed entries.  An audit call goes on from its put only with  *)
(* an answer, and the answer is "ok" only after the put has landed; whatever   *)
(* else ends it is counted first.                                              *)

InLog(t) == \E i \in 1..Len(disk.audit.log) : disk.audit.log[i] = t

(* EntryInv: where the entry of an audit call is, or that it is counted.       *)
EntryInv(t) ==
  /\ pc[t] = "warn" /\ phase[t] \in Active => t \in writeFailures
  /\ t \in landed => pc[t] \in {"putLog", "warn"}
  /\ pc[t] = "putLog" /\ phase[t] \in Active /\ t \in landed => InLog(t)
  /\ pc[t] = "putLog" /\ Has(t) => t \in landed

MissInv == \A t \in Audits : EntryInv(t)

(* A call that moves on within its request, or ends, keeps its entry.          *)
LEMMA EntryKept ==
  ASSUME NEW t \in Audits, EntryInv(t), disk'.audit = disk.audit \/ phase'[t] \notin Active,
         pc'[t] = pc[t],
         phase'[t] \in Active /\ pc[t] \in {"putLog", "warn"} => phase[t] \in Active,
         t \in writeFailures => t \in writeFailures' \/ phase'[t] \notin Active,
         (t \in landed') = (t \in landed),
         Has(t)' /\ pc[t] = "putLog" => Has(t) \/ t \in landed
  PROVE  EntryInv(t)'
  BY DEF EntryInv, InLog

(* The requests of an audit call: the put is asked for before it can land, and *)
(* the warning only once the miss is counted.                                  *)
LEMMA EntryAsked ==
  ASSUME IInv, StorageInv, FilesInv, NEW t \in Audits, EntryInv(t),
         AuditReads(t) \/ AuditWrites(t) \/ AuditWarns(t)
  PROVE  EntryInv(t)'
<1>1. /\ t \in Task /\ pc \in [Task -> Pcs] /\ phase[t] = "running"
      /\ UNCHANGED <<disk, landed>>
  BY StorageAssumption DEF StorageInv, ShapeInv, AuditReads, AuditWrites, AuditWarns, Running, fileVars
<1>2. \/ phase' = [phase EXCEPT ![t] = "starting"]
      \/ phase' = phase /\ answer' = [answer EXCEPT ![t] = "timeout"]
  <2>1. Wait(t)
    BY DEF AuditReads, AuditWrites, AuditWarns, Ask
  <2>2. QED
    BY <2>1 DEF Wait
<1>3. ~Has(t)'
  BY <1>1, <1>2 DEF Has, IInv, TypeOK
<1>4. CASE AuditReads(t)
  BY <1>1, <1>3, <1>4 DEF AuditReads, Ask, EntryInv
<1>5. CASE AuditWrites(t)
  BY <1>1, <1>3, <1>5 DEF AuditWrites, Ask, EntryInv
<1>6. CASE AuditWarns(t)
  <2>1. pc'[t] = "warn" /\ t \in writeFailures'
    BY <1>1, <1>6 DEF AuditWarns, Ask
  <2>2. t \in landed => pc[t] \in {"putLog", "warn"}
    BY DEF EntryInv
  <2>3. QED
    BY <1>1, <1>3, <2>1 DEF EntryInv
<1>7. QED
  BY <1>4, <1>5, <1>6

(* A put that lands leaves its entry at the end of the log.                     *)
LEMMA EntryLands ==
  ASSUME IInv, StorageInv, FilesInv, DataInv, StateInv, NEW t \in Audits, EntryInv(t),
         NEW u \in Task, PutLands(u)
  PROVE  EntryInv(t)'
<1>1. /\ t \in Task
      /\ UNCHANGED <<phase, answer, pc, writeFailures>>
      /\ u \in outstanding /\ landed' = landed \cup {u} /\ disk' = Written(u)
      /\ pc[u] \in PutPcs
  BY StorageAssumption DEF PutLands, vars, localVars
<1>2. CASE u # t
  <2>1. phase[t] \notin Active
    BY <1>1, <1>2, OneHolder DEF Holds
  <2>2. QED
    BY <1>1, <1>2, <2>1, EntryKept DEF Has, Active
<1>3. CASE u = t
  <2>1. pc[t] = "putLog"
    BY <1>1, <1>3 DEF FilesInv, CallFiles, KindInv, AuditPcs, PutPcs
  <2>2. disk'.audit.log = Appended(t, mem[t].audit.log)
    BY <1>1, <1>3, <2>1 DEF Written, StorageInv, ShapeInv, File, Log
  <2>3. mem[t].audit.log \in Seq(Entries)
    BY <1>1 DEF DataInv
  <2>4. /\ Len(disk'.audit.log) \in 1..MaxAudit
        /\ disk'.audit.log[Len(disk'.audit.log)] = t
    BY <2>2, <2>3, AppendedType
  <2>5. InLog(t)'
    BY <2>4, StorageAssumption DEF InLog
  <2>6. QED
    BY <1>1, <1>3, <2>1, <2>5 DEF EntryInv
<1>4. QED
  BY <1>2, <1>3

(* Every step keeps the entry of every audit call.                              *)
LEMMA EntryNext ==
  ASSUME IInv, StorageInv, FilesInv, DataInv, StateInv, ~HostDrops, NEW t \in Audits,
         EntryInv(t), [StorageNext]_allVars
  PROVE  EntryInv(t)'
<1> t \in Task
  BY StorageAssumption
<1>1. CASE UNCHANGED allVars
  BY <1>1, EntryKept DEF allVars, vars, storageVars, fileVars, localVars, Has
<1>2. ASSUME NEW u \in Task, Call(u)
      PROVE  EntryInv(t)'
  <2>1. phase' = [phase EXCEPT ![u] = "queued"] /\ UNCHANGED <<answer, storageVars>>
    BY <1>2 DEF Call, Run
  <2>2. QED
    BY <2>1, EntryKept DEF IInv, TypeOK, storageVars, fileVars, localVars, Has, Active
<1>3. ASSUME NEW u \in Task, Enter(u)
      PROVE  EntryInv(t)'
  <2>1. /\ phase[u] = "queued" /\ phase' \in {[phase EXCEPT ![u] = "running"], [phase EXCEPT ![u] = "done"]}
        /\ UNCHANGED <<answer, disk, landed, pc>>
        /\ writeFailures \subseteq writeFailures'
    BY <1>3 DEF Enter, Begin, Settle, Leave, fileVars
  <2>2. pc[u] = "start"
    BY <2>1 DEF StorageInv, StageInv
  <2>3. QED
    BY <2>1, <2>2, EntryKept DEF IInv, TypeOK, Has, Active
<1>4. ASSUME NEW u \in Task \ Audits,
             MigrationStep(u) \/ SaveCommitsLoad(u) \/ SaveReadsBack(u)
      PROVE  EntryInv(t)'
  <2>1. /\ \E p \in Pcs : pc' = [pc EXCEPT ![u] = p]
        /\ phase' \in {phase, [phase EXCEPT ![u] = "starting"]}
        /\ answer' \in {answer, [answer EXCEPT ![u] = "timeout"]}
        /\ UNCHANGED <<disk, landed, writeFailures>>
    <3>1. CASE MigrationStep(u)
      BY <3>1, LoadRequests DEF MigrationStep, Ask, Wait, fileVars, Pcs
    <3>2. CASE SaveCommitsLoad(u) \/ SaveReadsBack(u)
      BY <3>2 DEF SaveCommitsLoad, SaveReadsBack, Ask, Wait, fileVars, Pcs, SavePcs
    <3>3. QED
      BY <1>4, <3>1, <3>2
  <2>2. u # t
    BY <1>4
  <2>3. pc'[t] = pc[t] /\ phase'[t] = phase[t] /\ answer'[t] = answer[t]
    BY <2>1, <2>2 DEF IInv, TypeOK, StorageInv, ShapeInv
  <2>4. QED
    BY <2>1, <2>3, EntryKept DEF Has
<1>5. ASSUME NEW u \in Task \ Audits, ReloadCommits(u) \/ SaveCommits(u)
      PROVE  EntryInv(t)'
  <2>1. /\ pc' = [pc EXCEPT ![u] = "committed"] /\ u # t
        /\ UNCHANGED <<phase, answer, disk, landed, writeFailures>>
    BY <1>5 DEF ReloadCommits, SaveCommits, vars, fileVars
  <2>2. QED
    BY <2>1, EntryKept DEF StorageInv, ShapeInv, Has
<1>6. ASSUME NEW u \in Task, Complete(u) \/ AuditCompletes(u)
      PROVE  EntryInv(t)'
  <2>1. /\ phase[u] = "running" /\ phase' = [phase EXCEPT ![u] = "done"]
        /\ UNCHANGED <<answer, disk, landed, pc>>
        /\ writeFailures \subseteq writeFailures'
    BY <1>6 DEF Complete, AuditCompletes, Running, Settle, Leave, fileVars
  <2>2. QED
    BY <2>1, EntryKept DEF IInv, TypeOK, Has, Active
<1>7. ASSUME NEW u \in Audits, AuditReads(u) \/ AuditWrites(u) \/ AuditWarns(u)
      PROVE  EntryInv(t)'
  <2>1. CASE u = t
    BY <1>7, <2>1, EntryAsked
  <2>2. CASE u # t
    <3>1. /\ \E p \in Pcs : pc' = [pc EXCEPT ![u] = p]
          /\ phase' \in {phase, [phase EXCEPT ![u] = "starting"]}
          /\ answer' \in {answer, [answer EXCEPT ![u] = "timeout"]}
          /\ UNCHANGED <<disk, landed>> /\ writeFailures \subseteq writeFailures'
      BY <1>7 DEF AuditReads, AuditWrites, AuditWarns, Ask, Wait, fileVars, Pcs, AuditPcs
    <3>2. pc'[t] = pc[t] /\ phase'[t] = phase[t] /\ answer'[t] = answer[t]
      BY <2>2, <3>1 DEF IInv, TypeOK, StorageInv, ShapeInv
    <3>3. QED
      BY <3>1, <3>2, EntryKept DEF Has
  <2>3. QED
    BY <2>1, <2>2
<1>8. ASSUME NEW u \in Task, Send(u)
      PROVE  EntryInv(t)'
  <2>1. /\ phase[u] = "starting" /\ landed' = landed \ {u}
        /\ \/ phase' = [phase EXCEPT ![u] = "waiting"] /\ answer' = answer
           \/ phase' = [phase EXCEPT ![u] = "running"] /\ answer' = [answer EXCEPT ![u] = "timeout"]
        /\ UNCHANGED <<disk, pc, writeFailures>>
    BY <1>8 DEF Send, StartRequest, localVars
  <2>2. CASE u # t
    <3>1. phase'[t] = phase[t] /\ answer'[t] = answer[t] /\ (t \in landed') = (t \in landed)
      BY <2>1, <2>2 DEF IInv, TypeOK
    <3>2. QED
      BY <2>1, <3>1, EntryKept DEF Has
  <2>3. CASE u = t
    <3>1. ~Has(t)' /\ t \notin landed' /\ phase[t] \in Active
      BY <2>1, <2>3 DEF IInv, TypeOK, Has, Active
    <3>2. QED
      BY <2>1, <3>1 DEF EntryInv
  <2>4. QED
    BY <2>2, <2>3
<1>9. ASSUME NEW u \in Task, Resumes(u)
      PROVE  EntryInv(t)'
  <2>1. /\ phase[u] = "resumed" /\ phase' = [phase EXCEPT ![u] = "running"]
        /\ answer' \in {answer, [answer EXCEPT ![u] = "timeout"]}
        /\ UNCHANGED storageVars
    <3>1. [answer EXCEPT ![u] = answer[u]] = answer
      BY DEF IInv, TypeOK
    <3>2. QED
      BY <1>9, <3>1 DEF Resumes, Resume
  <2>2. Has(t)' => Has(t)
    BY <2>1 DEF IInv, TypeOK, Has
  <2>3. QED
    BY <2>1, <2>2, EntryKept DEF IInv, TypeOK, storageVars, fileVars, localVars, Active
<1>10. ASSUME NEW u \in Task, PutLands(u)
       PROVE  EntryInv(t)'
  BY <1>10, EntryLands
<1>11. ASSUME NEW u \in Task, Reply(u)
       PROVE  EntryInv(t)'
  <2>1. /\ UNCHANGED <<disk, landed, pc, writeFailures>>
        /\ \/ /\ phase[u] = "waiting" /\ phase' = [phase EXCEPT ![u] = "resumed"]
              /\ \E a \in {"ok", "error"} : answer' = [answer EXCEPT ![u] = a]
           \/ UNCHANGED <<phase, answer>>
    BY <1>11 DEF Reply, HostSettles, fileVars
  <2>2. answer'[u] = "ok" /\ phase[u] = "waiting" /\ pc[u] \in PutPcs => u \in landed
    BY <1>11 DEF Reply
  <2>3. Has(t)' /\ pc[t] = "putLog" => Has(t) \/ t \in landed
    BY <2>1, <2>2 DEF IInv, TypeOK, Has, PutPcs
  <2>4. phase'[t] \in Active => phase[t] \in Active
    BY <2>1 DEF IInv, TypeOK, Active
  <2>5. QED
    BY <2>1, <2>3, <2>4, EntryKept
<1>12. ASSUME NEW u \in Task, Deadline(u) \/ Timer(u)
       PROVE  EntryInv(t)'
  <2>1. /\ UNCHANGED storageVars
        /\ \/ /\ phase[u] = "waiting" /\ phase' = [phase EXCEPT ![u] = "running"]
              /\ answer' = [answer EXCEPT ![u] = "timeout"]
           \/ UNCHANGED <<phase, answer>>
    BY <1>12 DEF Deadline, DeadlinePasses, Timer, TimerFires
  <2>2. (Has(t)' => Has(t)) /\ (phase'[t] \in Active => phase[t] \in Active)
    BY <2>1 DEF IInv, TypeOK, Has, Active
  <2>3. QED
    BY <2>1, <2>2, EntryKept DEF storageVars, fileVars, localVars
<1>13. CASE Return
  BY <1>13, EntryKept DEF Return, vars, fileVars, localVars, Has
<1>14. CASE Crash
  <2>1. phase'[t] \notin Active
    BY <1>14 DEF Crash, Active
  <2>2. QED
    BY <1>14, <2>1, EntryKept DEF Crash, fileVars, Has, Active
<1>15. \A u \in Task :
         /\ MigrationStep(u) \/ ReloadCommits(u) \/ SaveCommitsLoad(u) => u \notin Audits
         /\ SaveReadsBack(u) \/ SaveCommits(u) => u \notin Audits
         /\ AuditReads(u) \/ AuditWrites(u) \/ AuditWarns(u) => u \in Audits
  BY StorageAssumption
  DEF MigrationStep, InLoad, ReloadCommits, SaveCommitsLoad, SaveReadsBack, SaveCommits,
      AuditReads, AuditWrites, AuditWarns, FilesInv, CallFiles, KindInv, AuditPcs, LoadPcs,
      SavePcs
<1>16. ASSUME NEW u \in Task, Code(u)
       PROVE  EntryInv(t)'
  BY <1>3, <1>4, <1>5, <1>6, <1>7, <1>8, <1>9, <1>15, <1>16 DEF Code
<1>17. QED
  BY <1>1, <1>2, <1>10, <1>11, <1>12, <1>13, <1>14, <1>16 DEF StorageNext

(* A call that ends has its entry in the log or is counted.                     *)
LEMMA MissStep ==
  ASSUME IInv, StateInv, NEW t \in Audits, EntryInv(t), [StorageNext]_allVars,
         phase[t] # "done", phase'[t] = "done", crashes' = crashes
  PROVE  t \in writeFailures' \/ InLog(t)
<1>1. CASE Enter(t)
  BY <1>1 DEF Enter, Leave
<1>2. CASE AuditCompletes(t)
  <2>1. CASE AuditFailed(t)
    BY <1>2, <2>1 DEF AuditCompletes, Leave
  <2>2. CASE pc[t] = "warn"
    BY <1>2, <2>2 DEF AuditCompletes, Running, EntryInv, Leave, Active
  <2>3. CASE pc[t] = "putLog" /\ answer[t] = "ok"
    BY <1>2, <2>3 DEF AuditCompletes, Running, EntryInv, Has, Active
  <2>4. QED
    BY <1>2, <2>1, <2>2, <2>3 DEF AuditCompletes
<1>3. t \in Task /\ phase \in [Task -> Phases]
  BY StorageAssumption DEF IInv, TypeOK
<1>4. ~Crash
  BY DEF Crash, StateInv
<1>5. Enter(t) \/ AuditCompletes(t)
  <2>1. \A u \in Task : ~Call(u) /\ ~PutLands(u) /\ ~Reply(u) /\ ~Deadline(u) /\ ~Timer(u)
    BY <1>3 DEF Call, Run, PutLands, Reply, HostSettles, Deadline, DeadlinePasses, Timer,
                TimerFires, vars
  <2>2. ~Return
    BY DEF Return, vars
  <2>3. PICK u \in Task : Code(u)
    BY <1>4, <2>1, <2>2 DEF StorageNext, allVars, vars
  <2>4. ~Send(u) /\ ~Resumes(u) /\ ~ReloadCommits(u) /\ ~SaveCommits(u)
    BY <1>3 DEF Send, StartRequest, Resumes, Resume, ReloadCommits, SaveCommits, vars
  <2>5. \A p : ~Ask(u, p)
    BY <1>3 DEF Ask, Wait
  <2>6. Enter(u) \/ Complete(u) \/ AuditCompletes(u)
    BY <2>3, <2>4, <2>5
    DEF Code, MigrationStep, SaveCommitsLoad, SaveReadsBack, AuditReads, AuditWrites, AuditWarns
  <2>7. u = t
    BY <1>3, <2>6 DEF Enter, Begin, Settle, Complete, AuditCompletes
  <2>8. QED
    BY <2>6, <2>7 DEF Complete
<1>6. QED
  BY <1>1, <1>2, <1>5

(* Every missed entry is counted (audit.ts:24-26), by whatever step of the     *)
(* append the call ended and however late the host answers, as long as the     *)
(* host acknowledges no put that it drops.                                     *)
THEOREM MissedEntriesCounted ==
  ASSUME ~HostDrops
  PROVE  StorageSpec => MissesCounted
<1>1. StorageInit => MissInv
  BY StorageAssumption DEF StorageInit, Init, MissInv, EntryInv, Has
<1>2. IInv /\ StorageInv /\ FilesInv /\ DataInv /\ StateInv /\ MissInv /\ [StorageNext]_allVars
        => MissInv'
  BY EntryNext DEF MissInv
<1>3. IInv /\ StateInv /\ MissInv /\ [StorageNext]_allVars =>
        [\A t \in Audits :
           phase[t] # "done" /\ phase'[t] = "done" /\ crashes' = crashes =>
             \/ t \in writeFailures'
             \/ \E i \in 1..Len(disk.audit.log) : disk.audit.log[i] = t]_allVars
  BY MissStep DEF MissInv, InLog
<1>4. QED
  BY <1>1, <1>2, <1>3, FilesCorrect, DataCorrect, PTL DEF StorageSpec, MissesCounted
-----------------------------------------------------------------------------
(* The safety half of EveryCallAnswered, for any calls: a call makes its       *)
(* requests in an order that it never goes back in, so there are few of them;  *)
(* and while the queue holds calls, its head has a step to make or waits for a *)
(* timer that is still to fire.                                                *)

(* The place of a request in that order; a save commits after its readback. *)
Rank(p) ==
  CASE p = "start" -> 0
    [] p \in {"readMarker", "readLog"} -> 1
    [] p \in {"readPolicy", "putLog"} -> 2
    [] p \in {"readAudit", "warn"} -> 3
    [] p = "readLegacyPolicy" -> 4
    [] p = "readLegacyAudit" -> 5
    [] p = "putPolicy" -> 6
    [] p = "checkPolicy" -> 7
    [] p = "putAudit" -> 8
    [] p = "checkAudit" -> 9
    [] p \in {"putMarker", "sealMarker"} -> 10
    [] p \in {"checkMarker", "checkSeal"} -> 11
    [] p = "putSave" -> 12
    [] OTHER -> 13

RankInv == \A t \in Task : phase[t] # "straying" /\ waits[t] <= Rank(pc[t])

(* The guards of the actions of a call under way, those of execute() and those *)
(* of appendEntry().                                                            *)
LoadGoesOn(t) ==
  \/ Stops(t) \/ pc[t] = "committed"
  \/ InLoad(t) /\ Answered(t) /\ LoadNext(t) # "loaded"
  \/ AtCommit(t)
  \/ pc[t] = "putSave" /\ answer[t] = "ok"
  \/ pc[t] = "checkSave" /\ answer[t] = "ok" /\ InTime(t)

AuditGoesOn(t) ==
  \/ pc[t] \in {"start", "warn"}
  \/ pc[t] = "readLog" /\ LogReadable(t)
  \/ pc[t] = "putLog" /\ answer[t] = "ok"
  \/ AuditFailed(t)

GoesOn(t) ==
  /\ IF t \in Audits THEN AuditGoesOn(t) ELSE LoadGoesOn(t)
  /\ waits[t] < MaxWaits

(* No outcome of a request, no refusal of the migration and no deadline leaves *)
(* the call at the head of the queue without a step of its own.                *)
NeverStuck ==
  queue # <<>> =>
    LET t == Head(queue) IN
      \/ catching # <<>>
      \/ phase[t] \in {"queued", "starting", "resumed"}
      \/ phase[t] = "waiting" /\ t \notin ended /\ Ahead(t) = {}
      \/ phase[t] = "running" /\ GoesOn(t)

(* An append makes at most three accesses, another call at most thirteen.  An   *)
(* access writes, reads or reads back one file, or logs: one host request of    *)
(* the code to write or log, two to four to read (the content and, when that    *)
(* fails, the directory).                                                       *)
FewAccesses == \A t \in Task : waits[t] <= IF t \in Audits THEN 3 ELSE 13

LEMMA Ranks ==
  /\ \A p \in Pcs : Rank(p) \in 0..13
  /\ Rank("start") = 0 /\ Rank("readMarker") = 1 /\ Rank("readLog") = 1
  /\ Rank("readPolicy") = 2 /\ Rank("putLog") = 2 /\ Rank("readAudit") = 3
  /\ Rank("warn") = 3 /\ Rank("readLegacyPolicy") = 4 /\ Rank("readLegacyAudit") = 5
  /\ Rank("putPolicy") = 6 /\ Rank("checkPolicy") = 7 /\ Rank("putAudit") = 8
  /\ Rank("checkAudit") = 9 /\ Rank("putMarker") = 10 /\ Rank("sealMarker") = 10
  /\ Rank("checkMarker") = 11 /\ Rank("checkSeal") = 11 /\ Rank("putSave") = 12
  /\ Rank("checkSave") = 13 /\ Rank("committed") = 13
  BY DEF Rank

(* The migration never goes back to an earlier request.                        *)
LEMMA LoadRises ==
  ASSUME NEW t \in Task, pc[t] \in LoadPcs, LoadNext(t) # "loaded"
  PROVE  LoadNext(t) \in LoadPcs /\ Rank(LoadNext(t)) > Rank(pc[t])
<1>1. LoadNext(t) = NextOfLoad(t)
  BY DEF LoadNext
<1>2. CASE pc[t] \in {"start", "readMarker", "readPolicy", "readAudit"}
  <2>1. \/ pc[t] = "start" /\ LoadNext(t) = "readMarker"
        \/ pc[t] = "readMarker" /\ LoadNext(t) = "readPolicy"
        \/ pc[t] = "readPolicy" /\ LoadNext(t) \in {"readAudit", "putPolicy", "sealMarker"}
        \/ pc[t] = "readAudit"
           /\ LoadNext(t) \in {"readLegacyPolicy", "readLegacyAudit", "putPolicy", "putAudit", "putMarker"}
    BY <1>1, <1>2 DEF NextOfLoad, AfterPolicyRead, AfterAuditRead, AfterLegacyReads, Sealing
  <2>2. QED
    BY <2>1, Ranks DEF LoadPcs
<1>3. CASE pc[t] \in {"readLegacyPolicy", "readLegacyAudit", "putPolicy", "checkPolicy"}
  <2>1. \/ pc[t] = "readLegacyPolicy" /\ LoadNext(t) \in {"readLegacyAudit", "putPolicy"}
        \/ pc[t] = "readLegacyAudit" /\ LoadNext(t) \in {"putPolicy", "putAudit", "putMarker"}
        \/ pc[t] = "putPolicy" /\ LoadNext(t) = "checkPolicy"
        \/ pc[t] = "checkPolicy" /\ LoadNext(t) \in {"sealMarker", "putAudit", "putMarker"}
    BY <1>1, <1>3 DEF NextOfLoad, AfterLegacyReads, Sealing
  <2>2. QED
    BY <2>1, Ranks DEF LoadPcs
<1>4. CASE pc[t] \in {"putAudit", "checkAudit", "putMarker", "checkMarker", "sealMarker", "checkSeal"}
  <2>1. \/ pc[t] = "putAudit" /\ LoadNext(t) = "checkAudit"
        \/ pc[t] = "checkAudit" /\ LoadNext(t) = "putMarker"
        \/ pc[t] = "putMarker" /\ LoadNext(t) = "checkMarker"
        \/ pc[t] = "sealMarker" /\ LoadNext(t) = "checkSeal"
    BY <1>1, <1>4 DEF NextOfLoad
  <2>2. QED
    BY <2>1, Ranks DEF LoadPcs
<1>5. QED
  BY <1>2, <1>3, <1>4 DEF LoadPcs

(* A request later in the order is one more of those that may be made.         *)
LEMMA AskRises ==
  ASSUME TypeOK, ShapeInv, RankInv, NEW t \in Task, NEW p \in Pcs, Ask(t, p),
         Rank(p) > Rank(pc[t])
  PROVE  RankInv'
<1>1. /\ waits' = [waits EXCEPT ![t] = @ + 1] /\ pc' = [pc EXCEPT ![t] = p]
      /\ phase' = phase \/ phase' = [phase EXCEPT ![t] = "starting"]
  <2>1. Wait(t) /\ pc' = [pc EXCEPT ![t] = p]
    BY DEF Ask
  <2>2. waits' = [waits EXCEPT ![t] = @ + 1]
    BY <2>1 DEF Wait
  <2>3. phase' = phase \/ phase' = [phase EXCEPT ![t] = "starting"]
    BY <2>1 DEF Wait
  <2>4. QED
    BY <2>1, <2>2, <2>3
<1>2. Rank(p) \in Nat /\ Rank(pc[t]) \in Nat /\ waits[t] \in Nat /\ waits[t] <= Rank(pc[t])
  <2>1. pc[t] \in Pcs /\ waits[t] \in Nat
    BY DEF ShapeInv, TypeOK
  <2>2. Rank(p) \in 0..13 /\ Rank(pc[t]) \in 0..13
    BY <2>1, Ranks
  <2>3. waits[t] <= Rank(pc[t])
    BY DEF RankInv
  <2>4. QED
    BY <2>1, <2>2, <2>3
<1>3. waits'[t] <= Rank(p) /\ pc'[t] = p
  BY <1>1, <1>2 DEF TypeOK, ShapeInv
<1>4. \A u \in Task \ {t} : waits'[u] = waits[u] /\ pc'[u] = pc[u]
  BY <1>1 DEF TypeOK, ShapeInv
<1>5. \A u \in Task : phase'[u] # "straying"
  BY <1>1 DEF TypeOK, RankInv
<1>6. ASSUME NEW u \in Task
      PROVE  waits'[u] <= Rank(pc'[u])
  BY <1>3, <1>4 DEF RankInv
<1>7. QED
  BY <1>5, <1>6 DEF RankInv, Rank

(* Every other step leaves the requests made alone; a commit is the last.      *)
LEMMA RankKept ==
  ASSUME TypeOK, ShapeInv, RankInv, waits' = waits,
         \A u \in Task : phase'[u] # "straying",
         pc' = pc \/ \E t \in Task : pc' = [pc EXCEPT ![t] = "committed"]
  PROVE  RankInv'
<1>1. ASSUME NEW u \in Task
      PROVE  waits[u] <= Rank(pc'[u])
  <2>1. pc'[u] \in {pc[u], "committed"} /\ pc[u] \in Pcs
    BY DEF ShapeInv
  <2>2. waits[u] \in Nat /\ waits[u] <= Rank(pc[u]) /\ Rank(pc[u]) \in 0..13
    BY <2>1, Ranks DEF RankInv, TypeOK
  <2>3. QED
    BY <2>1, <2>2, Ranks
<1>2. QED
  BY <1>1 DEF RankInv, Rank

LEMMA RankNext ==
  ASSUME IInv, StorageInv, FilesInv, RankInv, [StorageNext]_allVars
  PROVE  RankInv'
<1> USE DEF IInv, StorageInv
<1>1. ASSUME NEW t \in Task, MigrationStep(t)
      PROVE  RankInv'
  <2>1. pc[t] \in LoadPcs /\ LoadNext(t) # "loaded" /\ Ask(t, LoadNext(t))
    BY <1>1 DEF MigrationStep, InLoad
  <2>2. QED
    BY <2>1, LoadRises, AskRises DEF Pcs
<1>2. ASSUME NEW t \in Task, SaveCommitsLoad(t)
      PROVE  RankInv'
  <2>1. Ask(t, "putSave") /\ pc[t] \in LoadPcs
    BY <1>2 DEF SaveCommitsLoad, AtCommit, InLoad
  <2>2. Rank(pc[t]) < 12
    BY <2>1, Ranks DEF LoadPcs
  <2>3. QED
    BY <2>1, <2>2, Ranks, AskRises DEF Pcs, SavePcs
<1>3. ASSUME NEW t \in Task, SaveReadsBack(t)
      PROVE  RankInv'
  <2>1. Ask(t, "checkSave") /\ pc[t] = "putSave"
    BY <1>3 DEF SaveReadsBack
  <2>2. QED
    BY <2>1, Ranks, AskRises DEF Pcs, SavePcs
<1>4. ASSUME NEW t \in Task, AuditReads(t) \/ AuditWrites(t) \/ AuditWarns(t)
      PROVE  RankInv'
  <2>1. \/ pc[t] = "start" /\ Ask(t, "readLog")
        \/ pc[t] = "readLog" /\ Ask(t, "putLog")
        \/ pc[t] \in {"start", "readLog", "putLog"} /\ Ask(t, "warn")
    BY <1>4 DEF AuditReads, AuditWrites, AuditWarns, FilesInv, CallFiles, KindInv, AuditPcs
  <2>2. QED
    BY <2>1, Ranks, AskRises DEF Pcs, AuditPcs
<1>5. ASSUME NEW t \in Task,
             ReloadCommits(t) \/ SaveCommits(t) \/ Enter(t) \/ Complete(t) \/ AuditCompletes(t)
             \/ Send(t) \/ Resumes(t) \/ Call(t) \/ PutLands(t) \/ Reply(t) \/ Deadline(t)
             \/ Timer(t)
      PROVE  RankInv'
  <2>1. waits' = waits /\ (pc' = pc \/ pc' = [pc EXCEPT ![t] = "committed"])
    BY <1>5
    DEF ReloadCommits, SaveCommits, Enter, Begin, Complete, AuditCompletes, Send, StartRequest,
        Resumes, Resume, Call, Run, PutLands, Reply, HostSettles, Deadline, DeadlinePasses,
        Timer, TimerFires, vars, storageVars, localVars
  <2>2. \/ phase' = phase
        \/ \E p \in {"queued", "running", "waiting", "resumed", "done"} :
             phase' = [phase EXCEPT ![t] = p]
    BY <1>5
    DEF ReloadCommits, SaveCommits, Enter, Begin, Complete, AuditCompletes, Settle, Send,
        StartRequest, Resumes, Resume, Call, Run, PutLands, Reply, HostSettles, Deadline,
        DeadlinePasses, Timer, TimerFires, vars
  <2>3. \A u \in Task : phase'[u] # "straying"
    BY <2>2 DEF RankInv, TypeOK
  <2>4. QED
    BY <2>1, <2>3, RankKept
<1>6. CASE Return \/ UNCHANGED allVars
  <2>1. UNCHANGED <<waits, pc, phase>>
    BY <1>6 DEF Return, allVars, vars, storageVars, localVars
  <2>2. QED
    BY <2>1, RankKept DEF RankInv
<1>7. CASE Crash
  <2>1. UNCHANGED <<waits, pc>> /\ \A u \in Task : phase'[u] # "straying"
    BY <1>7 DEF Crash
  <2>2. QED
    BY <2>1, RankKept
<1>8. QED
  BY <1>1, <1>2, <1>3, <1>4, <1>5, <1>6, <1>7 DEF StorageNext, Code

(* Whatever a request came to, the call has a step.                             *)
LEMMA CallGoesOn ==
  ASSUME IInv, StorageInv, FilesInv, NEW t \in Task, phase[t] = "running"
  PROVE  IF t \in Audits THEN AuditGoesOn(t) ELSE LoadGoesOn(t)
<1>1. /\ answer[t] \in Answers /\ (answer[t] = "none" => pc[t] = "start")
      /\ KindInv(t)
  BY DEF IInv, TypeOK, StorageInv, StageInv, FilesInv, CallFiles
<1>2. CASE t \in Audits
  <2>1. pc[t] \in {"start", "readLog", "putLog", "warn"}
    BY <1>1, <1>2 DEF KindInv, AuditPcs
  <2>2. QED
    BY <1>1, <1>2, <2>1 DEF AuditGoesOn, AuditFailed, Answers
<1>3. CASE t \notin Audits
  <2>1. pc[t] \in LoadPcs \cup SavePcs \cup {"committed"}
    BY <1>1, <1>3, StorageAssumption DEF KindInv
  <2>2. CASE pc[t] \in LoadPcs /\ t \notin InvalidSaves
    <3>1. InLoad(t) /\ pc[t] # "committed"
      BY <1>3, <2>2 DEF InLoad, LoadPcs
    <3>2. CASE Answered(t)
      BY <1>3, <3>1, <3>2 DEF LoadGoesOn, AtCommit, Stops
    <3>3. CASE ~Answered(t)
      <4>1. answer[t] \in {"error", "timeout"} \/ MigrationRefuses(t)
        BY <1>1, <3>3 DEF Answered, Answers
      <4>2. Stops(t)
        BY <3>1, <3>3, <4>1 DEF Stops
      <4>3. QED
        BY <1>3, <4>2 DEF LoadGoesOn
    <3>4. QED
      BY <1>3, <3>2, <3>3
  <2>3. CASE pc[t] \in SavePcs
    <3>1. pc[t] \notin LoadPcs /\ pc[t] # "start" /\ pc[t] # "committed"
      BY <2>3 DEF SavePcs, LoadPcs
    <3>2. answer[t] \in {"ok", "error", "timeout"}
      BY <1>1, <3>1 DEF Answers
    <3>3. QED
      BY <1>3, <2>3, <3>1, <3>2 DEF LoadGoesOn, Stops, SavePcs, InLoad
  <2>4. CASE t \in InvalidSaves \/ pc[t] = "committed"
    BY <1>3, <2>4 DEF LoadGoesOn, Stops
  <2>5. QED
    BY <2>1, <2>2, <2>3, <2>4
<1>4. QED
  BY <1>2, <1>3

(* Nobody is ahead of the head of the queue.                                    *)
LEMMA HeadGoesOn ==
  ASSUME IInv, StorageInv, FilesInv, RankInv, MaxWaits >= 14
  PROVE  NeverStuck
<1> SUFFICES ASSUME queue # <<>>
             PROVE  LET t == Head(queue) IN
                      \/ phase[t] \in {"queued", "starting", "resumed"}
                      \/ phase[t] = "waiting" /\ t \notin ended /\ Ahead(t) = {}
                      \/ phase[t] = "running" /\ GoesOn(t)
  BY DEF NeverStuck
<1> DEFINE t == Head(queue)
<1>1. t \in Task /\ queue \in Seq(Task) /\ t = queue[1] /\ 1 \in 1..Len(queue)
  BY DEF IInv, TypeOK
<1>2. phase[t] = "queued" \/ phase[t] \in Active \ {"straying"}
  BY <1>1 DEF IInv, ChainInv, RankInv
<1>3. CASE phase[t] = "waiting"
  <2>1. t \notin ended
    BY <1>1, <1>3 DEF IInv, RequestInv
  <2>2. \A j \in 1..Len(queue) : queue[j] = t => j = 1
    BY <1>1 DEF IInv, ChainInv
  <2>3. Ahead(t) = {}
    BY <1>1, <2>2 DEF Ahead
  <2>4. QED
    BY <1>3, <2>1, <2>3
<1>4. CASE phase[t] = "running"
  <2>1. waits[t] \in Nat /\ waits[t] <= Rank(pc[t]) /\ Rank(pc[t]) \in 0..13 /\ MaxWaits \in Nat
    BY <1>1, Ranks, QueueAssumption DEF IInv, TypeOK, RankInv, StorageInv, ShapeInv
  <2>2. waits[t] < MaxWaits
    BY <2>1
  <2>3. QED
    BY <1>1, <1>4, <2>2, CallGoesOn DEF GoesOn
<1>5. QED
  BY <1>2, <1>3, <1>4 DEF Active

LEMMA RankCorrect == StorageSpec => []RankInv
<1>1. StorageInit => RankInv
  BY Ranks DEF StorageInit, Init, RankInv
<1>2. IInv /\ StorageInv /\ FilesInv /\ RankInv /\ [StorageNext]_allVars => RankInv'
  BY RankNext
<1>3. QED
  BY <1>1, <1>2, FilesCorrect, PTL DEF StorageSpec

(* A call goes through the files in one order and never returns to one: it makes *)
(* at most thirteen accesses, an append three, each of a few host requests. With *)
(* fairness, and as it never gets stuck between two, every call is answered      *)
(* (migration.ts:354-440, policy-storage.ts:46-158, audit.ts:73-100).            *)
THEOREM CallsMakeFewAccesses == StorageSpec => []FewAccesses
<1>1. IInv /\ StorageInv /\ FilesInv /\ RankInv => FewAccesses
  <2> SUFFICES ASSUME IInv, StorageInv, FilesInv, RankInv, NEW t \in Task
               PROVE  waits[t] <= IF t \in Audits THEN 3 ELSE 13
    BY DEF FewAccesses
  <2>1. waits[t] \in Nat /\ waits[t] <= Rank(pc[t]) /\ Rank(pc[t]) \in 0..13
    BY Ranks DEF IInv, TypeOK, RankInv, StorageInv, ShapeInv
  <2>2. t \in Audits => pc[t] \in {"start", "readLog", "putLog", "warn"}
    BY DEF FilesInv, CallFiles, KindInv, AuditPcs
  <2>3. t \in Audits => Rank(pc[t]) <= 3
    BY <2>2, Ranks
  <2>4. QED
    BY <2>1, <2>3
<1>2. QED
  BY <1>1, RankCorrect, FilesCorrect, PTL

(* The head of the queue always has a step of its own, or a timer (policy-sync *)
(* .ts:54-85, policy-storage.ts:46-114, audit.ts:11-40).                       *)
THEOREM StorageNeverStuck ==
  ASSUME MaxWaits >= 14
  PROVE  StorageSpec => []NeverStuck
<1>1. IInv /\ StorageInv /\ FilesInv /\ RankInv => NeverStuck
  BY HeadGoesOn
<1>2. QED
  BY <1>1, RankCorrect, FilesCorrect, PTL
=============================================================================
