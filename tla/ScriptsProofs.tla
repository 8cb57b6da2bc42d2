---------------------------- MODULE ScriptsProofs ----------------------------
(***************************************************************************)
(* What the two scripts report is true, for any number of reads of a poll: *)
(* the smoke test's note has the content its step leaves it with, as long  *)
(* as nobody has given up on a write; and the installer's flags say in     *)
(* which directory the old plugin is, whatever failed so far.              *)
(***************************************************************************)
EXTENDS MCScripts, FiniteSetTheorems, SequenceTheorems, TLAPS

Steps == {Calls[k] : k \in DOMAIN Calls}

(* The note while its lifecycle goes well. *)
Uncreated == {"initialize", "initialized", "tools/list", "get_policy",
              "list_accessible_notebooks", "create_note"}
Unedited == {"visible", "resolve_document", "read_note_segments", "validateOnly", "edit_block"}
Edited == {"edited", "update_note"}
Updated == {"final", "delete_note"}

(* NoteInv: the note is what the last answered call made it, and nothing is    *)
(* under way that nobody waits for.                                            *)
NoteInv ==
  /\ step \notin {"cleanup", "fail"} => lateWrites = {} /\ notices = {}
  /\ step \in Uncreated => note = "none" /\ ~created /\ ~dispatched
  /\ step \in Unedited => note = "created" /\ created /\ "created" \in shown
  /\ step \in Edited => note = "edited" /\ created /\ {"created", "edited"} \subseteq shown
  /\ step \in Updated => note = "updated" /\ created /\ {"created", "edited", "updated"} \subseteq shown
  /\ step = "pass" => note = "deleted" /\ {"created", "edited", "updated"} \subseteq shown

(* LeftoverInv: what may be left behind, or may yet come, is known to the      *)
(* client or told.                                                             *)
LeftoverInv ==
  /\ step = "cleanup" =>
       note # "none" /\ created /\ notices = {} /\ "create_note" \notin lateWrites
  /\ step = "fail" /\ notices = {} =>
       note \in {"none", "deleted"} /\ "create_note" \notin lateWrites
  /\ "artifactPossiblyCreated" \in notices => ~created

SmokeInv == SmokeTypeOK /\ NoteInv /\ LeftoverInv

Installing == {"prepare", "workspace", "disable", "backup", "install", "check", "enable", "smoke", "done"}
Unmoved == {"prepare", "workspace", "disable", "backup"}
HasNew == {"check", "enable", "smoke", "done", "disable_new", "quarantine"}
Ending == {"re_enable", "failed"}

(* FlagInv: which flags a phase finds set.                                     *)
FlagInv ==
  /\ moved => had
  /\ restored => moved
  /\ attempted => had /\ ~skipReload
  /\ installed /\ had => moved
  /\ phase = "disable" => had
  /\ phase \in Unmoved => ~moved /\ ~installed
  /\ phase = "install" => ~installed /\ (had => moved)
  /\ phase \in HasNew => installed
  /\ phase = "restore" => moved
  /\ phase \notin Ending \cup {"killed"} => ~restored
  /\ phase \in {"workspace", "disable", "enable", "smoke"} => ~skipReload

(* PlaceInv: the flags say where the old plugin is; the new one is where it was *)
(* installed until it is quarantined or an error tells that it is not.          *)
PlaceInv ==
  /\ place["staging"] # "old" /\ place["failedPath"] # "old"
  /\ place["backup"] = IF moved /\ ~restored THEN "old" ELSE "none"
  /\ place["target"] = "old" <=> had /\ (~moved \/ restored)
  /\ place["target"] = "new" => installed
  /\ phase \in {"workspace", "disable", "backup", "install"} => place["staging"] = "new"
  /\ phase \in HasNew => place["target"] = "new"
  /\ phase = "restore" /\ ~errors => place["target"] # "new"
  /\ phase \in Ending /\ ~errors => place["target"] # "new" /\ (moved => restored)

(* EnabledInv: whether SiYuan has the plugin enabled, unless a call that had   *)
(* failed was carried out later or an error tells of it.                       *)
EnabledInv ==
  /\ before => had
  /\ phase \in Installing => late = {} /\ ~strayed /\ ~errors
  /\ phase \in {"prepare", "workspace", "disable"} => ~attempted
  /\ phase \in {"backup", "install", "restore"} \cup HasNew /\ had /\ ~skipReload => attempted
  /\ skipReload => enabled = before /\ late = {}
  /\ phase \in Installing \ {"smoke", "done"} /\ ~attempted => enabled = before
  /\ phase \in {"quarantine", "restore", "re_enable", "failed"} /\ ~attempted /\ ~errors =>
       enabled = before \/ strayed
  /\ phase = "done" /\ ~skipReload => enabled
  /\ phase = "failed" /\ attempted /\ ~errors => enabled \/ strayed
-----------------------------------------------------------------------------
(* The smoke test. *)

(* The calls, in their order. *)
LEMMA CallOrder ==
  /\ Calls = <<"initialize", "initialized", "tools/list", "get_policy", "list_accessible_notebooks",
               "create_note", "visible", "resolve_document", "read_note_segments",
               "validateOnly", "edit_block", "edited", "update_note", "final", "delete_note">>
  /\ Steps = Uncreated \cup Unedited \cup Edited \cup Updated
<1> DEFINE CallNames == Uncreated \cup Unedited \cup Edited \cup Updated
<1>1. Calls = <<"initialize", "initialized", "tools/list", "get_policy", "list_accessible_notebooks",
               "create_note", "visible", "resolve_document", "read_note_segments",
               "validateOnly", "edit_block", "edited", "update_note", "final", "delete_note">>
  <2>1. /\ Preflight \in Seq(CallNames) /\ Len(Preflight) = 5
        /\ Lifecycle \in Seq(CallNames) /\ Len(Lifecycle) = 10
    <3>1. Preflight \in Seq(CallNames)
      BY DEF Preflight, Uncreated
    <3>2. Len(Preflight) = 5
      BY DEF Preflight
    <3>3. Lifecycle \in Seq(CallNames)
      BY DEF Lifecycle, Uncreated, Unedited, Edited, Updated
    <3>4. Len(Lifecycle) = 10
      BY DEF Lifecycle
    <3>5. QED
      BY <3>1, <3>2, <3>3, <3>4
  <2>2. /\ Calls \in Seq(CallNames) /\ Len(Calls) = 15
        /\ \A i \in 1..5 : Calls[i] = Preflight[i]
        /\ \A i \in 1..10 : Calls[5 + i] = Lifecycle[i]
    <3> HIDE DEF CallNames
    <3>1. /\ Calls \in Seq(CallNames) /\ Len(Calls) = 15
          /\ \A i \in 1..15 : Calls[i] = IF i <= 5 THEN Preflight[i] ELSE Lifecycle[i - 5]
      <4>1. /\ Calls \in Seq(CallNames)
            /\ Len(Calls) = Len(Preflight) + Len(Lifecycle)
            /\ \A i \in 1..Len(Preflight) + Len(Lifecycle) :
                 Calls[i] = IF i <= Len(Preflight) THEN Preflight[i] ELSE Lifecycle[i - Len(Preflight)]
        BY <2>1, ConcatProperties, Zenon DEF Calls
      <4>2. QED
        BY <2>1, <4>1
    <3>2. QED
      BY <3>1
  <2>3. /\ Calls[1] = "initialize" /\ Calls[2] = "initialized" /\ Calls[3] = "tools/list"
        /\ Calls[4] = "get_policy" /\ Calls[5] = "list_accessible_notebooks"
    BY <2>2 DEF Preflight
  <2>4. /\ Calls[5 + 1] = "create_note" /\ Calls[5 + 2] = "visible"
        /\ Calls[5 + 3] = "resolve_document" /\ Calls[5 + 4] = "read_note_segments"
        /\ Calls[5 + 5] = "validateOnly" /\ Calls[5 + 6] = "edit_block"
        /\ Calls[5 + 7] = "edited" /\ Calls[5 + 8] = "update_note"
        /\ Calls[5 + 9] = "final" /\ Calls[5 + 10] = "delete_note"
    BY <2>2 DEF Lifecycle
  <2>5. QED
    BY <2>2, <2>3, <2>4
<1>2. DOMAIN Calls = 1..15
  BY <1>1
<1>3. ASSUME NEW k \in 1..15
      PROVE  Calls[k] \in Uncreated \cup Unedited \cup Edited \cup Updated
  BY <1>1 DEF Uncreated, Unedited, Edited, Updated
<1>4. ASSUME NEW s \in Uncreated \cup Unedited \cup Edited \cup Updated
      PROVE  \E k \in 1..15 : Calls[k] = s
  <2>1. CASE s \in Uncreated
    <3>1. \E k \in 1..6 : Calls[k] = s
      BY <1>1, <2>1 DEF Uncreated
    <3>2. QED
      BY <3>1
  <2>2. CASE s \in Unedited
    <3>1. \E k \in 7..11 : Calls[k] = s
      BY <1>1, <2>2 DEF Unedited
    <3>2. QED
      BY <3>1
  <2>3. CASE s \in Edited \cup Updated
    <3>1. \E k \in 12..15 : Calls[k] = s
      BY <1>1, <2>3 DEF Edited, Updated
    <3>2. QED
      BY <3>1
  <2>4. QED
    BY <1>4, <2>1, <2>2, <2>3
<1>5. Steps = Uncreated \cup Unedited \cup Edited \cup Updated
  BY <1>2, <1>3, <1>4 DEF Steps
<1>6. QED
  BY <1>1, <1>5

(* What follows each call. *)
LEMMA FollowsOrder ==
  ASSUME NEW k \in 1..15
  PROVE  Follows(Calls[k]) = IF k = 15 THEN "pass" ELSE Calls[k + 1]
<1>1. DOMAIN Calls = 1..15 /\ Len(Calls) = 15
  BY CallOrder
<1>2. \A j \in 1..15 : Calls[j] = Calls[k] => j = k
  BY CallOrder
<1>3. (CHOOSE j \in DOMAIN Calls : Calls[j] = Calls[k]) = k
  BY <1>1, <1>2
<1>4. QED
  BY <1>1, <1>3 DEF Follows
(* The order, as far as the note is concerned. *)
LEMMA NextStage ==
  ASSUME NEW call \in Steps
  PROVE  /\ call \in Uncreated \ {"create_note"} => Follows(call) \in Uncreated
         /\ call = "create_note" => Follows(call) = "visible"
         /\ call \in Unedited \ {"edit_block"} => Follows(call) \in Unedited
         /\ call = "edit_block" => Follows(call) = "edited"
         /\ call = "edited" => Follows(call) = "update_note"
         /\ call = "update_note" => Follows(call) = "final"
         /\ call = "final" => Follows(call) = "delete_note"
         /\ call = "delete_note" => Follows(call) = "pass"
<1>1. PICK k \in 1..15 : call = Calls[k]
  BY CallOrder DEF Steps
<1>2. Follows(call) = IF k = 15 THEN "pass" ELSE Calls[k + 1]
  BY <1>1, FollowsOrder
<1>3. CASE k <= 6
  <2>1. k \in 1..6
    BY <1>3
  <2>2. QED
    BY <1>1, <1>2, <2>1, CallOrder DEF Uncreated, Unedited
<1>4. CASE k > 6 /\ k <= 11
  <2>1. k \in 7..11
    BY <1>4
  <2>2. QED
    BY <1>1, <1>2, <2>1, CallOrder DEF Uncreated, Unedited
<1>5. CASE k > 11
  <2>1. k \in 12..15
    BY <1>5
  <2>2. QED
    BY <1>1, <1>2, <2>1, CallOrder DEF Uncreated, Unedited
<1>6. QED
  BY <1>3, <1>4, <1>5

(* The initial state. *)
LEMMA SmokeInitInv == SmokeInit => SmokeInv
<1> SUFFICES ASSUME SmokeInit
             PROVE  SmokeInv
  OBVIOUS
<1>1. step = "initialize" /\ "initialize" \in Steps
  BY CallOrder DEF SmokeInit, Uncreated
<1>2. SmokeTypeOK
  <2>1. step \in {Calls[k] : k \in DOMAIN Calls}
    BY <1>1 DEF Steps
  <2>2. 0 \in 0..(MaxReads - 1)
    BY SmokeAssumption
  <2>3. QED
    BY <1>1, <2>1, <2>2 DEF SmokeInit, SmokeTypeOK, Contents
<1>3. NoteInv /\ LeftoverInv
  BY <1>1 DEF SmokeInit, NoteInv, LeftoverInv, Uncreated, Unedited, Edited, Updated
<1>4. QED
  BY <1>2, <1>3 DEF SmokeInv

(* What a write makes of the note. *)
LEMMA ResultType ==
  ASSUME SmokeTypeOK, NEW w \in Writes
  PROVE  /\ Result(w) \in Contents
         /\ note # "none" => Result(w) # "none"
         /\ note = "none" /\ w # "create_note" => Result(w) = "none"
         /\ note = "deleted" /\ w # "create_note" => Result(w) = "deleted"
  BY DEF Result, SmokeTypeOK, Contents, Writes

(* A write that takes effect, one that is taken for a failure: the types.      *)
LEMMA LandsType ==
  ASSUME SmokeTypeOK, NEW w \in Writes, Lands(w)
  PROVE  note' \in Contents /\ shown' \in SUBSET Contents
  BY ResultType DEF Lands, SmokeTypeOK

LEMMA FailingWriteType ==
  ASSUME SmokeTypeOK, NEW w \in Writes, FailingWrite(w)
  PROVE  /\ note' \in Contents /\ shown' \in SUBSET Contents
         /\ lateWrites' \in SUBSET Writes /\ lateWrites' \subseteq lateWrites \cup {w}
         /\ note' \in {note, Result(w)}
  BY LandsType DEF FailingWrite, Lands, SmokeTypeOK

(* A call that is answered as expected: the lifecycle goes on.                  *)
LEMMA Advances ==
  ASSUME SmokeInv, NEW call \in Steps, step = call, Advance(call),
         lateWrites' = lateWrites, note' \in Contents, shown' \in SUBSET Contents,
         IF call \in Writes THEN Lands(call) /\ note' # note ELSE UNCHANGED <<note, shown>>
  PROVE  SmokeInv'
<1> USE DEF SmokeInv
<1> DEFINE next == Follows(call)
<1>1. /\ step' = next /\ reads' = 0 /\ created' = (created \/ call = "create_note")
      /\ dispatched' = (dispatched \/ call = "create_note") /\ notices' = notices
      /\ lateWrites = {} /\ notices = {}
  BY CallOrder DEF Advance, MarkDispatched, NoteInv, Uncreated, Unedited, Edited, Updated
<1>2. next \in Steps \cup {"pass"}
  BY NextStage, CallOrder DEF Uncreated, Unedited, Edited, Updated
<1>3. SmokeTypeOK'
  BY <1>1, <1>2, SmokeAssumption DEF SmokeTypeOK, Steps
<1>4. LeftoverInv'
  BY <1>1, <1>2, CallOrder DEF LeftoverInv, Uncreated, Unedited, Edited, Updated
<1>5. NoteInv'
  <2>1. CASE call \in Uncreated \ {"create_note"}
    <3>1. next \in Uncreated /\ UNCHANGED <<note, shown>>
      BY <2>1, NextStage DEF Uncreated, Writes
    <3>2. QED
      BY <1>1, <2>1, <3>1 DEF NoteInv, Uncreated, Unedited, Edited, Updated
  <2>2. CASE call = "create_note"
    <3>1. next = "visible" /\ note' = "created" /\ "created" \in shown'
      BY <2>2, NextStage DEF Writes, Lands, Result
    <3>2. QED
      BY <1>1, <2>2, <3>1 DEF NoteInv, Uncreated, Unedited, Edited, Updated
  <2>3. CASE call \in Unedited \ {"edit_block"}
    <3>1. next \in Unedited /\ UNCHANGED <<note, shown>>
      BY <2>3, NextStage DEF Unedited, Writes
    <3>2. QED
      BY <1>1, <2>3, <3>1 DEF NoteInv, Uncreated, Unedited, Edited, Updated
  <2>4. CASE call = "edit_block"
    <3>1. next = "edited" /\ note = "created" /\ "created" \in shown /\ created
      BY <2>4, NextStage DEF NoteInv, Unedited
    <3>2. note' = "edited" /\ {"created", "edited"} \subseteq shown'
      BY <2>4, <3>1 DEF Writes, Lands, Result
    <3>3. QED
      BY <1>1, <2>4, <3>1, <3>2 DEF NoteInv, Uncreated, Unedited, Edited, Updated
  <2>5. CASE call = "edited"
    <3>1. next = "update_note" /\ UNCHANGED <<note, shown>>
      BY <2>5, NextStage DEF Writes
    <3>2. QED
      BY <1>1, <2>5, <3>1 DEF NoteInv, Uncreated, Unedited, Edited, Updated
  <2>6. CASE call = "update_note"
    <3>1. next = "final" /\ note = "edited" /\ {"created", "edited"} \subseteq shown /\ created
      BY <2>6, NextStage DEF NoteInv, Edited
    <3>2. note' = "updated" /\ {"created", "edited", "updated"} \subseteq shown'
      BY <2>6, <3>1 DEF Writes, Lands, Result
    <3>3. QED
      BY <1>1, <2>6, <3>1, <3>2 DEF NoteInv, Uncreated, Unedited, Edited, Updated
  <2>7. CASE call = "final"
    <3>1. next = "delete_note" /\ UNCHANGED <<note, shown>>
      BY <2>7, NextStage DEF Writes
    <3>2. QED
      BY <1>1, <2>7, <3>1 DEF NoteInv, Uncreated, Unedited, Edited, Updated
  <2>8. CASE call = "delete_note"
    <3>1. next = "pass" /\ note = "updated" /\ {"created", "edited", "updated"} \subseteq shown
      BY <2>8, NextStage DEF NoteInv, Updated
    <3>2. note' = "deleted" /\ {"created", "edited", "updated"} \subseteq shown'
      BY <2>8, <3>1 DEF Writes, Lands, Result
    <3>3. QED
      BY <1>1, <2>8, <3>1, <3>2 DEF NoteInv, Uncreated, Unedited, Edited, Updated
  <2>9. QED
    BY <2>1, <2>2, <2>3, <2>4, <2>5, <2>6, <2>7, <2>8, CallOrder
    DEF Uncreated, Unedited, Edited, Updated
<1>6. QED
  BY <1>3, <1>4, <1>5

(* A call that fails: it is cleaned up after, or nothing is left, or it is told. *)
LEMMA Fails ==
  ASSUME SmokeInv, NEW call \in Steps, step = call, NEW idKnown \in BOOLEAN,
         Fail(call, idKnown),
         IF call \in Writes
         THEN \/ FailingWrite(call) /\ idKnown = created
              \/ call = "create_note" /\ Lands(call) /\ UNCHANGED lateWrites
         ELSE UNCHANGED <<note, shown, lateWrites>> /\ idKnown = created
  PROVE  SmokeInv'
<1> USE DEF SmokeInv
<1>1. /\ created' = idKnown /\ step' = IF idKnown THEN "cleanup" ELSE "fail"
      /\ dispatched' = (dispatched \/ call = "create_note") /\ reads' = reads
      /\ notices' = IF dispatched' /\ ~idKnown THEN notices \cup {"artifactPossiblyCreated"} ELSE notices
      /\ lateWrites = {} /\ notices = {}
  BY CallOrder DEF Fail, MarkDispatched, NoteInv, Uncreated, Unedited, Edited, Updated
<1>2. /\ note' \in Contents /\ shown' \in SUBSET Contents
      /\ lateWrites' \in SUBSET Writes /\ lateWrites' \subseteq {call}
  BY <1>1, LandsType, FailingWriteType DEF SmokeTypeOK
<1>3. SmokeTypeOK'
  BY <1>1, <1>2 DEF SmokeTypeOK
<1>4. NoteInv'
  BY <1>1 DEF NoteInv, Uncreated, Unedited, Edited, Updated
<1>5. created => note \notin {"none"} /\ call # "create_note"
  BY CallOrder DEF NoteInv, Uncreated, Unedited, Edited, Updated
<1>6. ~created => call \in Uncreated /\ note = "none"
  BY CallOrder DEF NoteInv, Uncreated, Unedited, Edited, Updated
<1>7. step' = "cleanup" =>
        note' # "none" /\ created' /\ notices' = {} /\ "create_note" \notin lateWrites'
  <2>1. CASE created /\ idKnown = created
    <3>1. note' # "none"
      BY <1>5, <2>1, FailingWriteType, ResultType
    <3>2. QED
      BY <1>1, <1>2, <1>5, <2>1, <3>1
  <2>2. CASE call = "create_note" /\ Lands(call) /\ UNCHANGED lateWrites
    BY <1>1, <2>2 DEF Lands, Result
  <2>3. QED
    BY <1>1, <2>1, <2>2 DEF SmokeTypeOK
<1>8. step' = "fail" /\ notices' = {} =>
        note' \in {"none", "deleted"} /\ "create_note" \notin lateWrites'
  <2>1. SUFFICES ASSUME step' = "fail", notices' = {}
                 PROVE  note' \in {"none", "deleted"} /\ "create_note" \notin lateWrites'
    OBVIOUS
  <2>2. ~idKnown /\ ~dispatched' /\ call # "create_note"
    BY <1>1, <2>1
  <2>3. ~created /\ call \notin Writes
    BY <1>5, <1>6, <2>2 DEF Writes, Uncreated
  <2>4. QED
    BY <1>1, <1>6, <2>3
<1>9. "artifactPossiblyCreated" \in notices' => ~created'
  BY <1>1
<1>10. QED
  BY <1>3, <1>4, <1>7, <1>8, <1>9 DEF LeftoverInv

(* A poll is asked again. *)
LEMMA PollsAgain ==
  ASSUME SmokeInv, reads + 1 < MaxReads, reads' = reads + 1,
         UNCHANGED <<step, created, dispatched, notices, note, shown, lateWrites>>
  PROVE  SmokeInv'
  BY SmokeAssumption DEF SmokeInv, SmokeTypeOK, NoteInv, LeftoverInv

(* The client's calls. *)
LEMMA ClientInv ==
  ASSUME SmokeInv, NEW call \in Steps,
         Ask(call) \/ Poll(call) \/ Write(call) \/ WriteFails(call)
  PROVE  SmokeInv'
<1>1. /\ step = call /\ Writes \cap Polls = {} /\ created \in BOOLEAN
      /\ note \in Contents /\ shown \in SUBSET Contents
  BY DEF Ask, Poll, Write, WriteFails, Writes, Polls, SmokeInv, SmokeTypeOK
<1>2. CASE Ask(call) \/ Poll(call)
  <2>1. call \notin Writes /\ UNCHANGED <<note, shown, lateWrites>>
    BY <1>1, <1>2 DEF Ask, Poll
  <2>2. CASE Advance(call)
    BY <1>1, <2>1, <2>2, Advances
  <2>3. CASE Fail(call, created)
    BY <1>1, <2>1, <2>3, Fails
  <2>4. QED
    BY <1>2, <2>1, <2>2, <2>3, PollsAgain DEF Ask, Poll
<1>3. CASE Write(call)
  <2>1. call \in Writes /\ Lands(call) /\ Advance(call) /\ lateWrites' = lateWrites /\ note' # note
    BY <1>3 DEF Write, Lands
  <2>2. note' \in Contents /\ shown' \in SUBSET Contents
    BY <2>1, LandsType DEF SmokeInv
  <2>3. QED
    BY <1>1, <2>1, <2>2, Advances
<1>4. CASE WriteFails(call)
  <2>1. CASE FailingWrite(call) /\ Fail(call, created)
    BY <1>1, <1>4, <2>1, Fails DEF WriteFails
  <2>2. CASE call = "create_note" /\ Lands(call) /\ UNCHANGED lateWrites /\ Fail(call, TRUE)
    BY <1>1, <1>4, <2>2, Fails DEF WriteFails
  <2>3. QED
    BY <1>4, <2>1, <2>2 DEF WriteFails
<1>5. QED
  BY <1>2, <1>3, <1>4

(* One delete, after which a note that may be left is told.                    *)
LEMMA CleanupInv ==
  ASSUME SmokeInv, Cleanup
  PROVE  SmokeInv'
<1> USE DEF SmokeInv
<1>1. /\ step = "cleanup" /\ step' = "fail" /\ UNCHANGED <<reads, created, dispatched>>
      /\ note # "none" /\ created /\ notices = {} /\ "create_note" \notin lateWrites
      /\ "delete_note" \in Writes
  BY DEF Cleanup, LeftoverInv, Writes
<1>2. CASE note # "deleted" /\ Lands("delete_note") /\ UNCHANGED <<notices, lateWrites>>
  <2>1. note' = "deleted"
    BY <1>1, <1>2 DEF Lands, Result
  <2>2. shown' \in SUBSET Contents /\ note' \in Contents
    BY <1>1, <1>2, LandsType
  <2>3. QED
    BY <1>1, <1>2, <2>1, <2>2 DEF SmokeTypeOK, NoteInv, LeftoverInv, Uncreated, Unedited, Edited, Updated
<1>3. CASE FailingWrite("delete_note") /\ notices' = notices \cup {"documentId"}
  <2>1. /\ note' \in Contents /\ shown' \in SUBSET Contents
        /\ lateWrites' \in SUBSET Writes
    BY <1>1, <1>3, FailingWriteType
  <2>2. QED
    BY <1>1, <1>3, <2>1 DEF SmokeTypeOK, NoteInv, LeftoverInv, Uncreated, Unedited, Edited, Updated
<1>4. QED
  BY <1>2, <1>3 DEF Cleanup

(* A write nobody waits for: there is one only after a failure, and then a note *)
(* that is not told of stays as it is.                                          *)
LEMMA LateWriteInv ==
  ASSUME SmokeInv, NEW w \in Writes, WriteLands(w)
  PROVE  SmokeInv'
<1> USE DEF SmokeInv
<1>1. /\ w \in lateWrites /\ lateWrites' = lateWrites \ {w}
      /\ UNCHANGED <<step, reads, created, dispatched, notices>>
      /\ note' \in {note, Result(w)}
  BY DEF WriteLands, clientVars, Lands
<1>2. note' \in Contents /\ shown' \in SUBSET Contents
  BY LandsType DEF WriteLands, SmokeTypeOK
<1>3. step \in {"cleanup", "fail"}
  BY <1>1 DEF NoteInv
<1>4. SmokeTypeOK'
  BY <1>1, <1>2, <1>3 DEF SmokeTypeOK
<1>5. NoteInv'
  BY <1>1, <1>3 DEF NoteInv, Uncreated, Unedited, Edited, Updated
<1>6. LeftoverInv'
  BY <1>1, <1>3, ResultType DEF LeftoverInv
<1>7. QED
  BY <1>4, <1>5, <1>6

LEMMA SmokeNextInv ==
  ASSUME SmokeInv, [SmokeNext]_smokeVars
  PROVE  SmokeInv'
<1>1. CASE UNCHANGED smokeVars
  BY <1>1 DEF smokeVars, clientVars, SmokeInv, SmokeTypeOK, NoteInv, LeftoverInv
<1>2. CASE SmokeNext
  BY <1>2, ClientInv, CleanupInv, LateWriteInv DEF SmokeNext, Steps
<1>3. QED
  BY <1>1, <1>2

(* The smoke test's report is true (mcp-write-smoke.mjs:868-873, 1221-1258 and *)
(* 1497-1509), for any number of reads of a poll and any failure of any call.  *)
THEOREM SmokeTestReportsTrue == SmokeSpec => [](SmokeTypeOK /\ SmokeReportsTrue)
<1>1. SmokeInv => SmokeTypeOK /\ SmokeReportsTrue
  BY DEF SmokeInv, SmokeTypeOK, NoteInv, LeftoverInv, SmokeReportsTrue, Contents
<1>2. SmokeInv /\ [SmokeNext]_smokeVars => SmokeInv'
  BY SmokeNextInv
<1>3. QED
  BY <1>1, <1>2, SmokeInitInv, PTL DEF SmokeSpec
-----------------------------------------------------------------------------
(* The installer. *)

(* The old plugin is in one place when the flags say where it is.              *)
LEMMA OnePlace ==
  ASSUME FlagInv, PlaceInv, had \in BOOLEAN, place \in [Places -> {"none", "old", "new"}]
  PROVE  Cardinality({d \in Places : place[d] = "old"}) = IF had THEN 1 ELSE 0
<1>1. CASE had /\ moved /\ ~restored
  <2>1. {d \in Places : place[d] = "old"} = {"backup"}
    BY <1>1 DEF PlaceInv, Places
  <2>2. QED
    BY <1>1, <2>1, FS_Singleton
<1>2. CASE had /\ (~moved \/ restored)
  <2>1. {d \in Places : place[d] = "old"} = {"target"}
    BY <1>2 DEF PlaceInv, Places
  <2>2. QED
    BY <1>2, <2>1, FS_Singleton
<1>3. CASE ~had
  <2>1. {d \in Places : place[d] = "old"} = {}
    BY <1>3 DEF PlaceInv, FlagInv, Places
  <2>2. QED
    BY <1>3, <2>1, FS_EmptySet
<1>4. QED
  BY <1>1, <1>2, <1>3

(* InstallTypeOK but for the one place, which follows. *)
InstallTypes ==
  /\ phase \in Phases
  /\ had \in BOOLEAN /\ skipReload \in BOOLEAN /\ attempted \in BOOLEAN /\ moved \in BOOLEAN
  /\ installed \in BOOLEAN /\ restored \in BOOLEAN /\ errors \in BOOLEAN
  /\ enabled \in BOOLEAN /\ before \in BOOLEAN /\ strayed \in BOOLEAN
  /\ place \in [Places -> {"none", "old", "new"}]
  /\ late \subseteq BOOLEAN

InstallInv == InstallTypes /\ FlagInv /\ PlaceInv /\ EnabledInv

LEMMA InstallInitInv == InstallInit => InstallInv
<1> SUFFICES ASSUME InstallInit
             PROVE  InstallInv
  OBVIOUS
<1>1. InstallTypes
  BY DEF InstallInit, InstallTypes, Phases, Places
<1>2. FlagInv
  BY DEF InstallInit, FlagInv, Unmoved, HasNew, Ending
<1>3. EnabledInv
  <2>1. before => had
    BY DEF InstallInit
  <2>2. QED
    BY <2>1 DEF InstallInit, EnabledInv, Installing, HasNew, Ending
<1>4. PlaceInv
  BY DEF InstallInit, PlaceInv, Places, HasNew, Ending
<1>5. QED
  BY <1>1, <1>2, <1>3, <1>4 DEF InstallInv

(* The steps that put the new plugin in place. *)
LEMMA InstallingInv ==
  ASSUME InstallInv,
         Prepare \/ MatchWorkspace \/ Disable \/ Backup \/ Install \/ Check \/ Enable \/ Smoke
  PROVE  InstallInv'
<1> USE DEF InstallInv
<1>1. CASE Prepare
  <2>1. InstallTypes'
    BY <1>1 DEF Prepare, Moves, Sets, FailsToSet, Throws, Caught, flags, histories, InstallTypes, Phases, Places, FlagInv, PlaceInv
  <2>2. FlagInv'
    BY <1>1 DEF Prepare, Moves, Sets, FailsToSet, Throws, Caught, flags, histories, InstallTypes, FlagInv, Unmoved, HasNew, Ending
  <2>3. PlaceInv'
    BY <1>1 DEF Prepare, Moves, Sets, FailsToSet, Throws, Caught, flags, histories, InstallTypes, Places, FlagInv, PlaceInv, Unmoved, HasNew, Ending
  <2>4. EnabledInv'
    BY <1>1 DEF Prepare, Moves, Sets, FailsToSet, Throws, Caught, flags, histories, InstallTypes, FlagInv, EnabledInv, Installing, Unmoved, HasNew, Ending
  <2>5. QED
    BY <2>1, <2>2, <2>3, <2>4
<1>2. CASE MatchWorkspace
  <2>1. InstallTypes'
    BY <1>2 DEF MatchWorkspace, Moves, Sets, FailsToSet, Throws, Caught, flags, histories, InstallTypes, Phases, Places, FlagInv, PlaceInv
  <2>2. FlagInv'
    BY <1>2 DEF MatchWorkspace, Moves, Sets, FailsToSet, Throws, Caught, flags, histories, InstallTypes, FlagInv, Unmoved, HasNew, Ending
  <2>3. PlaceInv'
    BY <1>2 DEF MatchWorkspace, Moves, Sets, FailsToSet, Throws, Caught, flags, histories, InstallTypes, Places, FlagInv, PlaceInv, Unmoved, HasNew, Ending
  <2>4. EnabledInv'
    BY <1>2 DEF MatchWorkspace, Moves, Sets, FailsToSet, Throws, Caught, flags, histories, InstallTypes, FlagInv, EnabledInv, Installing, Unmoved, HasNew, Ending
  <2>5. QED
    BY <2>1, <2>2, <2>3, <2>4
<1>3. CASE Disable
  <2>1. InstallTypes'
    BY <1>3 DEF Disable, Moves, Sets, FailsToSet, Throws, Caught, flags, histories, InstallTypes, Phases, Places, FlagInv, PlaceInv
  <2>2. FlagInv'
    BY <1>3 DEF Disable, Moves, Sets, FailsToSet, Throws, Caught, flags, histories, InstallTypes, FlagInv, Unmoved, HasNew, Ending
  <2>3. PlaceInv'
    BY <1>3 DEF Disable, Moves, Sets, FailsToSet, Throws, Caught, flags, histories, InstallTypes, Places, FlagInv, PlaceInv, Unmoved, HasNew, Ending
  <2>4. EnabledInv'
    BY <1>3 DEF Disable, Moves, Sets, FailsToSet, Throws, Caught, flags, histories, InstallTypes, FlagInv, EnabledInv, Installing, Unmoved, HasNew, Ending
  <2>5. QED
    BY <2>1, <2>2, <2>3, <2>4
<1>4. CASE Backup
  <2>1. InstallTypes'
    BY <1>4 DEF Backup, Moves, Sets, FailsToSet, Throws, Caught, flags, histories, InstallTypes, Phases, Places, FlagInv, PlaceInv
  <2>2. FlagInv'
    BY <1>4 DEF Backup, Moves, Sets, FailsToSet, Throws, Caught, flags, histories, InstallTypes, FlagInv, Unmoved, HasNew, Ending
  <2>3. PlaceInv'
    BY <1>4 DEF Backup, Moves, Sets, FailsToSet, Throws, Caught, flags, histories, InstallTypes, Places, FlagInv, PlaceInv, Unmoved, HasNew, Ending
  <2>4. EnabledInv'
    BY <1>4 DEF Backup, Moves, Sets, FailsToSet, Throws, Caught, flags, histories, InstallTypes, FlagInv, EnabledInv, Installing, Unmoved, HasNew, Ending
  <2>5. QED
    BY <2>1, <2>2, <2>3, <2>4
<1>5. CASE Install
  <2>1. InstallTypes'
    BY <1>5 DEF Install, Moves, Sets, FailsToSet, Throws, Caught, flags, histories, InstallTypes, Phases, Places, FlagInv, PlaceInv
  <2>2. FlagInv'
    BY <1>5 DEF Install, Moves, Sets, FailsToSet, Throws, Caught, flags, histories, InstallTypes, FlagInv, Unmoved, HasNew, Ending
  <2>3. PlaceInv'
    BY <1>5 DEF Install, Moves, Sets, FailsToSet, Throws, Caught, flags, histories, InstallTypes, Places, FlagInv, PlaceInv, Unmoved, HasNew, Ending
  <2>4. EnabledInv'
    BY <1>5 DEF Install, Moves, Sets, FailsToSet, Throws, Caught, flags, histories, InstallTypes, FlagInv, EnabledInv, Installing, Unmoved, HasNew, Ending
  <2>5. QED
    BY <2>1, <2>2, <2>3, <2>4
<1>6. CASE Check
  <2>1. InstallTypes'
    BY <1>6 DEF Check, Moves, Sets, FailsToSet, Throws, Caught, flags, histories, InstallTypes, Phases, Places, FlagInv, PlaceInv
  <2>2. FlagInv'
    BY <1>6 DEF Check, Moves, Sets, FailsToSet, Throws, Caught, flags, histories, InstallTypes, FlagInv, Unmoved, HasNew, Ending
  <2>3. PlaceInv'
    BY <1>6 DEF Check, Moves, Sets, FailsToSet, Throws, Caught, flags, histories, InstallTypes, Places, FlagInv, PlaceInv, Unmoved, HasNew, Ending
  <2>4. EnabledInv'
    BY <1>6 DEF Check, Moves, Sets, FailsToSet, Throws, Caught, flags, histories, InstallTypes, FlagInv, EnabledInv, Installing, Unmoved, HasNew, Ending
  <2>5. QED
    BY <2>1, <2>2, <2>3, <2>4
<1>7. CASE Enable
  <2>1. InstallTypes'
    BY <1>7 DEF Enable, Moves, Sets, FailsToSet, Throws, Caught, flags, histories, InstallTypes, Phases, Places, FlagInv, PlaceInv
  <2>2. FlagInv'
    BY <1>7 DEF Enable, Moves, Sets, FailsToSet, Throws, Caught, flags, histories, InstallTypes, FlagInv, Unmoved, HasNew, Ending
  <2>3. PlaceInv'
    BY <1>7 DEF Enable, Moves, Sets, FailsToSet, Throws, Caught, flags, histories, InstallTypes, Places, FlagInv, PlaceInv, Unmoved, HasNew, Ending
  <2>4. EnabledInv'
    BY <1>7 DEF Enable, Moves, Sets, FailsToSet, Throws, Caught, flags, histories, InstallTypes, FlagInv, EnabledInv, Installing, Unmoved, HasNew, Ending
  <2>5. QED
    BY <2>1, <2>2, <2>3, <2>4
<1>8. CASE Smoke
  <2>1. InstallTypes'
    BY <1>8 DEF Smoke, Moves, Sets, FailsToSet, Throws, Caught, flags, histories, InstallTypes, Phases, Places, FlagInv, PlaceInv
  <2>2. FlagInv'
    BY <1>8 DEF Smoke, Moves, Sets, FailsToSet, Throws, Caught, flags, histories, InstallTypes, FlagInv, Unmoved, HasNew, Ending
  <2>3. PlaceInv'
    BY <1>8 DEF Smoke, Moves, Sets, FailsToSet, Throws, Caught, flags, histories, InstallTypes, Places, FlagInv, PlaceInv, Unmoved, HasNew, Ending
  <2>4. EnabledInv'
    BY <1>8 DEF Smoke, Moves, Sets, FailsToSet, Throws, Caught, flags, histories, InstallTypes, FlagInv, EnabledInv, Installing, Unmoved, HasNew, Ending
  <2>5. QED
    BY <2>1, <2>2, <2>3, <2>4
<1>9. QED
  BY <1>1, <1>2, <1>3, <1>4, <1>5, <1>6, <1>7, <1>8
(* The steps of the recovery, and the end of the script at any point. *)
LEMMA RecoveryInv ==
  ASSUME InstallInv, DisableNew \/ Quarantine \/ Restore \/ ReEnable \/ Kill
  PROVE  InstallInv'
<1> USE DEF InstallInv
<1>1. CASE DisableNew
  <2>1. InstallTypes'
    BY <1>1 DEF DisableNew, Recovers, AfterQuarantine, Moves, Sets, FailsToSet, flags, histories, InstallTypes, Phases, Places
  <2>2. FlagInv'
    BY <1>1 DEF DisableNew, Recovers, AfterQuarantine, Moves, Sets, FailsToSet, flags, histories, InstallTypes, FlagInv, Unmoved, HasNew, Ending
  <2>3. PlaceInv'
    BY <1>1 DEF DisableNew, Recovers, AfterQuarantine, Moves, Sets, FailsToSet, flags, histories, InstallTypes, Places, FlagInv, PlaceInv, Unmoved, HasNew, Ending
  <2>4. EnabledInv'
    BY <1>1 DEF DisableNew, Recovers, AfterQuarantine, Moves, Sets, FailsToSet, flags, histories, InstallTypes, FlagInv, PlaceInv, EnabledInv, Installing, Unmoved, HasNew, Ending
  <2>5. QED
    BY <2>1, <2>2, <2>3, <2>4
<1>2. CASE Quarantine
  <2>1. InstallTypes'
    BY <1>2 DEF Quarantine, Recovers, AfterQuarantine, Moves, Sets, FailsToSet, flags, histories, InstallTypes, Phases, Places
  <2>2. FlagInv'
    BY <1>2 DEF Quarantine, Recovers, AfterQuarantine, Moves, Sets, FailsToSet, flags, histories, InstallTypes, FlagInv, Unmoved, HasNew, Ending
  <2>3. PlaceInv'
    BY <1>2 DEF Quarantine, Recovers, AfterQuarantine, Moves, Sets, FailsToSet, flags, histories, InstallTypes, Places, FlagInv, PlaceInv, Unmoved, HasNew, Ending
  <2>4. EnabledInv'
    BY <1>2 DEF Quarantine, Recovers, AfterQuarantine, Moves, Sets, FailsToSet, flags, histories, InstallTypes, FlagInv, PlaceInv, EnabledInv, Installing, Unmoved, HasNew, Ending
  <2>5. QED
    BY <2>1, <2>2, <2>3, <2>4
<1>3. CASE Restore
  <2>1. InstallTypes'
    BY <1>3 DEF Restore, Recovers, AfterQuarantine, Moves, Sets, FailsToSet, flags, histories, InstallTypes, Phases, Places
  <2>2. FlagInv'
    BY <1>3 DEF Restore, Recovers, AfterQuarantine, Moves, Sets, FailsToSet, flags, histories, InstallTypes, FlagInv, Unmoved, HasNew, Ending
  <2>3. PlaceInv'
    BY <1>3 DEF Restore, Recovers, AfterQuarantine, Moves, Sets, FailsToSet, flags, histories, InstallTypes, Places, FlagInv, PlaceInv, Unmoved, HasNew, Ending
  <2>4. EnabledInv'
    BY <1>3 DEF Restore, Recovers, AfterQuarantine, Moves, Sets, FailsToSet, flags, histories, InstallTypes, FlagInv, PlaceInv, EnabledInv, Installing, Unmoved, HasNew, Ending
  <2>5. QED
    BY <2>1, <2>2, <2>3, <2>4
<1>4. CASE ReEnable
  <2>1. InstallTypes'
    BY <1>4 DEF ReEnable, Recovers, AfterQuarantine, Moves, Sets, FailsToSet, flags, histories, ShouldReEnable, InstallTypes, Phases, Places
  <2>2. FlagInv'
    BY <1>4 DEF ReEnable, Recovers, AfterQuarantine, Moves, Sets, FailsToSet, flags, histories, ShouldReEnable, InstallTypes, FlagInv, Unmoved, HasNew, Ending
  <2>3. PlaceInv'
    BY <1>4 DEF ReEnable, Recovers, AfterQuarantine, Moves, Sets, FailsToSet, flags, histories, ShouldReEnable, InstallTypes, Places, FlagInv, PlaceInv, Unmoved, HasNew, Ending
  <2>4. EnabledInv'
    BY <1>4 DEF ReEnable, Recovers, AfterQuarantine, Moves, Sets, FailsToSet, flags, histories, ShouldReEnable, InstallTypes, FlagInv, PlaceInv, EnabledInv, Installing, Unmoved, HasNew, Ending
  <2>5. QED
    BY <2>1, <2>2, <2>3, <2>4
<1>5. CASE Kill
  <2>1. InstallTypes'
    BY <1>5 DEF Kill, Recovers, AfterQuarantine, Moves, Sets, FailsToSet, flags, histories, InstallTypes, Phases, Places
  <2>2. FlagInv'
    BY <1>5 DEF Kill, Recovers, AfterQuarantine, Moves, Sets, FailsToSet, flags, histories, InstallTypes, FlagInv, Unmoved, HasNew, Ending
  <2>3. PlaceInv'
    BY <1>5 DEF Kill, Recovers, AfterQuarantine, Moves, Sets, FailsToSet, flags, histories, InstallTypes, Places, FlagInv, PlaceInv, Unmoved, HasNew, Ending
  <2>4. EnabledInv'
    BY <1>5 DEF Kill, Recovers, AfterQuarantine, Moves, Sets, FailsToSet, flags, histories, InstallTypes, FlagInv, PlaceInv, EnabledInv, Installing, Unmoved, HasNew, Ending
  <2>5. QED
    BY <2>1, <2>2, <2>3, <2>4
<1>6. QED
  BY <1>1, <1>2, <1>3, <1>4, <1>5

(* A call that had failed is carried out later, or never will be: only the     *)
(* plugin's state changes, and the history tells.                              *)
LEMMA CallLandsInv ==
  ASSUME InstallInv, NEW v \in BOOLEAN, CallLands(v)
  PROVE  InstallInv'
<1> USE DEF InstallInv
<1>1. /\ v \in late /\ late' = late \ {v}
      /\ UNCHANGED <<phase, flags, errors, place, before>>
      /\ (enabled' = v /\ strayed' = TRUE) \/ UNCHANGED <<enabled, strayed>>
  BY DEF CallLands
<1>2. phase \notin Installing /\ ~skipReload
  BY <1>1 DEF EnabledInv
<1>3. InstallTypes'
  BY <1>1 DEF InstallTypes, flags
<1>4. FlagInv' /\ PlaceInv'
  BY <1>1 DEF FlagInv, PlaceInv, flags
<1>5. EnabledInv'
  BY <1>1, <1>2 DEF EnabledInv, flags, InstallTypes, Installing, HasNew, Ending
<1>6. QED
  BY <1>3, <1>4, <1>5

LEMMA InstallNextInv ==
  ASSUME InstallInv, [InstallNext]_installVars
  PROVE  InstallInv'
<1>1. CASE UNCHANGED installVars
  BY <1>1
  DEF installVars, flags, histories, InstallInv, InstallTypes, FlagInv, PlaceInv, EnabledInv
<1>2. CASE InstallNext
  BY <1>2, InstallingInv, RecoveryInv, CallLandsInv DEF InstallNext
<1>3. QED
  BY <1>1, <1>2

LEMMA InstallCorrect == InstallSpec => []InstallInv
  BY InstallInitInv, InstallNextInv, PTL DEF InstallSpec

(* The invariant gives the types, with the old plugin in one directory.        *)
LEMMA TypesOfInstaller ==
  ASSUME InstallInv
  PROVE  InstallTypeOK
  BY OnePlace DEF InstallInv, InstallTypes, InstallTypeOK

(* The flags, the places and the plugin's state make the report true.          *)
LEMMA ReportOfInstaller ==
  ASSUME InstallInv
  PROVE  InstallReportsTrue
<1> USE DEF InstallInv, InstallTypes
<1>1. CASE phase = "done"
  <2>1. place["target"] = "new" /\ (had => place["backup"] = "old")
    BY <1>1 DEF PlaceInv, FlagInv, HasNew, Ending
  <2>2. enabled = IF skipReload THEN before ELSE TRUE
    BY <1>1 DEF EnabledInv
  <2>3. QED
    BY <1>1, <2>1, <2>2 DEF InstallReportsTrue
<1>2. CASE phase = "failed" /\ ~errors
  <2>1. place["target"] = IF had THEN "old" ELSE "none"
    BY <1>2 DEF PlaceInv, FlagInv, Ending, Places
  <2>2. place["backup"] = "none"
    BY <1>2 DEF PlaceInv, Ending
  <2>3. enabled = (attempted \/ before) \/ strayed
    BY <1>2 DEF EnabledInv, FlagInv
  <2>4. QED
    BY <1>2, <2>1, <2>2, <2>3 DEF InstallReportsTrue
<1>3. QED
  BY <1>1, <1>2 DEF InstallReportsTrue

(* What the installer says at its end is true (dev-local.ps1:704-721 and       *)
(* 742-884), whatever step failed or was killed and whenever a call that had   *)
(* failed is carried out.                                                      *)
THEOREM InstallerReportsTrue == InstallSpec => [](InstallTypeOK /\ InstallReportsTrue)
<1>1. InstallInv => InstallTypeOK /\ InstallReportsTrue
  BY TypesOfInstaller, ReportOfInstaller
<1>2. QED
  BY <1>1, InstallCorrect, PTL

(* The recovery enables the plugin only when what is in place is the old one   *)
(* (dev-local.ps1:827).                                                        *)
THEOREM InstallerReEnablesOld == InstallSpec => ReEnablesOldOnly
<1>1. ASSUME InstallInv, InstallNext, phase = "re_enable", phase' = "failed",
             enabled' # enabled \/ late' # late
      PROVE  place["target"] = "old"
  <2>1. ReEnable
    BY <1>1
    DEF InstallNext, Prepare, MatchWorkspace, Disable, Backup, Install, Check, Enable, Smoke,
        DisableNew, Quarantine, Restore, Kill, CallLands
  <2>2. ShouldReEnable
    BY <1>1, <2>1 DEF ReEnable
  <2>3. QED
    BY <1>1, <2>2 DEF ShouldReEnable, InstallInv, PlaceInv
<1>2. InstallInv /\ [InstallNext]_installVars =>
        [phase = "re_enable" /\ (enabled' # enabled \/ late' # late) /\ phase' = "failed"
           => place["target"] = "old"]_installVars
  BY <1>1
<1>3. QED
  BY <1>2, InstallCorrect, PTL DEF InstallSpec, ReEnablesOldOnly

-----------------------------------------------------------------------------
(* A behaviour of the instances is one of each script, one of which never begins. *)
LEMMA ScriptsApart == MCSpec => SmokeSpec /\ InstallSpec
<1>1. MCInit => SmokeInit /\ InstallInit
  BY DEF MCInit
<1>2. [MCNext]_<<smokeVars, installVars>> => [SmokeNext]_smokeVars /\ [InstallNext]_installVars
  BY DEF MCNext
<1>3. QED
  BY <1>1, <1>2, PTL DEF MCSpec, SmokeSpec, InstallSpec

(* The types of both scripts; at every moment the old plugin is in one         *)
(* directory (dev-local.ps1:461 and 862-884).                                  *)
THEOREM ScriptsTypeCorrect == MCSpec => []ScriptsTypeOK
<1>1. SmokeTypeOK /\ InstallTypeOK => ScriptsTypeOK
  BY DEF ScriptsTypeOK
<1>2. QED
  BY <1>1, ScriptsApart, SmokeTestReportsTrue, InstallerReportsTrue, PTL
=============================================================================
