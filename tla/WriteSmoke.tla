----------------------------- MODULE WriteSmoke -----------------------------
(***************************************************************************)
(* The destructive smoke test scripts/mcp-write-smoke.mjs: one client that *)
(* walks a new note through the plugin's tools and deletes it again.  Every*)
(* call has a timeout; one whose caller gave up may still take effect.     *)
(* The note stands for its content: which write it shows last.             *)
(***************************************************************************)
EXTENDS Naturals, Sequences

CONSTANT MaxReads   \* visibilityMaxAttempts: 20 reads of a poll

ASSUME SmokeAssumption == MaxReads \in Nat \ {0}

VARIABLES
  step,       \* the call to make next, or how the run ended
  reads,      \* reads of the current poll that did not find the note
  created,    \* the note's id is known
  dispatched, \* createDispatched
  notices,    \* what the error message tells of leftovers
  note,       \* the note in SiYuan
  shown,      \* history: the contents it has had
  lateWrites  \* writes the client gave up on that SiYuan may still carry out

clientVars == <<step, reads, created, dispatched, notices>>
smokeVars == <<clientVars, note, shown, lateWrites>>

(* The calls in their order; the first five have nothing to clean up. *)
Preflight == <<"initialize", "initialized", "tools/list", "get_policy", "list_accessible_notebooks">>
Lifecycle == <<"create_note", "visible", "resolve_document", "read_note_segments",
               "validateOnly", "edit_block", "edited", "update_note", "final", "delete_note">>
Calls == Preflight \o Lifecycle

Follows(call) ==
  LET k == CHOOSE k \in DOMAIN Calls : Calls[k] = call
  IN  IF k = Len(Calls) THEN "pass" ELSE Calls[k + 1]

Writes == {"create_note", "edit_block", "update_note", "delete_note"}
Polls == {"visible", "edited"}
Contents == {"none", "created", "edited", "updated", "deleted"}

SmokeInit ==
  /\ step = Calls[1]
  /\ reads = 0
  /\ created = FALSE
  /\ dispatched = FALSE
  /\ notices = {}
  /\ note = "none"
  /\ shown = {"none"}
  /\ lateWrites = {}

(***************************************************************************)
(* SiYuan.                                                                 *)
(***************************************************************************)

(* What a write makes of the note; there is nothing to write without one. *)
Result(write) ==
  CASE write = "create_note"                                  -> "created"
    [] write = "edit_block"  /\ note = "created"              -> "edited"
    [] write = "update_note" /\ note \in {"created", "edited"} -> "updated"
    [] write = "delete_note" /\ note # "none"                 -> "deleted"
    [] OTHER                                                  -> note

Lands(write) == note' = Result(write) /\ shown' = shown \cup {note'}

(* A write that nobody waits for takes effect, or never will. *)
WriteLands(write) ==
  /\ write \in lateWrites
  /\ lateWrites' = lateWrites \ {write}
  /\ Lands(write) \/ UNCHANGED <<note, shown>>
  /\ UNCHANGED clientVars

(* The outcomes of a write that its caller takes for a failure: it was    *)
(* refused; it was carried out, and the answer is an error, is malformed   *)
(* or is lost; or it is still on its way.                                  *)
FailingWrite(write) ==
  \/ UNCHANGED <<note, shown, lateWrites>>
  \/ Lands(write) /\ UNCHANGED lateWrites
  \/ lateWrites' = lateWrites \cup {write} /\ UNCHANGED <<note, shown>>

(***************************************************************************)
(* The client.                                                             *)
(***************************************************************************)

(* Faulty: a create counts as dispatched once it is answered. *)
MarkDispatchedLate(call) == FALSE

(* createDispatched is set before create_note is awaited. *)
MarkDispatched(call) == call = "create_note"

Advance(call) ==
  /\ step' = Follows(call)
  /\ reads' = 0
  /\ created' = (created \/ call = "create_note")
  /\ dispatched' = (dispatched \/ MarkDispatched(call))
  /\ UNCHANGED notices

(* A failure of the lifecycle is cleaned up after, if the note's id is    *)
(* known; an unknown outcome of create_note is reported.                   *)
Fail(call, idKnown) ==
  /\ created' = idKnown
  /\ dispatched' = (dispatched \/ MarkDispatched(call))
  /\ step' = IF idKnown THEN "cleanup" ELSE "fail"
  /\ notices' = IF dispatched' /\ ~idKnown THEN notices \cup {"artifactPossiblyCreated"} ELSE notices
  /\ UNCHANGED reads

(* What the answer of a call that changes nothing must show of the note.  *)
Expected(call) ==
  CASE call \in {"visible", "read_note_segments", "validateOnly"} -> {"created"}
    [] call = "resolve_document" -> Contents \ {"none", "deleted"}
    [] call = "edited"           -> {"edited"}
    [] call = "final"            -> {"updated"}
    [] OTHER                     -> Contents

(* It succeeds, or fails somehow. *)
Ask(call) ==
  /\ step = call /\ call \notin Writes \cup Polls
  /\ \/ note \in Expected(call) /\ Advance(call)
     \/ Fail(call, created)
  /\ UNCHANGED <<note, shown, lateWrites>>

(* waitForCreatedDocumentVisible: {ok: false} is asked again; a note that *)
(* does not show what is expected ends the run.                            *)
Poll(call) ==
  /\ step = call /\ call \in Polls
  /\ \/ note \in Expected(call) /\ Advance(call)
     \/ Fail(call, created)
     \/ /\ reads + 1 < MaxReads
        /\ reads' = reads + 1
        /\ UNCHANGED <<step, created, dispatched, notices>>
  /\ UNCHANGED <<note, shown, lateWrites>>

Write(call) ==
  /\ step = call /\ call \in Writes
  /\ Result(call) # note
  /\ Lands(call) /\ Advance(call)
  /\ UNCHANGED lateWrites

(* A create may be answered with a valid id and the wrong title. *)
WriteFails(call) ==
  /\ step = call /\ call \in Writes
  /\ \/ FailingWrite(call) /\ Fail(call, created)
     \/ call = "create_note" /\ Lands(call) /\ UNCHANGED lateWrites /\ Fail(call, TRUE)

(* tryCleanup: one delete_note; when it fails, the id is reported. *)
Cleanup ==
  /\ step = "cleanup"
  /\ step' = "fail"
  /\ \/ note # "deleted" /\ Lands("delete_note") /\ UNCHANGED <<notices, lateWrites>>
     \/ FailingWrite("delete_note") /\ notices' = notices \cup {"documentId"}
  /\ UNCHANGED <<reads, created, dispatched>>

SmokeNext ==
  \/ \E k \in DOMAIN Calls :
       Ask(Calls[k]) \/ Poll(Calls[k]) \/ Write(Calls[k]) \/ WriteFails(Calls[k])
  \/ Cleanup
  \/ \E w \in Writes : WriteLands(w)

SmokeSpec == SmokeInit /\ [][SmokeNext]_smokeVars

-----------------------------------------------------------------------------

SmokeTypeOK ==
  /\ step \in {Calls[k] : k \in DOMAIN Calls} \cup {"cleanup", "pass", "fail"}
  /\ reads \in 0..(MaxReads - 1)
  /\ created \in BOOLEAN /\ dispatched \in BOOLEAN
  /\ notices \in SUBSET {"artifactPossiblyCreated", "documentId"}
  /\ note \in Contents /\ shown \in SUBSET Contents
  /\ lateWrites \in SUBSET Writes
  /\ step = "pass" => lateWrites = {}

(* "Success leaves no note", and a failure whose note may be there, or    *)
(* may yet come, says so, whatever was lost, refused or carried out late;  *)
(* a success went through every content of the note.                       *)
(* (mcp-write-smoke.mjs:868-873, 1221-1258 and 1497-1509)                  *)
SmokeReportsTrue ==
  /\ step = "pass" => note = "deleted" /\ {"created", "edited", "updated"} \subseteq shown
  /\ step = "fail" /\ (note \notin {"none", "deleted"} \/ "create_note" \in lateWrites) => notices # {}
  /\ "artifactPossiblyCreated" \in notices => ~created
=============================================================================
