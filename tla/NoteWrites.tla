------------------------------ MODULE NoteWrites ------------------------------
(***************************************************************************)
(* The tools that write one note: update_note, edit_block, append_note     *)
(* (save_memory appends the same way) and apply_tags of                    *)
(* src/src/kernel.ts, with performEditBlock (edit-block.ts) and            *)
(* runWriteTransaction (write-transaction.ts).                             *)
(*                                                                         *)
(* Tool calls run concurrently in the kernel: one action is what a call    *)
(* does between two awaits.  A read is one action, at the moment the host  *)
(* serves it.  A write is sent, takes effect at most once, and is          *)
(* answered; an error says nothing about whether it took or will take      *)
(* effect, and an answer may precede the effect.  Meanwhile the user edits *)
(* the note and publishes policies.                                        *)
(*                                                                         *)
(* The content of the note is the last replacement of it and the appends   *)
(* made since; every replacement and append is named by who makes it, so   *)
(* equal content means the same history.                                   *)
(***************************************************************************)
EXTENDS Naturals

CONSTANTS
  Updates,        \* calls of update_note
  Edits,          \* calls of edit_block
  Appends,        \* calls of append_note
  Taggings,       \* calls of apply_tags
  Confirmed,      \* the calls made with confirmed = true
  Deciding,       \* the calls made with tagging.decision = "add"
  UserEdits,      \* the edits the user makes
  PolicyChoices,  \* the policies the user may publish
  MaxPublished    \* bound: policies published

Transactions == Updates \cup Edits
Writers == Transactions \cup Appends
Call == Writers \cup Taggings

ASSUME CallAssumption ==
  /\ Updates \cap Edits = {} /\ Transactions \cap Appends = {} /\ Writers \cap Taggings = {}
  /\ Call \cap UserEdits = {} /\ "initial" \notin Call \cup UserEdits
  /\ PolicyChoices \subseteq [op : {"allow", "confirm", "deny"}, tagging : {"always", "ask", "off"},
                             notebook : {"allow", "deny"}]
  /\ MaxPublished \in Nat

VARIABLES
  doc,        \* the content of the note
  tags,       \* its tags attribute
  policy,     \* this.policy: the decision on these operations, the tagging mode,
              \* and whether the notebook of the note is inside the access boundary
  pc,         \* what each call awaits
  slice,      \* the decision performEditBlock was given
  needs,      \* requireConfirmation of each transaction
  snap,       \* snapshotHash of each transaction
  tagsRead,   \* the tags each call has read before it writes them
  body,       \* the body write of each call: "none", "sent" or "applied"
  attrs,      \* its tag write
  outcome,    \* the error code of the tool call, "ok", or "ok_tags_failed"
  edited,     \* the user's edits so far
  published,  \* number of policies published so far
  inForce,    \* the policies in force at some time of each call
  drifted     \* transactions whose note changed between snapshot and recheck

hostVars == <<doc, tags, body, attrs>>
callVars == <<pc, slice, needs, snap, tagsRead, outcome>>
userVars == <<policy, edited, published>>
historyVars == <<inForce, drifted>>
vars == <<hostVars, callVars, userVars, historyVars>>

Content(b, t) == [base |-> b, tail |-> t]

Refusals == {"operation_denied", "notebook_denied", "confirmation_required",
             "tag_decision_required", "state_changed", "operation_failed"}

Outcomes == Refusals \cup {"none", "ok", "ok_tags_failed", "outcome_unknown",
                           "verification_failed"}

(* evaluateOperation *)
Decision(p, c) ==
  IF p.op = "deny" THEN "operation_denied"
  ELSE IF p.op = "confirm" /\ c \notin Confirmed THEN "confirmation_required"
  ELSE "allowed"

(* planTags, for a call that offers one new tag *)
TagPlan(p, c) ==
  IF p.tagging = "off" THEN "skip"
  ELSE IF p.tagging = "ask" /\ c \notin Deciding THEN "confirm"
  ELSE "apply"

Init ==
  /\ doc = Content("initial", {})
  /\ tags = {"initial"}
  /\ policy \in PolicyChoices
  /\ pc = [c \in Call |-> "idle"]
  /\ slice = [c \in Edits |-> "none"]
  /\ needs = [c \in Transactions |-> FALSE]
  /\ snap = [c \in Transactions |-> doc]
  /\ tagsRead = [c \in Call |-> {}]
  /\ body = [c \in Writers |-> "none"]
  /\ attrs = [c \in Call |-> "none"]
  /\ outcome = [c \in Call |-> "none"]
  /\ edited = {}
  /\ published = 0
  /\ inForce = [c \in Call |-> {}]
  /\ drifted = {}

-----------------------------------------------------------------------------
(* Control flow of a call. *)

Goto(c, p) == pc' = [pc EXCEPT ![c] = p] /\ UNCHANGED outcome

Return(c, r) ==
  /\ pc' = [pc EXCEPT ![c] = "done"]
  /\ outcome' = [outcome EXCEPT ![c] = r]

(* The deny check of update_note and edit_block leaves confirm to the          *)
(* transaction; ensureOperation decides both for the other tools.              *)
Guard(c) ==
  IF c \in Transactions
  THEN IF policy.op = "deny" THEN "operation_denied" ELSE "allowed"
  ELSE Decision(policy, c)

(* The handler starts: the checks before its first await. *)
Invoke(c) ==
  /\ pc[c] = "idle"
  /\ IF Guard(c) = "allowed" THEN Goto(c, "context") ELSE Return(c, Guard(c))
  /\ inForce' = [inForce EXCEPT ![c] = {policy}]
  /\ UNCHANGED <<hostVars, userVars, slice, needs, snap, tagsRead, drifted>>

(* The next await of each tool once its document is inside the boundary. *)
AfterContext(c) ==
  CASE c \in Edits    -> "contextAllowed"
    [] c \in Taggings -> "readTags"
    [] OTHER          -> "tagCheck"

(* Faulty ContextRead: the notebook is trusted to be the one the caller chose. *)
ContextReadAnywhere(c) ==
  /\ pc[c] = "context"
  /\ \/ Return(c, "operation_failed")
     \/ Goto(c, AfterContext(c))
  /\ UNCHANGED <<hostVars, userVars, historyVars, slice, needs, snap, tagsRead>>

(* assertDocumentAllowed: the read of the document's context answers, or fails, and *)
(* its notebook is looked up in the policy in force by then.                        *)
ContextRead(c) ==
  /\ pc[c] = "context"
  /\ \/ Return(c, "operation_failed")
     \/ policy.notebook = "deny" /\ Return(c, "notebook_denied")
     \/ policy.notebook = "allow" /\ Goto(c, AfterContext(c))
  /\ UNCHANGED <<hostVars, userVars, historyVars, slice, needs, snap, tagsRead>>

(* edit_block resumes from assertDocumentAllowed, one microtask later, and takes its *)
(* slice of the policy, which performEditBlock checks for deny again.                *)
TakeSlice(c) ==
  /\ pc[c] = "contextAllowed"
  /\ slice' = [slice EXCEPT ![c] = policy.op]
  /\ IF policy.op = "deny" THEN Return(c, "operation_denied") ELSE Goto(c, "expected")
  /\ UNCHANGED <<hostVars, userVars, historyVars, needs, snap, tagsRead>>

(* edit_block: the content its caller expects is the one the note had at first. *)
ExpectedRead(c) ==
  /\ pc[c] = "expected"
  /\ \/ Return(c, "operation_failed")
     \/ IF doc = Content("initial", {}) THEN Goto(c, "references") ELSE Return(c, "state_changed")
  /\ UNCHANGED <<hostVars, userVars, historyVars, slice, needs, snap, tagsRead>>

(* The references of the block may forbid the edit or make it need confirmation. *)
ReferencesRead(c) ==
  /\ pc[c] = "references"
  /\ \/ Return(c, "operation_failed") /\ UNCHANGED needs
     \/ Return(c, "operation_denied") /\ UNCHANGED needs
     \/ \E warned \in BOOLEAN :
          /\ needs' = [needs EXCEPT ![c] = slice[c] = "confirm" \/ warned]
          /\ Goto(c, "snapshot")
  /\ UNCHANGED <<hostVars, userVars, historyVars, slice, snap, tagsRead>>

(* The body write is sent. *)
SendBody(c) == Goto(c, "writing") /\ body' = [body EXCEPT ![c] = "sent"]

(* ensureTagDecisionReady; then update_note enters its transaction, whose need  *)
(* of confirmation is decided now, and append_note writes.                      *)
TagCheck(c) ==
  /\ pc[c] = "tagCheck"
  /\ \/ Return(c, "operation_failed") /\ UNCHANGED <<needs, body>>
     \/ /\ TagPlan(policy, c) = "confirm"
        /\ Return(c, "tag_decision_required")
        /\ UNCHANGED <<needs, body>>
     \/ /\ TagPlan(policy, c) # "confirm"
        /\ c \in Updates
        /\ needs' = [needs EXCEPT ![c] = policy.op = "confirm"]
        /\ Goto(c, "snapshot")
        /\ UNCHANGED body
     \/ /\ TagPlan(policy, c) # "confirm"
        /\ c \in Appends
        /\ SendBody(c)
        /\ UNCHANGED needs
  /\ UNCHANGED <<userVars, historyVars, doc, tags, attrs, slice, snap, tagsRead>>

-----------------------------------------------------------------------------
(* runWriteTransaction. *)

Snapshot(c) ==
  /\ pc[c] = "snapshot"
  /\ \/ Return(c, "state_changed") /\ UNCHANGED snap
     \/ /\ snap' = [snap EXCEPT ![c] = doc]
        /\ IF needs[c] /\ c \notin Confirmed
           THEN Return(c, "confirmation_required")
           ELSE Goto(c, "recheck")
  /\ UNCHANGED <<hostVars, userVars, historyVars, slice, needs, tagsRead>>

(* Faulty Recheck: the state read before execution is not compared. *)
RecheckUncompared(c) ==
  /\ pc[c] = "recheck"
  /\ \/ Return(c, "state_changed") /\ UNCHANGED body
     \/ SendBody(c)
  /\ UNCHANGED <<userVars, historyVars, doc, tags, attrs, slice, needs, snap, tagsRead>>

(* verifyCurrent answers: state_mismatch, or execute. *)
Recheck(c) ==
  /\ pc[c] = "recheck"
  /\ \/ Return(c, "state_changed") /\ UNCHANGED body
     \/ doc = snap[c] /\ SendBody(c)
  /\ UNCHANGED <<userVars, historyVars, doc, tags, attrs, slice, needs, snap, tagsRead>>

(* Faulty BodyAnswered: an error of the write call is taken for a refusal. *)
BodyAnsweredRefusing(c) ==
  /\ pc[c] = "writing"
  /\ \/ Return(c, "operation_failed")
     \/ Goto(c, IF c \in Transactions THEN "readback" ELSE "readTags")
  /\ UNCHANGED <<hostVars, userVars, historyVars, slice, needs, snap, tagsRead>>

(* The write call answers; an error leaves the outcome unknown. *)
BodyAnswered(c) ==
  /\ pc[c] = "writing"
  /\ \/ Return(c, "outcome_unknown")
     \/ Goto(c, IF c \in Transactions THEN "readback" ELSE "readTags")
  /\ UNCHANGED <<hostVars, userVars, historyVars, slice, needs, snap, tagsRead>>

(* matchesDocumentReadback, normalizeEditBlockReadback: the note is what was written. *)
ReadsBack(c) == doc = Content(c, {})

Committed(c) == IF c \in Edits THEN Return(c, "ok") ELSE Goto(c, "readTags")

Readback(c) ==
  /\ pc[c] = "readback"
  /\ \/ Return(c, "outcome_unknown")
     \/ IF ReadsBack(c) THEN Committed(c) ELSE Return(c, "verification_failed")
  /\ UNCHANGED <<hostVars, userVars, historyVars, slice, needs, snap, tagsRead>>

-----------------------------------------------------------------------------
(* applyTags, and applyTagsAfterBodyWrite around it. *)

TagsFailed(c, why) == Return(c, IF c \in Taggings THEN why ELSE "ok_tags_failed")

ReadTags(c) ==
  /\ pc[c] = "readTags"
  /\ \/ TagsFailed(c, "operation_failed") /\ UNCHANGED <<tagsRead, attrs>>
     \/ /\ TagPlan(policy, c) = "confirm"
        /\ TagsFailed(c, "tag_decision_required")
        /\ UNCHANGED <<tagsRead, attrs>>
     \/ /\ TagPlan(policy, c) = "skip"
        /\ Return(c, "ok")
        /\ UNCHANGED <<tagsRead, attrs>>
     \/ /\ TagPlan(policy, c) = "apply"
        /\ tagsRead' = [tagsRead EXCEPT ![c] = tags]
        /\ attrs' = [attrs EXCEPT ![c] = "sent"]
        /\ Goto(c, "writingTags")
  /\ UNCHANGED <<userVars, historyVars, doc, tags, body, slice, needs, snap>>

TagsAnswered(c) ==
  /\ pc[c] = "writingTags"
  /\ Return(c, "ok") \/ TagsFailed(c, "operation_failed")
  /\ UNCHANGED <<hostVars, userVars, historyVars, slice, needs, snap, tagsRead>>

-----------------------------------------------------------------------------
(* The host and the user. *)

Drift == {c \in Transactions : pc[c] = "recheck"}

(* Faulty BodyApplied: append_note replaces the note like update_note. *)
BodyAppliedReplacing(c) ==
  /\ body[c] = "sent"
  /\ body' = [body EXCEPT ![c] = "applied"]
  /\ doc' = Content(c, {})
  /\ drifted' = drifted \cup Drift
  /\ UNCHANGED <<tags, attrs, callVars, userVars, inForce>>

(* updateBlock replaces the content, appendBlock adds to it. *)
BodyApplied(c) ==
  /\ body[c] = "sent"
  /\ body' = [body EXCEPT ![c] = "applied"]
  /\ doc' = IF c \in Appends THEN [doc EXCEPT !.tail = @ \cup {c}] ELSE Content(c, {})
  /\ drifted' = drifted \cup Drift
  /\ UNCHANGED <<tags, attrs, callVars, userVars, inForce>>

(* setBlockAttrs overwrites the tags attribute with mergeTags' result. *)
TagsApplied(c) ==
  /\ attrs[c] = "sent"
  /\ attrs' = [attrs EXCEPT ![c] = "applied"]
  /\ tags' = tagsRead[c] \cup {c}
  /\ UNCHANGED <<doc, body, callVars, userVars, historyVars>>

UserEdit(e) ==
  /\ e \notin edited
  /\ edited' = edited \cup {e}
  /\ doc' = Content(e, {})
  /\ drifted' = drifted \cup Drift
  /\ UNCHANGED <<tags, body, attrs, callVars, policy, published, inForce>>

(* publish() hands the tools a new policy while calls are under way. *)
Publish(p) ==
  /\ published < MaxPublished
  /\ published' = published + 1
  /\ policy' = p
  /\ inForce' = [c \in Call |->
       IF pc[c] \in {"idle", "done"} THEN inForce[c] ELSE inForce[c] \cup {p}]
  /\ UNCHANGED <<hostVars, callVars, edited, drifted>>

Step(c) ==
  \/ Invoke(c)
  \/ ContextRead(c)
  \/ TakeSlice(c)
  \/ ExpectedRead(c)
  \/ ReferencesRead(c)
  \/ TagCheck(c)
  \/ Snapshot(c)
  \/ Recheck(c)
  \/ BodyAnswered(c)
  \/ Readback(c)
  \/ ReadTags(c)
  \/ TagsAnswered(c)

Next ==
  \/ \E c \in Call : Step(c) \/ TagsApplied(c)
  \/ \E c \in Writers : BodyApplied(c)
  \/ \E e \in UserEdits : UserEdit(e)
  \/ \E p \in PolicyChoices : Publish(p)

Spec == Init /\ [][Next]_vars

-----------------------------------------------------------------------------
(* The variables have the types the code gives them. *)
TypeOK ==
  /\ doc \in [base : Transactions \cup UserEdits \cup {"initial"}, tail : SUBSET Appends]
  /\ tags \subseteq Call \cup {"initial"}
  /\ policy \in PolicyChoices
  /\ pc \in [Call -> {"idle", "context", "contextAllowed", "expected", "references", "tagCheck",
                      "snapshot", "recheck", "writing", "readback", "readTags", "writingTags", "done"}]
  /\ slice \in [Edits -> {"none", "allow", "confirm", "deny"}]
  /\ needs \in [Transactions -> BOOLEAN]
  /\ snap \in [Transactions -> [base : Transactions \cup UserEdits \cup {"initial"},
                                tail : SUBSET Appends]]
  /\ tagsRead \in [Call -> SUBSET (Call \cup {"initial"})]
  /\ body \in [Writers -> {"none", "sent", "applied"}]
  /\ attrs \in [Call -> {"none", "sent", "applied"}]
  /\ outcome \in [Call -> Outcomes]
  /\ edited \subseteq UserEdits
  /\ published \in 0..MaxPublished
  /\ inForce \in [Call -> SUBSET PolicyChoices]
  /\ drifted \subseteq Transactions

(* A transaction whose note changed between its snapshot and its recheck, by     *)
(* another call, a late write or the user, does not write                        *)
(* (state_or_hash_check_required, write-transaction.ts:12-13).                   *)
DriftStopsWrite == \A c \in drifted : body[c] = "none"

(* What the policies in force during a call permit of it. *)
Permitted(c) == \E p \in inForce[c] : Decision(p, c) = "allowed"
Admitted(c) == \E p \in inForce[c] : p.notebook = "allow"

Wrote(c) == attrs[c] # "none" \/ (c \in Writers /\ body[c] # "none")

(* Each permission behind a write was given by a policy in force during the call,  *)
(* however the user changes the policy meanwhile: the notebook's for every tool,    *)
(* the operation's for edit_block, append_note and apply_tags ("Writes: Follow      *)
(* per-operation policy", README.md:124; assertDocumentAllowed, kernel.ts:626).     *)
(* The two need not come from one policy: each is checked after another await.      *)
EditsFollowPolicy ==
  \A c \in Call : Wrote(c) => Admitted(c) /\ (c \notin Updates => Permitted(c))

(* The operation of update_note is permitted by a policy in force during the call:  *)
(* "Deny is hard-stopped here; confirm is also enforced by the txn" (kernel.ts).     *)
UpdatesFollowPolicy == \A c \in Updates : body[c] # "none" => Permitted(c)

Stage(c) ==
  IF outcome[c] \in Refusals THEN "refused"
  ELSE IF outcome[c] = "outcome_unknown" THEN "unknown"
  ELSE IF outcome[c] = "verification_failed" THEN "mismatched"
  ELSE IF outcome[c] \in {"ok", "ok_tags_failed"} \/ pc[c] \in {"readTags", "writingTags"}
       THEN "committed"
  ELSE IF pc[c] \in {"writing", "readback"} THEN "executing"
  ELSE "pending"

Promise == INSTANCE SafeWrite WITH
  Writer <- Writers,
  Verified <- Transactions,
  stage <- [c \in Writers |-> Stage(c)],
  written <- {c \in Writers : body[c] = "applied"}

(* The tools keep the promise of SafeWrite: a refusal means that nothing was    *)
(* written and nothing will be ("`state_changed` means nothing was written",     *)
(* README.md:132); "ok", and the partial success "ok_tags_failed", mean that the *)
(* body of a transaction is on the note or was (kernel.ts,                       *)
(* applyTagsAfterBodyWrite); no body is written twice.                           *)
ImplementsSafeWrite == Promise!Spec
=============================================================================
