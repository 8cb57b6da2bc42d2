--------------------------- MODULE NoteWritesProofs ---------------------------
(***************************************************************************)
(* Proofs about the tools that write a note, for every set of calls, of    *)
(* user edits and of policies, and every number of policies published.     *)
(*                                                                         *)
(* The argument: a body write is sent by one step of a call and answered   *)
(* by another, so where a call is tells whether its write is out (BodyInv).*)
(* Every content names the writes it is made of (DocInv), and a write is   *)
(* applied once, so a note that has changed since a snapshot never equals  *)
(* it again (SnapInv).  What a call learnt of the policy before an await   *)
(* still holds after it, because a policy that is published meanwhile is   *)
(* one in force during the call (PermitInv).                               *)
(***************************************************************************)
EXTENDS NoteWrites, TLAPS

Before == {"idle", "context", "contextAllowed", "expected", "references", "tagCheck", "snapshot", "recheck"}
Since == {"writing", "readback", "readTags", "writingTags"}

(* Where a call is, given what its write has come to. *)
BodyInv ==
  /\ \A c \in Call : outcome[c] = "none" <=> pc[c] # "done"
  /\ \A c \in Writers :
       IF body[c] = "none"
       THEN pc[c] \in Before \/ (pc[c] = "done" /\ outcome[c] \in Refusals)
       ELSE pc[c] \in Since \/ (pc[c] = "done" /\ outcome[c] \notin Refusals)
  /\ \A c \in Call :
       /\ pc[c] \in {"contextAllowed", "expected", "references"} => c \in Edits
       /\ pc[c] = "tagCheck" => c \in Updates \cup Appends
       /\ pc[c] \in {"snapshot", "recheck", "readback"} => c \in Transactions
       /\ pc[c] = "writing" => c \in Writers
       /\ attrs[c] # "none" => pc[c] \in {"writingTags", "done"}

(* A content consists of applied writes and of edits that were made. *)
Known(content) ==
  /\ content.base \in Transactions => body[content.base] = "applied"
  /\ content.base \in UserEdits => content.base \in edited
  /\ \A a \in content.tail : body[a] = "applied"

DocInv == Known(doc)

SnapInv ==
  /\ \A c \in Transactions : Known(snap[c])
  /\ \A c \in drifted : pc[c] = "recheck" => doc # snap[c]
  /\ \A c \in drifted : pc[c] \in {"recheck", "done"} /\ body[c] = "none"

(* The policy is one of those in force during each call under way; what a   *)
(* call found out about its notebook and about its operation, in the policy *)
(* of the moment or in its slice of one, was said by one of them.           *)
PermitInv ==
  /\ \A c \in Call : pc[c] \notin {"idle", "done"} => policy \in inForce[c]
  /\ \A c \in Call : pc[c] \notin {"idle", "context", "done"} \/ Wrote(c) => Admitted(c)
  /\ \A c \in Appends \cup Taggings :
       pc[c] \notin {"idle", "done"} \/ Wrote(c) => Permitted(c)
  /\ \A c \in Edits :
       /\ pc[c] \in {"expected", "references", "snapshot"} =>
            \/ Permitted(c)
            \/ slice[c] = "confirm" /\ c \notin Confirmed
       /\ pc[c] = "snapshot" => (slice[c] = "confirm" => needs[c])
       /\ pc[c] \in {"recheck"} \cup Since \/ Wrote(c) => Permitted(c)

IInv == TypeOK /\ BodyInv /\ DocInv /\ SnapInv /\ PermitInv

(* The initial state satisfies the invariant. *)
LEMMA InitInv == Init => IInv
  BY CallAssumption
  DEF Init, IInv, TypeOK, BodyInv, DocInv, SnapInv, PermitInv, Wrote, Known, Content, Outcomes, Refusals,
      Call, Writers, Transactions, Before, Since

(* A step of a call, from its start to the answers it acts on.              *)
LEMMA CallSteps ==
  ASSUME IInv, NEW c \in Call, Step(c)
  PROVE  IInv'
<1> USE CallAssumption DEF IInv, Call, Writers, Transactions
<1>1. TypeOK'
  <2>1. CASE Invoke(c)
    BY <2>1 DEF TypeOK, Outcomes, Refusals, Invoke, Return, Goto, Guard, Decision, hostVars, userVars, historyVars
  <2>2. CASE ContextRead(c) \/ TakeSlice(c)
    <3>1. CASE ContextRead(c)
      BY <3>1 DEF TypeOK, Outcomes, Refusals, ContextRead, AfterContext, Return, Goto, hostVars, userVars, historyVars
    <3>2. CASE TakeSlice(c)
      BY <3>2 DEF TypeOK, BodyInv, Outcomes, Refusals, TakeSlice, Return, Goto, hostVars, userVars, historyVars
    <3>3. QED
      BY <2>2, <3>1, <3>2
  <2>3. CASE ExpectedRead(c)
    BY <2>3 DEF TypeOK, Outcomes, Refusals, ExpectedRead, Return, Goto, hostVars, userVars, historyVars
  <2>4. CASE ReferencesRead(c)
    <3>1. CASE UNCHANGED needs
      BY <2>4, <3>1 DEF TypeOK, Outcomes, Refusals, ReferencesRead, Return, Goto, hostVars, userVars, historyVars
    <3>2. ASSUME NEW b \in BOOLEAN, needs' = [needs EXCEPT ![c] = b], Goto(c, "snapshot")
          PROVE  TypeOK'
      BY <2>4, <3>2 DEF TypeOK, ReferencesRead, Goto, hostVars, userVars, historyVars
    <3>3. \A warned \in BOOLEAN : (slice[c] = "confirm" \/ warned) \in BOOLEAN
      OBVIOUS
    <3>4. QED
      BY <2>4, <3>1, <3>2, <3>3 DEF ReferencesRead
  <2>5. CASE TagCheck(c)
    <3>1. CASE UNCHANGED needs
      BY <2>5, <3>1 DEF TypeOK, Outcomes, Refusals, TagCheck, Return, Goto, SendBody, hostVars, userVars, historyVars
    <3>2. CASE needs' = [needs EXCEPT ![c] = policy.op = "confirm"] /\ Goto(c, "snapshot") /\ UNCHANGED body
      <4>1. (policy.op = "confirm") \in BOOLEAN
        OBVIOUS
      <4>2. QED
        BY <2>5, <3>2, <4>1 DEF TypeOK, TagCheck, Goto, hostVars, userVars, historyVars
    <3>3. QED
      BY <2>5, <3>1, <3>2 DEF TagCheck
  <2>6. CASE Snapshot(c)
    BY <2>6 DEF TypeOK, Outcomes, Refusals, Snapshot, Return, Goto, hostVars, userVars, historyVars
  <2>7. CASE Recheck(c)
    BY <2>7 DEF TypeOK, Outcomes, Refusals, Recheck, Return, Goto, SendBody, hostVars, userVars, historyVars
  <2>8. CASE BodyAnswered(c)
    BY <2>8 DEF TypeOK, Outcomes, Refusals, BodyAnswered, Return, Goto, hostVars, userVars, historyVars
  <2>9. CASE Readback(c)
    BY <2>9 DEF TypeOK, Outcomes, Refusals, Readback, Return, Goto, Committed, hostVars, userVars, historyVars
  <2>10. CASE ReadTags(c)
    BY <2>10 DEF TypeOK, Outcomes, Refusals, ReadTags, Return, Goto, TagsFailed, hostVars, userVars, historyVars
  <2>11. CASE TagsAnswered(c)
    <3>1. \E r \in Outcomes : Return(c, r)
      BY <2>11 DEF TagsAnswered, TagsFailed, Outcomes, Refusals
    <3>2. QED
      BY <2>11, <3>1 DEF TypeOK, TagsAnswered, Return, hostVars, userVars, historyVars
  <2>12. QED
    BY <2>1, <2>2, <2>3, <2>4, <2>5, <2>6, <2>7, <2>8, <2>9, <2>10, <2>11 DEF Step
<1>2. BodyInv'
  BY DEF TypeOK, BodyInv, Before, Since, Step, Invoke, ContextRead, TakeSlice, ExpectedRead, ReferencesRead,
         TagCheck, Snapshot, Recheck, BodyAnswered, Readback, ReadTags, TagsAnswered, Return, Goto,
         SendBody, Committed, TagsFailed, Guard, Decision, AfterContext, Outcomes, Refusals,
         hostVars, userVars, historyVars
<1>3. DocInv'
  BY DEF TypeOK, BodyInv, DocInv, Known, Before, Since, Step, Invoke, ContextRead, TakeSlice, ExpectedRead, ReferencesRead,
         TagCheck, Snapshot, Recheck, BodyAnswered, Readback, ReadTags, TagsAnswered, SendBody,
         hostVars, userVars, historyVars
<1>4. SnapInv'
  BY DEF TypeOK, BodyInv, DocInv, SnapInv, Known, Before, Since, Step, Invoke, ContextRead, TakeSlice, ExpectedRead, ReferencesRead,
         TagCheck, Snapshot, Recheck, BodyAnswered, Readback, ReadTags, TagsAnswered, Return, Goto,
         SendBody, Committed, TagsFailed, AfterContext, hostVars, userVars, historyVars
<1>5. PermitInv'
  <2>1. CASE Invoke(c)
    <3>1. inForce' = [inForce EXCEPT ![c] = {policy}] /\ policy' = policy
      BY <2>1 DEF Invoke, userVars
    <3>2. /\ policy' \in inForce'[c] /\ ~Wrote(c)'
          /\ \A d \in Call \ {c} : inForce'[d] = inForce[d]
      BY <2>1, <3>1 DEF TypeOK, BodyInv, Before, Since, Invoke, Wrote, hostVars
    <3>3. \A d \in Call \ {c} : (Permitted(d)' <=> Permitted(d)) /\ (Admitted(d)' <=> Admitted(d))
      BY <3>2 DEF Permitted, Admitted
    <3>4. Guard(c) = "allowed" /\ c \in Appends \cup Taggings => Permitted(c)'
      BY <3>1, <3>2 DEF Permitted, Guard
    <3>5. \A d \in Call : Wrote(d)' <=> Wrote(d)
      BY <2>1 DEF Invoke, Wrote, hostVars
    <3>6. QED
      BY <2>1, <3>1, <3>2, <3>3, <3>4, <3>5 DEF TypeOK, BodyInv, PermitInv, Before, Since, Invoke, Return, Goto, hostVars, userVars, historyVars
  <2>2. ASSUME UNCHANGED <<inForce, policy>>
        PROVE  \A d \in Call : (Permitted(d)' <=> Permitted(d)) /\ (Admitted(d)' <=> Admitted(d))
    BY <2>2 DEF Permitted, Admitted
  <2>3. ASSUME UNCHANGED <<body, attrs>>
        PROVE  \A d \in Call : Wrote(d)' <=> Wrote(d)
    BY <2>3 DEF Wrote
  <2>4. CASE ContextRead(c)
    <3>1. policy.notebook = "allow" /\ pc[c] = "context" => Admitted(c)
      BY DEF PermitInv, Admitted
    <3>2. QED
      BY <2>2, <2>3, <2>4, <3>1 DEF TypeOK, BodyInv, PermitInv, Before, Since, ContextRead, AfterContext, Return, Goto, hostVars, userVars, historyVars
  <2>5. CASE TakeSlice(c)
    <3>1. policy.op # "deny" /\ pc[c] = "contextAllowed" =>
            Permitted(c) \/ (policy.op = "confirm" /\ c \notin Confirmed)
      BY DEF PermitInv, Permitted, Decision
    <3>2. QED
      BY <2>2, <2>3, <2>5, <3>1 DEF TypeOK, BodyInv, PermitInv, Before, Since, TakeSlice, Return, Goto, hostVars, userVars, historyVars
  <2>6. CASE ExpectedRead(c)
    BY <2>2, <2>3, <2>6 DEF TypeOK, BodyInv, PermitInv, Before, Since, ExpectedRead, Return, Goto, hostVars, userVars, historyVars
  <2>7. CASE ReferencesRead(c)
    <3>1. CASE pc' = [pc EXCEPT ![c] = "done"]
      BY <2>2, <2>3, <2>7, <3>1 DEF TypeOK, BodyInv, PermitInv, Before, Since, ReferencesRead, hostVars, userVars, historyVars
    <3>2. CASE pc' = [pc EXCEPT ![c] = "snapshot"] /\ (slice[c] = "confirm" => needs'[c])
      BY <2>2, <2>3, <2>7, <3>2 DEF TypeOK, BodyInv, PermitInv, Before, Since, ReferencesRead, hostVars, userVars, historyVars
    <3>3. ASSUME NEW warned \in BOOLEAN, needs' = [needs EXCEPT ![c] = slice[c] = "confirm" \/ warned]
          PROVE  slice[c] = "confirm" => needs'[c]
      BY <2>7, <3>3, Zenon DEF TypeOK, BodyInv, ReferencesRead
    <3>4. QED
      BY <2>7, <3>1, <3>2, <3>3 DEF ReferencesRead, Return, Goto
  <2>8. CASE TagCheck(c)
    <3>1. \A d \in Call \ {c} : Wrote(d)' <=> Wrote(d)
      BY <2>8 DEF TypeOK, TagCheck, SendBody, Wrote
    <3>2. Wrote(c)' => Wrote(c) \/ pc[c] = "tagCheck"
      BY <2>8 DEF TagCheck
    <3>3. QED
      BY <2>2, <2>8, <3>1, <3>2 DEF TypeOK, BodyInv, PermitInv, Before, Since, TagCheck, Return, Goto, SendBody, hostVars, userVars, historyVars
  <2>9. CASE Snapshot(c)
    <3>1. CASE pc' = [pc EXCEPT ![c] = "done"]
      BY <2>2, <2>3, <2>9, <3>1 DEF TypeOK, BodyInv, PermitInv, Before, Since, Snapshot, hostVars, userVars, historyVars
    <3>2. CASE pc' = [pc EXCEPT ![c] = "recheck"] /\ ~(needs[c] /\ c \notin Confirmed)
      BY <2>2, <2>3, <2>9, <3>2 DEF TypeOK, BodyInv, PermitInv, Before, Since, Snapshot, hostVars, userVars, historyVars
    <3>3. QED
      BY <2>9, <3>1, <3>2 DEF Snapshot, Return, Goto
  <2>10. CASE Recheck(c)
    <3>1. \A d \in Call \ {c} : Wrote(d)' <=> Wrote(d)
      BY <2>10 DEF TypeOK, Recheck, SendBody, Wrote
    <3>2. Wrote(c)' => Wrote(c) \/ pc[c] = "recheck"
      BY <2>10 DEF Recheck
    <3>3. QED
      BY <2>2, <2>10, <3>1, <3>2 DEF TypeOK, BodyInv, PermitInv, Before, Since, Recheck, Return, Goto, SendBody, hostVars, userVars, historyVars
  <2>11. CASE BodyAnswered(c)
    BY <2>2, <2>3, <2>11 DEF TypeOK, BodyInv, PermitInv, Before, Since, BodyAnswered, Return, Goto, hostVars, userVars, historyVars
  <2>12. CASE Readback(c)
    BY <2>2, <2>3, <2>12 DEF TypeOK, BodyInv, PermitInv, Before, Since, Readback, Return, Goto, Committed, hostVars, userVars, historyVars
  <2>13. CASE ReadTags(c)
    <3>1. \A d \in Call \ {c} : Wrote(d)' <=> Wrote(d)
      BY <2>13 DEF TypeOK, ReadTags, SendBody, Wrote
    <3>2. Wrote(c)' => Wrote(c) \/ pc[c] = "readTags"
      BY <2>13 DEF ReadTags
    <3>3. QED
      BY <2>2, <2>13, <3>1, <3>2 DEF TypeOK, BodyInv, PermitInv, Before, Since, ReadTags, Return, Goto, TagsFailed, hostVars, userVars, historyVars
  <2>14. CASE TagsAnswered(c)
    BY <2>2, <2>3, <2>14 DEF TypeOK, BodyInv, PermitInv, Before, Since, TagsAnswered, Return, TagsFailed, hostVars, userVars, historyVars
  <2>15. QED
    BY <2>1, <2>4, <2>5, <2>6, <2>7, <2>8, <2>9, <2>10, <2>11, <2>12, <2>13, <2>14 DEF Step
<1>6. QED
  BY <1>1, <1>2, <1>3, <1>4, <1>5

(* A body write takes effect. *)
LEMMA BodyAppliedStep ==
  ASSUME IInv, NEW c \in Writers, BodyApplied(c)
  PROVE  IInv'
<1> USE CallAssumption DEF IInv, Call, Writers, Transactions
<1>1. TypeOK'
  BY DEF TypeOK, BodyApplied, Content, Drift, callVars, userVars
<1>2. BodyInv'
  BY DEF TypeOK, BodyInv, BodyApplied, callVars
<1>3. \A content : Known(content) => Known(content)'
  BY DEF TypeOK, Known, BodyApplied, userVars
<1>4. Known(doc)'
  BY <1>3 DEF TypeOK, DocInv, Known, BodyApplied, Content, userVars
<1>5. \A t \in Transactions : doc' # snap[t]
  <2>1. c \in doc'.tail \/ (doc'.base = c /\ c \in Transactions)
    <3>1. CASE c \in Appends
      BY <3>1 DEF TypeOK, BodyApplied
    <3>2. CASE c \notin Appends
      BY <3>2 DEF BodyApplied, Content
    <3>3. QED
      BY <3>1, <3>2
  <2>2. \A t \in Transactions : c \notin snap[t].tail /\ (c \in Transactions => snap[t].base # c)
    BY DEF SnapInv, Known, BodyApplied
  <2>3. QED
    BY <2>1, <2>2
<1>6. DocInv' /\ SnapInv'
  <2>1. \A t \in Transactions : Known(snap[t])'
    BY <1>3 DEF SnapInv, BodyApplied, callVars
  <2>2. \A t \in drifted' : pc'[t] = "recheck" => doc' # snap'[t]
    BY <1>5 DEF TypeOK, BodyApplied, Drift, callVars
  <2>3. \A t \in drifted' : pc'[t] \in {"recheck", "done"} /\ body'[t] = "none"
    BY DEF TypeOK, BodyInv, SnapInv, BodyApplied, Drift, Since, callVars
  <2>4. QED
    BY <1>4, <2>1, <2>2, <2>3 DEF DocInv, SnapInv
<1>7. PermitInv'
  <2>1. \A d \in Call : (Permitted(d)' <=> Permitted(d)) /\ (Admitted(d)' <=> Admitted(d))
    BY DEF BodyApplied, Permitted, Admitted
  <2>2. \A d \in Call : Wrote(d)' <=> Wrote(d)
    BY DEF TypeOK, BodyApplied, Wrote
  <2>3. QED
    BY <2>1, <2>2 DEF TypeOK, PermitInv, BodyApplied, callVars, userVars
<1>8. QED
  BY <1>1, <1>2, <1>6, <1>7

(* The user edits the note. *)
LEMMA UserEditStep ==
  ASSUME IInv, NEW e \in UserEdits, UserEdit(e)
  PROVE  IInv'
<1> USE CallAssumption DEF IInv, Call, Writers, Transactions
<1>1. TypeOK'
  BY DEF TypeOK, UserEdit, Content, Drift, callVars
<1>2. BodyInv'
  BY DEF TypeOK, BodyInv, UserEdit, callVars
<1>3. \A content : Known(content) => Known(content)'
  BY DEF Known, UserEdit
<1>4. Known(doc)'
  BY DEF Known, UserEdit, Content
<1>5. \A t \in Transactions : doc' # snap[t]
  BY DEF SnapInv, Known, UserEdit, Content
<1>6. DocInv' /\ SnapInv'
  <2>1. \A t \in Transactions : Known(snap[t])'
    BY <1>3 DEF SnapInv, UserEdit, callVars
  <2>2. \A t \in drifted' : pc'[t] = "recheck" => doc' # snap'[t]
    BY <1>5 DEF TypeOK, UserEdit, Drift, callVars
  <2>3. \A t \in drifted' : pc'[t] \in {"recheck", "done"} /\ body'[t] = "none"
    BY DEF TypeOK, BodyInv, SnapInv, UserEdit, Drift, Since, callVars
  <2>4. QED
    BY <1>4, <2>1, <2>2, <2>3 DEF DocInv, SnapInv
<1>7. PermitInv'
  <2>1. \A d \in Call : (Permitted(d)' <=> Permitted(d)) /\ (Admitted(d)' <=> Admitted(d))
    BY DEF UserEdit, Permitted, Admitted
  <2>2. \A d \in Call : Wrote(d)' <=> Wrote(d)
    BY DEF UserEdit, Wrote
  <2>3. QED
    BY <2>1, <2>2 DEF TypeOK, PermitInv, UserEdit, callVars
<1>8. QED
  BY <1>1, <1>2, <1>6, <1>7

(* A tag write takes effect. *)
LEMMA TagsAppliedStep ==
  ASSUME IInv, NEW c \in Call, TagsApplied(c)
  PROVE  IInv'
<1> USE CallAssumption DEF IInv, Call, Writers, Transactions
<1>1. TypeOK' /\ BodyInv' /\ DocInv' /\ SnapInv'
  BY DEF TypeOK, BodyInv, DocInv, SnapInv, Known, TagsApplied, callVars, userVars, historyVars
<1>2. PermitInv'
  <2>1. \A d \in Call : (Permitted(d)' <=> Permitted(d)) /\ (Admitted(d)' <=> Admitted(d))
    BY DEF TagsApplied, historyVars, Permitted, Admitted
  <2>2. \A d \in Call : Wrote(d)' <=> Wrote(d)
    BY DEF TypeOK, TagsApplied, Wrote
  <2>3. QED
    BY <2>1, <2>2 DEF TypeOK, PermitInv, TagsApplied, callVars, userVars, historyVars
<1>3. QED
  BY <1>1, <1>2

(* The user publishes a policy. *)
LEMMA PublishStep ==
  ASSUME IInv, NEW p \in PolicyChoices, Publish(p)
  PROVE  IInv'
<1> USE CallAssumption DEF IInv, Call, Writers, Transactions
<1>1. TypeOK'
  BY DEF TypeOK, Publish, hostVars, callVars
<1>2. BodyInv' /\ DocInv' /\ SnapInv'
  BY DEF BodyInv, DocInv, SnapInv, Known, Publish, hostVars, callVars
<1>3. PermitInv'
  <2>1. \A d \in Call : (Permitted(d) => Permitted(d)') /\ (Admitted(d) => Admitted(d)')
    BY DEF TypeOK, Publish, Permitted, Admitted
  <2>2. \A d \in Call : Wrote(d)' <=> Wrote(d)
    BY DEF Publish, Wrote, hostVars
  <2>3. \A d \in Call : pc'[d] \notin {"idle", "done"} => policy' \in inForce'[d]
    BY DEF TypeOK, Publish, callVars
  <2>4. QED
    BY <2>1, <2>2, <2>3 DEF TypeOK, PermitInv, Publish, hostVars, callVars
<1>4. QED
  BY <1>1, <1>2, <1>3

(* The invariant holds in every behaviour. *)
THEOREM Invariance == Spec => []IInv
<1>1. IInv /\ [Next]_vars => IInv'
  <2>1. ASSUME IInv, UNCHANGED vars
        PROVE  IInv'
    BY <2>1
    DEF IInv, TypeOK, BodyInv, DocInv, SnapInv, PermitInv, Permitted, Admitted, Wrote, Known, vars, hostVars,
        callVars, userVars, historyVars
  <2>2. QED
    BY <2>1, CallSteps, BodyAppliedStep, UserEditStep, TagsAppliedStep, PublishStep DEF Next
<1>2. QED
  BY InitInv, <1>1, PTL DEF Spec

(* Every variable of the note tools has its type. *)
THEOREM TypeCorrect == Spec => []TypeOK
  BY Invariance, PTL DEF IInv

(* A transaction whose note changed between snapshot and recheck does not    *)
(* write, for any number of calls and edits (write-transaction.ts:518-528).  *)
THEOREM DriftStops == Spec => []DriftStopsWrite
<1>1. IInv => DriftStopsWrite
  BY DEF IInv, SnapInv, DriftStopsWrite
<1>2. QED
  BY Invariance, <1>1, PTL

(* Every write is admitted by a policy in force during its call, and every   *)
(* one but update_note's permitted by one, however often the policy is       *)
(* replaced (kernel.ts:628, edit-block.ts:420).                              *)
THEOREM EditsArePermitted == Spec => []EditsFollowPolicy
<1>1. IInv => EditsFollowPolicy
  BY DEF IInv, PermitInv, EditsFollowPolicy, Call, Writers, Transactions
<1>2. QED
  BY Invariance, <1>1, PTL

-----------------------------------------------------------------------------
(* What update_note keeps of UpdatesFollowPolicy, which the run update_policy  *)
(* finds violated: its deny check precedes its awaits, and whether it needs    *)
(* confirmation is decided after them (kernel.ts:1541).  So an update whose    *)
(* operation no policy in force permits is unconfirmed, and of the policies in *)
(* force during it one wanted confirmation and one denied; the notebook was    *)
(* admitted by one of them even then.                                          *)
Excused(c) ==
  /\ c \notin Confirmed
  /\ \E p, q \in inForce[c] : p.op = "confirm" /\ q.op = "deny"

UpdatesExplained ==
  \A c \in Updates : Wrote(c) => Admitted(c) /\ (Permitted(c) \/ Excused(c))

(* What a call still knows of the policy it started under, and what follows     *)
(* from its second look at the policy.                                          *)
UpdateInv(c) ==
  /\ pc[c] \in {"context", "tagCheck"} =>
       \/ Permitted(c)
       \/ c \notin Confirmed /\ \E p \in inForce[c] : p.op = "confirm"
  /\ pc[c] = "snapshot" => Permitted(c) \/ (needs[c] /\ c \notin Confirmed) \/ Excused(c)
  /\ pc[c] \in {"recheck"} \cup Since \/ Wrote(c) => Permitted(c) \/ Excused(c)

(* The call's own steps. *)
LEMMA UpdateSteps ==
  ASSUME IInv, NEW c \in Updates, UpdateInv(c), Step(c)
  PROVE  UpdateInv(c)'
<1> USE CallAssumption DEF IInv, Call, Writers, Transactions
<1>1. CASE Invoke(c)
  <2>1. /\ pc[c] = "idle" /\ body[c] = "none" /\ ~Wrote(c)' /\ inForce'[c] = {policy}
        /\ policy \in PolicyChoices
    BY <1>1 DEF TypeOK, BodyInv, PermitInv, UpdateInv, Wrote, Invoke, hostVars, userVars, Since, Before
  <2>2. CASE policy.op = "deny"
    BY <1>1, <2>1, <2>2 DEF TypeOK, UpdateInv, Invoke, Guard, Return, Since
  <2>3. CASE policy.op # "deny"
    <3>1. pc'[c] = "context"
      BY <1>1, <2>3 DEF TypeOK, Invoke, Guard, Goto
    <3>2. \/ Permitted(c)'
          \/ c \notin Confirmed /\ \E p \in inForce'[c] : p.op = "confirm"
      BY <2>1, <2>3 DEF Decision, Permitted
    <3>3. QED
      BY <2>1, <3>1, <3>2 DEF UpdateInv, Since
  <2>4. QED
    BY <2>2, <2>3
<1>2. ASSUME inForce' = inForce
      PROVE  (Permitted(c)' <=> Permitted(c)) /\ (Excused(c)' <=> Excused(c))
  BY <1>2 DEF Permitted, Excused
<1>3. ASSUME UNCHANGED <<body, attrs>>
      PROVE  Wrote(c)' <=> Wrote(c)
  BY <1>3 DEF Wrote
<1>4. CASE ContextRead(c)
  BY <1>2, <1>3, <1>4 DEF TypeOK, BodyInv, UpdateInv, ContextRead, AfterContext, Return, Goto, hostVars,
                          userVars, historyVars, Since, Before
<1>5. CASE TagCheck(c)
  <2>1. /\ pc[c] = "tagCheck" /\ policy \in PolicyChoices /\ policy \in inForce[c]
        /\ UNCHANGED <<policy, inForce>>
    BY <1>5 DEF TypeOK, PermitInv, TagCheck, userVars, historyVars
  <2>2. CASE pc'[c] = "done" /\ UNCHANGED <<body, attrs>>
    BY <1>2, <1>3, <2>1, <2>2 DEF UpdateInv, Since
  <2>3. CASE pc'[c] = "snapshot" /\ needs'[c] = (policy.op = "confirm") /\ UNCHANGED <<body, attrs>>
    <3>1. Permitted(c) \/ (needs'[c] /\ c \notin Confirmed) \/ Excused(c)
      <4>1. CASE policy.op = "allow"
        BY <2>1, <4>1 DEF Permitted, Decision
      <4>2. CASE policy.op = "deny"
        BY <2>1, <4>2 DEF UpdateInv, Excused
      <4>3. CASE policy.op = "confirm"
        BY <2>1, <2>3, <4>3 DEF UpdateInv
      <4>4. QED
        BY <2>1, <4>1, <4>2, <4>3
    <3>2. QED
      BY <1>2, <1>3, <2>1, <2>3, <3>1 DEF UpdateInv, Since
  <2>4. QED
    BY <1>5, <2>2, <2>3 DEF TagCheck, TypeOK, Return, Goto
<1>6. CASE Snapshot(c)
  BY <1>2, <1>3, <1>6 DEF TypeOK, BodyInv, UpdateInv, Snapshot, Return, Goto, hostVars, userVars,
                          historyVars, Since, Before
<1>7. CASE Recheck(c)
  BY <1>2, <1>7 DEF TypeOK, BodyInv, UpdateInv, Recheck, SendBody, Return, Goto, hostVars, userVars,
                    historyVars, Since, Before, Wrote
<1>8. CASE BodyAnswered(c) \/ Readback(c) \/ ReadTags(c) \/ TagsAnswered(c)
  <2>1. pc[c] \in Since /\ pc'[c] \in Since \cup {"done"} /\ UNCHANGED inForce
    BY <1>8 DEF TypeOK, BodyAnswered, Readback, Committed, ReadTags, TagsAnswered, TagsFailed, Return,
                Goto, hostVars, userVars, historyVars, Since
  <2>2. QED
    BY <1>2, <2>1 DEF UpdateInv, Since
<1>9. pc[c] \notin {"contextAllowed", "expected", "references"}
  BY DEF BodyInv
<1>10. QED
  BY <1>1, <1>4, <1>5, <1>6, <1>7, <1>8, <1>9 DEF Step, TakeSlice, ExpectedRead, ReferencesRead

(* The steps of the others, of the host and of the user. *)
LEMMA UpdateOthers ==
  ASSUME NEW c \in Updates, UpdateInv(c), pc'[c] = pc[c], needs'[c] = needs[c],
         Wrote(c)' <=> Wrote(c), inForce[c] \subseteq inForce'[c]
  PROVE  UpdateInv(c)'
<1>1. (Permitted(c) => Permitted(c)') /\ (Excused(c) => Excused(c)')
  BY DEF Permitted, Excused
<1>2. QED
  BY <1>1 DEF UpdateInv

LEMMA UpdateNext ==
  ASSUME IInv, NEW c \in Updates, UpdateInv(c), [Next]_vars
  PROVE  UpdateInv(c)'
<1> USE CallAssumption DEF Call, Writers, Transactions
<1>1. pc \in [Call -> {"idle", "context", "contextAllowed", "expected", "references", "tagCheck",
                      "snapshot", "recheck", "writing", "readback", "readTags", "writingTags", "done"}]
      /\ needs \in [Transactions -> BOOLEAN] /\ body \in [Writers -> {"none", "sent", "applied"}]
      /\ attrs \in [Call -> {"none", "sent", "applied"}] /\ inForce \in [Call -> SUBSET PolicyChoices]
  BY DEF IInv, TypeOK
<1>2. ASSUME NEW d \in Call, d # c, Step(d)
      PROVE  UpdateInv(c)'
  <2>1. pc'[c] = pc[c]
    BY <1>1, <1>2 DEF Step, Invoke, ContextRead, TakeSlice, ExpectedRead, ReferencesRead, TagCheck, Snapshot,
                Recheck, BodyAnswered, Readback, Committed, ReadTags, TagsAnswered, TagsFailed,
                SendBody, Return, Goto
  <2>2. needs'[c] = needs[c]
    BY <1>1, <1>2 DEF Step, Invoke, ContextRead, TakeSlice, ExpectedRead, ReferencesRead, TagCheck, Snapshot,
                Recheck, BodyAnswered, Readback, ReadTags, TagsAnswered
  <2>3. body'[c] = body[c] /\ attrs'[c] = attrs[c]
    BY <1>1, <1>2 DEF Step, Invoke, ContextRead, TakeSlice, ExpectedRead, ReferencesRead, TagCheck, Snapshot,
                Recheck, BodyAnswered, Readback, ReadTags, TagsAnswered, SendBody, hostVars
  <2>4. inForce'[c] = inForce[c]
    BY <1>1, <1>2 DEF Step, Invoke, ContextRead, TakeSlice, ExpectedRead, ReferencesRead, TagCheck, Snapshot,
                Recheck, BodyAnswered, Readback, ReadTags, TagsAnswered, historyVars
  <2>5. QED
    BY <2>1, <2>2, <2>3, <2>4, UpdateOthers DEF Wrote
<1>3. ASSUME UNCHANGED <<pc, needs, inForce>>,
             body'[c] = "none" <=> body[c] = "none", attrs'[c] = "none" <=> attrs[c] = "none"
      PROVE  UpdateInv(c)'
  <2>1. Wrote(c)' <=> Wrote(c)
    BY <1>3 DEF Wrote
  <2>2. QED
    BY <1>3, <2>1, UpdateOthers
<1>4. CASE \E d \in Call : TagsApplied(d)
  BY <1>1, <1>3, <1>4 DEF TagsApplied, callVars, historyVars
<1>5. CASE \E d \in Writers : BodyApplied(d)
  BY <1>1, <1>3, <1>5 DEF BodyApplied, callVars
<1>6. CASE \E e \in UserEdits : UserEdit(e)
  BY <1>3, <1>6 DEF UserEdit, callVars
<1>7. CASE \E p \in PolicyChoices : Publish(p)
  <2>1. inForce[c] \subseteq inForce'[c] /\ UNCHANGED <<pc, needs, body, attrs>>
    BY <1>1, <1>7 DEF Publish, callVars, hostVars
  <2>2. QED
    BY <2>1, UpdateOthers DEF Wrote
<1>8. CASE UNCHANGED vars
  BY <1>3, <1>8 DEF vars, callVars, hostVars, userVars, historyVars
<1>9. QED
  BY <1>2, <1>4, <1>5, <1>6, <1>7, <1>8, UpdateSteps DEF Next

(* An update outside every policy in force is written only unconfirmed, and      *)
(* only when a policy that wants confirmation and one that denies were in force  *)
(* during it; its notebook was inside the boundary of one of them.               *)
THEOREM UpdatesDepartForCause == Spec => []UpdatesExplained
<1> DEFINE UInv == \A c \in Updates : UpdateInv(c)
<1>1. Init => UInv
  BY CallAssumption DEF Init, UpdateInv, Wrote, Since, Call, Writers, Transactions
<1>2. IInv /\ UInv /\ [Next]_vars => UInv'
  BY UpdateNext
<1>3. IInv /\ UInv => UpdatesExplained
  BY DEF IInv, PermitInv, UpdateInv, UpdatesExplained, Call, Writers, Transactions
<1> HIDE DEF UInv
<1>4. QED
  BY <1>1, <1>2, <1>3, Invariance, PTL DEF Spec

(* Where the user's policies never deny the operation, or never ask for its      *)
(* confirmation, or every update is confirmed, one in force during an update     *)
(* permits its operation, and one, perhaps another, admits its notebook.         *)
THEOREM UpdatesArePermitted ==
  ASSUME \/ \A p \in PolicyChoices : p.op # "deny"
         \/ \A p \in PolicyChoices : p.op # "confirm"
         \/ Updates \subseteq Confirmed
  PROVE  Spec => [](UpdatesFollowPolicy /\ \A c \in Updates : Wrote(c) => Admitted(c))
<1>1. IInv /\ UpdatesExplained => UpdatesFollowPolicy /\ \A c \in Updates : Wrote(c) => Admitted(c)
  <2>1. ASSUME IInv, UpdatesExplained, NEW c \in Updates, Wrote(c)
        PROVE  Permitted(c) /\ Admitted(c)
    <3>1. inForce[c] \subseteq PolicyChoices
      BY <2>1 DEF IInv, TypeOK, Call, Writers, Transactions
    <3>2. ~Excused(c)
      BY <3>1 DEF Excused
    <3>3. QED
      BY <2>1, <3>2 DEF UpdatesExplained
  <2>2. \A c \in Updates : body[c] # "none" => Wrote(c)
    BY DEF Wrote, Writers, Transactions
  <2>3. QED
    BY <2>1, <2>2 DEF UpdatesFollowPolicy
<1>2. QED
  BY Invariance, <1>1, UpdatesDepartForCause, PTL

-----------------------------------------------------------------------------
(* How a call's own step moves it through the promise.                       *)
LEMMA StageOfStep ==
  ASSUME IInv, NEW c \in Writers, Step(c)
  PROVE  \/ Stage(c)' = Stage(c)
         \/ Stage(c) = "pending" /\ Stage(c)' \in {"refused", "executing"}
         \/ Stage(c) = "executing" /\ Stage(c)' = "unknown"
         \/ Stage(c) = "executing" /\ Stage(c)' = "mismatched" /\ c \in Transactions
         \/ /\ Stage(c) = "executing" /\ Stage(c)' = "committed"
            /\ c \in Transactions => body[c] = "applied"
<1> USE CallAssumption DEF IInv, Call, Writers, Transactions
<1>1. pc[c] # "done" => outcome[c] = "none"
  BY DEF BodyInv
<1>2. CASE Invoke(c)
  BY <1>1, <1>2 DEF TypeOK, Stage, Refusals, Invoke, Return, Goto, Guard, Decision
<1>3. CASE ContextRead(c) \/ TakeSlice(c)
  BY <1>1, <1>3 DEF TypeOK, Stage, Refusals, ContextRead, TakeSlice, AfterContext, Return, Goto
<1>4. CASE ExpectedRead(c)
  BY <1>1, <1>4 DEF TypeOK, Stage, Refusals, ExpectedRead, Return, Goto
<1>5. CASE ReferencesRead(c)
  BY <1>1, <1>5 DEF TypeOK, Stage, Refusals, ReferencesRead, Return, Goto
<1>6. CASE TagCheck(c)
  BY <1>1, <1>6 DEF TypeOK, Stage, Refusals, TagCheck, Return, Goto, SendBody
<1>7. CASE Snapshot(c)
  BY <1>1, <1>7 DEF TypeOK, Stage, Refusals, Snapshot, Return, Goto
<1>8. CASE Recheck(c)
  BY <1>1, <1>8 DEF TypeOK, Stage, Refusals, Recheck, Return, Goto, SendBody
<1>9. CASE BodyAnswered(c)
  <2>1. CASE c \in Transactions
    BY <1>1, <1>9, <2>1 DEF TypeOK, Stage, Refusals, BodyAnswered, Return, Goto
  <2>2. CASE c \notin Transactions
    BY <1>1, <1>9, <2>2 DEF TypeOK, Stage, Refusals, BodyAnswered, Return, Goto
  <2>3. QED
    BY <2>1, <2>2
<1>10. CASE Readback(c)
  <2>1. c \in Transactions
    BY <1>10 DEF BodyInv, Readback
  <2>2. ReadsBack(c) => body[c] = "applied"
    BY <2>1 DEF DocInv, Known, ReadsBack, Content
  <2>3. QED
    BY <1>1, <1>10, <2>1, <2>2 DEF TypeOK, Stage, Refusals, Readback, Committed, Return, Goto
<1>11. CASE ReadTags(c)
  BY <1>1, <1>11 DEF TypeOK, Stage, Refusals, ReadTags, TagsFailed, Return, Goto
<1>12. CASE TagsAnswered(c)
  BY <1>1, <1>12 DEF TypeOK, Stage, Refusals, TagsAnswered, TagsFailed, Return
<1>13. QED
  BY <1>2, <1>3, <1>4, <1>5, <1>6, <1>7, <1>8, <1>9, <1>10, <1>11, <1>12 DEF Step

Stages == [w \in Writers |-> Stage(w)]
Written == {w \in Writers : body[w] = "applied"}

(* A step that leaves calls and body writes alone is a stutter of the promise. *)
LEMMA PromiseStutters ==
  ASSUME UNCHANGED <<pc, outcome, body>>
  PROVE  UNCHANGED <<Stages, Written>>
BY DEF Stages, Written, Stage

(* A step of one call leaves the others where they are and applies no write. *)
LEMMA OthersKeepStage ==
  ASSUME IInv, NEW c \in Call, Step(c)
  PROVE  /\ \A w \in Writers \ {c} : Stage(w)' = Stage(w)
         /\ Written' = Written
<1> USE CallAssumption DEF IInv, Call, Writers, Transactions
<1>1. \A w \in Writers \ {c} : pc'[w] = pc[w] /\ outcome'[w] = outcome[w]
  BY DEF TypeOK, Step, Invoke, ContextRead, TakeSlice, ExpectedRead, ReferencesRead, TagCheck, Snapshot, Recheck,
         BodyAnswered, Readback, ReadTags, TagsAnswered, Return, Goto, SendBody, Committed, TagsFailed
<1>2. \/ UNCHANGED body
      \/ c \in Writers /\ body[c] = "none" /\ body' = [body EXCEPT ![c] = "sent"]
  BY DEF BodyInv, Before, Since, Step, Invoke, ContextRead, TakeSlice, ExpectedRead, ReferencesRead, TagCheck, Snapshot,
         Recheck, BodyAnswered, Readback, ReadTags, TagsAnswered, SendBody, hostVars
<1>3. Written' = Written
  BY <1>2 DEF TypeOK, Written
<1>4. QED
  BY <1>1, <1>3 DEF Stage

(* Every step of the tools is a step of the promise, or a stutter. *)
LEMMA PromiseStep ==
  ASSUME IInv, [Next]_vars
  PROVE  [Promise!Next]_<<Stages, Written>>
<1> USE DEF IInv
<1>1. ASSUME NEW c \in Call, Step(c)
      PROVE  [Promise!Next]_<<Stages, Written>>
  <2>1. Written' = Written /\ \A w \in Writers \ {c} : Stage(w)' = Stage(w)
    BY <1>1, OthersKeepStage
  <2>2. CASE c \notin Writers \/ Stage(c)' = Stage(c)
    BY <2>1, <2>2 DEF Stages
  <2>3. CASE c \in Writers /\ Stage(c)' # Stage(c)
    <3>1. ASSUME NEW from, NEW to, Stage(c) = from, Stage(c)' = to
          PROVE  Promise!Move(c, from, to)
      <4>1. \A w \in Writers : Stage(w)' = IF w = c THEN to ELSE Stage(w)
        BY <2>1, <3>1
      <4>2. Stages' = [w \in Writers |-> IF w = c THEN to ELSE Stage(w)]
        BY <4>1, Zenon DEF Stages
      <4>3. Stages' = [Stages EXCEPT ![c] = to] /\ Stages[c] = from
        BY <2>3, <3>1, <4>2, Zenon DEF Stages
      <4>4. QED
        BY <2>1, <4>3 DEF Promise!Move, Stages, Written
    <3>2. \/ Promise!Refuse(c) \/ Promise!Execute(c) \/ Promise!GiveUp(c) \/ Promise!Reject(c)
          \/ Promise!Commit(c)
      BY <1>1, <2>3, <3>1, StageOfStep
      DEF Promise!Refuse, Promise!Execute, Promise!GiveUp, Promise!Reject, Promise!Commit
    <3>3. QED
      BY <2>3, <3>2 DEF Promise!Next
  <2>4. QED
    BY <2>2, <2>3
<1>2. ASSUME NEW c \in Writers, BodyApplied(c)
      PROVE  [Promise!Next]_<<Stages, Written>>
  <2>1. UNCHANGED Stages
    BY <1>2 DEF Stages, Stage, BodyApplied, callVars
  <2>2. Written' = Written \cup {c} /\ c \notin Written
    BY <1>2 DEF TypeOK, Written, BodyApplied
  <2>3. Stage(c) \notin {"pending", "refused"}
    BY <1>2 DEF TypeOK, BodyInv, Stage, Since, Refusals, Outcomes, BodyApplied, Call, Writers
  <2>4. Promise!Apply(c)
    BY <2>1, <2>2, <2>3 DEF Promise!Apply, Stages, Written
  <2>5. QED
    BY <2>4 DEF Promise!Next
<1>3. ASSUME UNCHANGED <<pc, outcome, body>>
      PROVE  [Promise!Next]_<<Stages, Written>>
  BY <1>3, PromiseStutters
<1>4. ASSUME NEW c \in Call, TagsApplied(c)
      PROVE  UNCHANGED <<pc, outcome, body>>
  BY <1>4 DEF TagsApplied, callVars
<1>5. ASSUME NEW e \in UserEdits, UserEdit(e)
      PROVE  UNCHANGED <<pc, outcome, body>>
  BY <1>5 DEF UserEdit, callVars
<1>6. ASSUME NEW p \in PolicyChoices, Publish(p)
      PROVE  UNCHANGED <<pc, outcome, body>>
  BY <1>6 DEF Publish, hostVars, callVars
<1>7. CASE UNCHANGED vars
  BY <1>7, <1>3 DEF vars, hostVars, callVars
<1>8. QED
  BY <1>1, <1>2, <1>3, <1>4, <1>5, <1>6, <1>7 DEF Next

(* The write tools keep the promise of SafeWrite, for any calls, edits and   *)
(* policies: a refusal wrote nothing and never will, a committed transaction *)
(* was on the note, and no body is written twice (README.md:132).            *)
THEOREM ImplementsPromise == Spec => ImplementsSafeWrite
<1>1. Init => Promise!Init
  BY CallAssumption DEF Init, Promise!Init, Stage, Refusals, Call, Writers
<1>2. IInv /\ [Next]_vars
        => [Promise!Next]_<<[c \in Writers |-> Stage(c)], {c \in Writers : body[c] = "applied"}>>
  BY PromiseStep DEF Stages, Written
<1>3. QED
  BY <1>1, <1>2, Invariance, PTL DEF Spec, ImplementsSafeWrite, Promise!Spec
=============================================================================
