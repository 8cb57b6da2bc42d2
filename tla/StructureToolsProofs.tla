------------------------ MODULE StructureToolsProofs ------------------------
(***************************************************************************)
(* Proofs about rename_note, move_note and delete_note, for every set of   *)
(* documents, trees, calls, requests and policies.                         *)
(*                                                                         *)
(* The argument: a token is consumed in one step, so it has one user       *)
(* (TokenInv), and its preview has ended, so what it saw stays what it is. *)
(* Where a call is tells whether its write is out (WriteInv), and what the *)
(* checks before it found in the policies in force since the call began    *)
(* (PermitInv): a policy that is published meanwhile joins them.  A        *)
(* preview is never of a place where the document already is (PlaceInv),   *)
(* for which the tree must stay in order under moves; so what a            *)
(* verification finds at the target came there after the token was         *)
(* consumed, however late the index (ReachInv).                            *)
(***************************************************************************)
EXTENDS StructureTools, SequenceTheorems, TLAPS

Stages == {"idle", "source", "notebook", "parent", "collision", "count",
           "writing", "polling", "pausing", "done"}

Checking == {"source", "notebook", "parent", "collision"}
Acting == {"writing", "polling", "pausing"}

(* The types of the variables that control the calls. *)
ControlOK ==
  /\ pc \in [Call -> Stages]
  /\ token \in [Previews -> {"unissued", "open", "spent", "expired"}]
  /\ uses \in [Executions -> Previews \cup {NoCall}]
  /\ write \in [Executions \cup Deletes -> {"none", "sent", "applied"}]
  /\ outcome \in [Call -> Refusals \cup {"none", "ok", "outcome_unknown", "verification_failed"}]
  /\ DOMAIN seen = Previews /\ DOMAIN above = Previews /\ DOMAIN inForce = Call

(* A token was issued by a preview that has ended, and is spent by one call. *)
TokenInv ==
  /\ \A p \in Previews : token[p] # "unissued" => pc[p] = "done"
  /\ \A c \in Executions :
       /\ pc[c] \in Checking \cup Acting => uses[c] # NoCall
       /\ uses[c] # NoCall => pc[c] # "idle" /\ token[uses[c]] = "spent"
  /\ \A c, e \in Executions : uses[c] = uses[e] /\ uses[c] # NoCall => c = e

WriteInv ==
  /\ \A c \in Executions :
       /\ outcome[c] = "none" <=> pc[c] # "done"
       /\ pc[c] # "count"
       /\ IF write[c] = "none"
          THEN pc[c] \in {"idle"} \cup Checking \/ (pc[c] = "done" /\ outcome[c] \in Refusals)
          ELSE /\ uses[c] # NoCall
               /\ pc[c] \in Acting \/ (pc[c] = "done" /\ outcome[c] \notin Refusals)
  /\ \A c \in Deletes :
       /\ pc[c] \in {"idle", "source", "writing", "done"}
       /\ write[c] # "none" => pc[c] \in {"writing", "done"}

(* What each call has found in the policies in force since it began. *)
PermitInv ==
  /\ \A c \in Call : pc[c] \notin {"idle", "done"} => policy \in inForce[c]
  /\ \A c \in Executions :
       LET p == uses[c] IN
       /\ pc[c] \in Checking \/ write[c] # "none" =>
            /\ \E q \in inForce[c] : Decision(Operation(q, p), c) = "allowed"
            /\ Crosses(p) => \E q \in inForce[c] : Decision(q.cross, c) = "allowed"
       /\ pc[c] \in {"notebook", "parent", "collision"} \/ write[c] # "none" =>
            \E q \in inForce[c] : seen[p].box \in q.allowed
       /\ pc[c] \in {"parent", "collision"} \/ write[c] # "none" =>
            \E q \in inForce[c] : TargetBox(p) \in q.allowed
  /\ \A c \in Deletes : pc[c] = "source" \/ write[c] # "none" =>
       c \in Confirmed /\ \E q \in inForce[c] : Decision(q.delete, c) = "allowed"

CInv == ControlOK /\ TokenInv /\ WriteInv /\ PermitInv

(* The initial state satisfies the invariant. *)
LEMMA InitControl == Init => CInv
  BY StructureAssumption
  DEF Init, CInv, ControlOK, TokenInv, WriteInv, PermitInv, Refusals, Stages, Checking, Acting, Call

(* A preview's own step, and the end of its token. *)
LEMMA PreviewSteps ==
  ASSUME CInv, NEW p \in Previews, PreviewStep(p)
  PROVE  CInv'
<1> USE StructureAssumption DEF CInv, Call
<1>1. ControlOK'
  <2>1. CASE StartPreview(p)
    BY <2>1 DEF ControlOK, StartPreview, Starts, Return, Goto, Refusals, Stages, treeVars, previewVars
  <2>2. CASE PreviewSource(p)
    BY <2>2 DEF ControlOK, PreviewSource, Reads, Return, Goto, Refusals, Stages, policyVars
  <2>3. CASE PreviewNotebook(p)
    BY <2>3 DEF ControlOK, PreviewNotebook, Place, Return, Goto, Refusals, Stages, policyVars, previewVars
  <2>4. CASE PreviewParent(p)
    BY <2>4 DEF ControlOK, PreviewParent, Place, Reads, Return, Goto, Refusals, Stages, policyVars
  <2>5. CASE PreviewCollision(p)
    BY <2>5 DEF ControlOK, PreviewCollision, Return, Goto, Refusals, Stages, policyVars, previewVars
  <2>6. CASE PreviewSaved(p)
    BY <2>6 DEF ControlOK, PreviewSaved, Return, Refusals, Stages, policyVars
  <2>7. CASE Expire(p)
    BY <2>7 DEF ControlOK, Expire, policyVars
  <2>8. QED
    BY <2>1, <2>2, <2>3, <2>4, <2>5, <2>6, <2>7 DEF PreviewStep
<1>2. /\ UNCHANGED <<policy, request, uses, write>>
      /\ \A c \in Executions \cup Deletes :
           pc'[c] = pc[c] /\ outcome'[c] = outcome[c] /\ inForce'[c] = inForce[c]
      /\ \A q \in Previews :
           /\ q # p => pc'[q] = pc[q] /\ token'[q] = token[q] /\ inForce'[q] = inForce[q]
           /\ token[q] = "spent" => token'[q] = "spent"
           /\ token[q] # "unissued" => seen'[q] = seen[q] /\ above'[q] = above[q]
  BY DEF ControlOK, TokenInv, PreviewStep, StartPreview, PreviewSource, PreviewNotebook, PreviewParent,
         PreviewCollision, PreviewSaved, Expire, Place, Reads, Starts, Return, Goto, policyVars,
         previewVars, treeVars
<1>3. token'[p] # "unissued" => pc'[p] = "done"
  BY DEF ControlOK, TokenInv, PreviewStep, StartPreview, PreviewSource, PreviewNotebook, PreviewParent,
         PreviewCollision, PreviewSaved, Expire, Place, Reads, Return, Goto, previewVars
<1>4. pc'[p] \notin {"idle", "done"} => policy' \in inForce'[p]
  BY <1>2 DEF ControlOK, PermitInv, PreviewStep, StartPreview, PreviewSource, PreviewNotebook, PreviewParent,
         PreviewCollision, PreviewSaved, Expire, Place, Reads, Starts, Return, Goto, policyVars
<1>5. TokenInv'
  BY <1>1, <1>2, <1>3 DEF ControlOK, TokenInv
<1>6. WriteInv'
  BY <1>2 DEF WriteInv
<1>7. \A c \in Executions : uses[c] # NoCall => seen'[uses[c]] = seen[uses[c]]
  BY <1>2 DEF ControlOK, TokenInv
<1>8. \A c \in Executions : pc[c] \in Checking \/ write[c] # "none" => uses[c] # NoCall
  BY DEF TokenInv, WriteInv
<1>9. PermitInv'
  BY <1>2, <1>4, <1>7, <1>8
  DEF PermitInv, Checking, Decision, Operation, Crosses, TargetBox, IsRename
<1>10. QED
  BY <1>1, <1>5, <1>6, <1>9

(* A step of an execution. *)
LEMMA ExecutionSteps ==
  ASSUME CInv, NEW c \in Executions, ExecutionStep(c)
  PROVE  CInv'
<1> USE StructureAssumption DEF CInv, Call
<1>1. CASE \E p \in Previews : Execute(c, p)
  <2> PICK p \in Previews : Execute(c, p)
    BY <1>1
  <2>1. ExecutionGuard(p, c) \in {"allowed", "operation_denied", "confirmation_required"}
    BY DEF ExecutionGuard, Decision
  <2>2. ControlOK'
    BY <2>1 DEF ControlOK, Execute, Starts, Return, Goto, Refusals, Stages
  <2>3. UNCHANGED <<policy, request, seen, above, write>>
    BY DEF Execute
  <2>4. TokenInv'
    BY <2>1 DEF ControlOK, TokenInv, Execute, Return, Goto, Checking, Acting, Stages
  <2>5. WriteInv'
    BY <2>1, <2>3 DEF ControlOK, WriteInv, Execute, Return, Goto, Checking, Acting, Refusals, Stages
  <2>6. inForce'[c] = {policy} /\ \A x \in Call \ {c} : inForce'[x] = inForce[x] /\ pc'[x] = pc[x]
    BY DEF ControlOK, Execute, Starts, Return, Goto
  <2>7. /\ pc'[c] \in {"done", "source"} /\ write[c] = "none"
        /\ pc'[c] = "source" => uses'[c] = p /\ ExecutionGuard(p, c) = "allowed"
        /\ \A x \in Executions \ {c} : uses'[x] = uses[x]
    BY DEF ControlOK, WriteInv, Execute, Return, Goto, Checking, Acting
  <2>8. ExecutionGuard(p, c) = "allowed" =>
          /\ Decision(Operation(policy, p), c) = "allowed"
          /\ Crosses(p) => Decision(policy.cross, c) = "allowed"
    BY DEF ExecutionGuard
  <2>9. PermitInv'
    BY <2>3, <2>6, <2>7, <2>8
    DEF PermitInv, Decision, Operation, Crosses, TargetBox, IsRename, Checking
  <2>10. QED
    BY <2>2, <2>4, <2>5, <2>9
<1>2. ASSUME \/ ExecuteSource(c) \/ ExecuteNotebook(c) \/ ExecuteParent(c) \/ ExecuteCollision(c)
             \/ WriteAnswered(c) \/ Polled(c) \/ PollTimesOut(c) \/ Wakes(c) \/ DeadlinePasses(c)
      PROVE  CInv'
  <2>1. UNCHANGED <<policy, request, seen, above, inForce, token, uses>>
    BY <1>2 DEF ExecuteSource, ExecuteNotebook, ExecuteParent, ExecuteCollision, WriteAnswered, Polled,
         PollTimesOut, Wakes, DeadlinePasses, policyVars, previewVars
  <2>2. ControlOK'
    BY <1>2, <2>1
    DEF ControlOK, ExecuteSource, ExecuteNotebook, ExecuteParent, ExecuteCollision, WriteAnswered, Polled,
        PollTimesOut, Wakes, DeadlinePasses, Reads, Return, Goto, Refusals, Stages
  <2>3. \A x \in Call \ {c} : pc'[x] = pc[x] /\ outcome'[x] = outcome[x]
    BY <1>2 DEF ControlOK, ExecuteSource, ExecuteNotebook, ExecuteParent, ExecuteCollision, WriteAnswered,
         Polled, PollTimesOut, Wakes, DeadlinePasses, Reads, Return, Goto
  <2>4. \A x \in (Executions \cup Deletes) \ {c} : write'[x] = write[x]
    BY <1>2 DEF ControlOK, ExecuteSource, ExecuteNotebook, ExecuteParent, ExecuteCollision, WriteAnswered,
         Polled, PollTimesOut, Wakes, DeadlinePasses
  <2>5. pc[c] \in Checking \cup Acting
    BY <1>2 DEF ExecuteSource, ExecuteNotebook, ExecuteParent, ExecuteCollision, WriteAnswered,
         Polled, PollTimesOut, Wakes, DeadlinePasses, Checking, Acting
  <2>6. TokenInv'
    BY <2>1, <2>2, <2>3, <2>5, <1>2
    DEF ControlOK, TokenInv, Checking, Acting, Stages, ExecuteSource, ExecuteNotebook, ExecuteParent,
        ExecuteCollision, WriteAnswered, Polled, PollTimesOut, Wakes, DeadlinePasses, Reads, Return, Goto
  <2>7. uses[c] # NoCall
    BY <2>5 DEF TokenInv
  <2>8. WriteInv'
    BY <2>1, <2>3, <2>4, <2>7, <1>2
    DEF ControlOK, WriteInv, Checking, Acting, Refusals, ExecuteSource, ExecuteNotebook, ExecuteParent,
        ExecuteCollision, WriteAnswered, Polled, PollTimesOut, Wakes, DeadlinePasses, Reads, Return, Goto
  <2>9. policy \in inForce[c]
    BY <2>5 DEF PermitInv, Checking, Acting
  <2>10. write'[c] = "none" \/ write[c] # "none" \/ pc[c] = "collision"
    BY <1>2 DEF ControlOK, ExecuteSource, ExecuteNotebook, ExecuteParent, ExecuteCollision, WriteAnswered,
         Polled, PollTimesOut, Wakes, DeadlinePasses
  <2>11. pc'[c] \in Checking => pc[c] \in Checking
    BY <1>2 DEF ControlOK, Checking, ExecuteSource, ExecuteNotebook, ExecuteParent, ExecuteCollision,
         WriteAnswered, Polled, PollTimesOut, Wakes, DeadlinePasses, Reads, Return, Goto
  <2>12. pc'[c] \in {"notebook", "parent", "collision"} =>
           \/ pc[c] \in {"notebook", "parent", "collision"}
           \/ pc[c] = "source" /\ seen[uses[c]].box \in policy.allowed
    BY <1>2 DEF ControlOK, ExecuteSource, ExecuteNotebook, ExecuteParent, ExecuteCollision, WriteAnswered,
         Polled, PollTimesOut, Wakes, DeadlinePasses, Reads, Return, Goto, Readable
  <2>13. pc'[c] \in {"parent", "collision"} =>
           \/ pc[c] \in {"parent", "collision"}
           \/ TargetBox(uses[c]) \in policy.allowed
    BY <1>2 DEF ControlOK, TargetBox, ExecuteSource, ExecuteNotebook, ExecuteParent, ExecuteCollision,
         WriteAnswered, Polled, PollTimesOut, Wakes, DeadlinePasses, Reads, Return, Goto, Readable
  <2>14. PermitInv'
    <3>1. \A x \in Call : pc'[x] \notin {"idle", "done"} => policy' \in inForce'[x]
      BY <2>1, <2>3, <2>9 DEF PermitInv
    <3>2. \A x \in Deletes : pc'[x] = "source" \/ write'[x] # "none" =>
            x \in Confirmed /\ \E q \in inForce'[x] : Decision(q.delete, x) = "allowed"
      BY <2>1, <2>3, <2>4 DEF PermitInv
    <3>3. \A x \in Executions :
            /\ UNCHANGED <<Crosses(uses[x]), TargetBox(uses[x]), seen[uses[x]].box>>
            /\ \A q : UNCHANGED Operation(q, uses[x])
      BY <2>1 DEF Crosses, TargetBox, IsRename, Operation
    <3>4. \A x \in Executions \ {c} : UNCHANGED <<pc[x], write[x], uses[x], inForce[x]>>
      BY <2>1, <2>3, <2>4
    <3>5. pc'[c] \in Checking \/ write'[c] # "none" => pc[c] \in Checking \/ write[c] # "none"
      BY <2>10, <2>11 DEF Checking
    <3>6. QED
      BY <2>1, <2>9, <2>10, <2>12, <2>13, <3>1, <3>2, <3>3, <3>4, <3>5
      DEF PermitInv, Crosses, TargetBox, IsRename, Operation
  <2>15. QED
    BY <2>2, <2>6, <2>8, <2>14
<1>3. QED
  BY <1>1, <1>2 DEF ExecutionStep

(* A step of a delete. *)
LEMMA DeleteSteps ==
  ASSUME CInv, NEW c \in Deletes, DeleteStep(c)
  PROVE  CInv'
<1> USE StructureAssumption DEF CInv, Call
<1>1. UNCHANGED <<policy, request, seen, above, token, uses>>
  BY DEF DeleteStep, StartDelete, DeleteReads, DeleteAnswered, policyVars, previewVars
<1>2. Decision(policy.delete, c) \in {"allowed", "operation_denied", "confirmation_required"}
  BY DEF Decision
<1>3. ControlOK'
  BY <1>1, <1>2
  DEF ControlOK, DeleteStep, StartDelete, DeleteReads, DeleteAnswered, Reads, Starts, Return, Goto,
      Refusals, Stages, policyVars
<1>4. \A x \in Call \ {c} :
        /\ pc'[x] = pc[x] /\ outcome'[x] = outcome[x] /\ inForce'[x] = inForce[x]
        /\ x \in Executions \cup Deletes => write'[x] = write[x]
  BY DEF ControlOK, DeleteStep, StartDelete, DeleteReads, DeleteAnswered, Reads, Starts, Return, Goto, policyVars
<1>5. TokenInv'
  BY <1>1, <1>4 DEF TokenInv
<1>6. WriteInv'
  BY <1>1, <1>4
  DEF ControlOK, WriteInv, DeleteStep, StartDelete, DeleteReads, DeleteAnswered, Reads, Return, Goto
<1>7. PermitInv'
  <2>1. pc'[c] \notin {"idle", "done"} => policy' \in inForce'[c]
    BY <1>1 DEF ControlOK, PermitInv, DeleteStep, StartDelete, DeleteReads, DeleteAnswered, Reads, Starts,
         Return, Goto, policyVars
  <2>2. pc'[c] = "source" \/ write'[c] # "none" =>
          c \in Confirmed /\ \E q \in inForce'[c] : Decision(q.delete, c) = "allowed"
    BY <1>1 DEF ControlOK, PermitInv, WriteInv, DeleteStep, StartDelete, DeleteReads, DeleteAnswered, Reads,
         Starts, Return, Goto, policyVars
  <2>3. QED
    BY <1>1, <1>4, <2>1, <2>2 DEF PermitInv, Crosses, TargetBox, IsRename, Operation, Decision
<1>8. QED
  BY <1>3, <1>5, <1>6, <1>7

(* SiYuan carries out a write, brings its index up to date; the user        *)
(* changes the tree.                                                        *)
LEMMA HostSteps ==
  ASSUME CInv,
         \/ \E c \in Executions \cup Deletes : WriteApplied(c)
         \/ \E d \in Doc : Reindex(d) \/ UserChange(d)
  PROVE  CInv'
<1> USE StructureAssumption DEF CInv, Call
<1>1. UNCHANGED <<policy, pc, request, seen, above, token, uses, outcome, inForce>>
  BY DEF WriteApplied, Reindex, UserChange, policyVars, previewVars
<1>2. /\ write' \in [Executions \cup Deletes -> {"none", "sent", "applied"}]
      /\ \A c \in Executions \cup Deletes : write'[c] = "none" <=> write[c] = "none"
  <2>1. \/ UNCHANGED write
        \/ \E c \in Executions \cup Deletes : write[c] = "sent" /\ write' = [write EXCEPT ![c] = "applied"]
    BY DEF WriteApplied, Reindex, UserChange
  <2>2. QED
    BY <2>1 DEF ControlOK
<1>3. ControlOK' /\ TokenInv' /\ WriteInv'
  BY <1>1, <1>2 DEF ControlOK, TokenInv, WriteInv
<1>4. PermitInv'
  BY <1>1, <1>2 DEF PermitInv, Crosses, TargetBox, IsRename, Operation, Decision
<1>5. QED
  BY <1>3, <1>4

(* The user publishes a policy: it joins those in force during each call.   *)
LEMMA PublishStep ==
  ASSUME CInv, NEW q \in PolicyChoices, Publish(q)
  PROVE  CInv'
<1> USE StructureAssumption DEF CInv, Call
<1>1. UNCHANGED <<pc, request, seen, above, token, uses, write, outcome>>
  BY DEF Publish, previewVars
<1>2. DOMAIN inForce' = Call /\ \A c \in Call : inForce[c] \subseteq inForce'[c]
  BY DEF ControlOK, Publish
<1>3. \A c \in Call : pc[c] \notin {"idle", "done"} => policy' \in inForce'[c]
  BY DEF ControlOK, Publish
<1>4. ControlOK' /\ TokenInv' /\ WriteInv'
  BY <1>1, <1>2 DEF ControlOK, TokenInv, WriteInv
<1>5. PermitInv'
  BY <1>1, <1>2, <1>3 DEF PermitInv, Crosses, TargetBox, IsRename, Operation, Decision
<1>6. QED
  BY <1>4, <1>5

(* A step that changes nothing. *)
LEMMA StutterStep ==
  ASSUME CInv, UNCHANGED vars
  PROVE  CInv'
BY DEF CInv, ControlOK, TokenInv, WriteInv, PermitInv, Crosses, TargetBox, IsRename, Operation, Decision,
       vars, treeVars, policyVars, previewVars, pollVars

(* The control invariant holds in every behaviour. *)
THEOREM ControlInvariance == Spec => []CInv
<1>1. CInv /\ [Next]_vars => CInv'
  BY PreviewSteps, ExecutionSteps, DeleteSteps, HostSteps, PublishStep, StutterStep DEF Next
<1>2. QED
  BY InitControl, <1>1, PTL DEF Spec

(* A rename, a move or a delete is sent only with permissions that policies  *)
(* in force during the call grant it (kernel.ts, ensureOperation).           *)
THEOREM WritesArePermitted == Spec => []WritesFollowPolicy
<1>1. CInv => WritesFollowPolicy
  BY DEF CInv, PermitInv, WritesFollowPolicy
<1>2. QED
  BY ControlInvariance, <1>1, PTL

(* A rename or a move that is refused has sent no write, and a call that is  *)
(* over sends none (kernel.ts, executeRename and executeMove).               *)
THEOREM RefusalsWriteNothing == Spec => []RefusedUntouched
<1>1. CInv => RefusedUntouched
  BY DEF CInv, WriteInv, RefusedUntouched, Refusals, Acting
<1>2. QED
  BY ControlInvariance, <1>1, PTL

(* The tokens of a state that the promise speaks of. *)
Open == {p \in Previews : token[p] = "open"}
Issued == {p \in Previews : token[p] # "unissued"}
Spenders == {<<c, uses[c]>> : c \in {x \in Executions : uses[x] # NoCall}}
Written == {c \in Executions : write[c] # "none"}

(* Every step is a step of the promise, or a stutter. *)
LEMMA TicketStep ==
  ASSUME CInv, [Next]_vars
  PROVE  [Promise!Next]_<<Open, Issued, Spenders, Written>>
<1> USE StructureAssumption DEF CInv, Call
<1>1. ASSUME UNCHANGED <<token, uses, write>>
      PROVE  UNCHANGED <<Open, Issued, Spenders, Written>>
  BY <1>1 DEF Open, Issued, Spenders, Written
<1>2. ASSUME NEW p \in Previews, PreviewStep(p)
      PROVE  [Promise!Next]_<<Open, Issued, Spenders, Written>>
  <2>1. UNCHANGED <<uses, write>> /\ UNCHANGED <<Spenders, Written>>
    BY <1>2 DEF PreviewStep, StartPreview, PreviewSource, PreviewNotebook, PreviewParent, PreviewCollision,
         PreviewSaved, Expire, Spenders, Written
  <2>2. CASE PreviewSaved(p) /\ token'[p] = "open" /\ token[p] = "unissued"
    <3>1. p \notin Issued /\ Open' = Open \cup {p} /\ Issued' = Issued \cup {p}
      BY <2>2 DEF ControlOK, PreviewSaved, Open, Issued
    <3>2. Promise!Issue(p)
      BY <2>1, <3>1 DEF Promise!Issue, Open, Issued, Spenders, Written
    <3>3. QED
      BY <3>2 DEF Promise!Next
  <2>3. CASE Expire(p)
    <3>1. p \in Open /\ Open' = Open \ {p} /\ Issued' = Issued
      BY <2>3 DEF ControlOK, Expire, Open, Issued
    <3>2. Promise!Lapse(p)
      BY <2>1, <3>1 DEF Promise!Lapse, Open, Issued, Spenders, Written
    <3>3. QED
      BY <3>2 DEF Promise!Next
  <2>4. CASE UNCHANGED token
    BY <2>1, <2>4, <1>1
  <2>5. PreviewSaved(p) => UNCHANGED token \/ (token'[p] = "open" /\ token[p] = "unissued")
    BY DEF ControlOK, TokenInv, PreviewSaved
  <2>6. QED
    BY <1>2, <2>2, <2>3, <2>4, <2>5 DEF PreviewStep, StartPreview, PreviewSource, PreviewNotebook,
         PreviewParent, PreviewCollision, previewVars
<1>3. ASSUME NEW c \in Executions, NEW p \in Previews, Execute(c, p)
      PROVE  [Promise!Next]_<<Open, Issued, Spenders, Written>>
  <2>1. UNCHANGED write /\ UNCHANGED Written
    BY <1>3 DEF Execute, Written
  <2>2. CASE token[p] = "open" /\ token' = [token EXCEPT ![p] = "spent"] /\ uses' = [uses EXCEPT ![c] = p]
    <3>1. uses[c] = NoCall
      BY <1>3 DEF TokenInv, Execute
    <3>2. p \in Open /\ Open' = Open \ {p} /\ Issued' = Issued
      BY <2>2 DEF ControlOK, Open, Issued
    <3>3. Spenders' = Spenders \cup {<<c, p>>} /\ \A s \in Spenders : s[1] # c
      BY <2>2, <3>1 DEF ControlOK, Spenders
    <3>4. Promise!Spend(p, c)
      BY <2>1, <3>2, <3>3 DEF Promise!Spend, Open, Issued, Spenders, Written
    <3>5. QED
      BY <3>4 DEF Promise!Next
  <2>3. CASE UNCHANGED <<token, uses>>
    BY <2>1, <2>3, <1>1
  <2>4. QED
    BY <1>3, <2>2, <2>3 DEF Execute
<1>4. ASSUME NEW c \in Executions, ExecuteCollision(c)
      PROVE  [Promise!Next]_<<Open, Issued, Spenders, Written>>
  <2>1. UNCHANGED <<token, uses>> /\ UNCHANGED <<Open, Issued, Spenders>>
    BY <1>4 DEF ExecuteCollision, previewVars, Open, Issued, Spenders
  <2>2. CASE write' = [write EXCEPT ![c] = "sent"]
    <3>1. c \notin Written /\ Written' = Written \cup {c}
      BY <1>4, <2>2 DEF ControlOK, WriteInv, ExecuteCollision, Acting, Written
    <3>2. uses[c] \in Previews /\ <<c, uses[c]>> \in Spenders
      BY <1>4 DEF ControlOK, TokenInv, ExecuteCollision, Checking, Spenders
    <3>3. Promise!Write(c)
      BY <2>1, <3>1, <3>2 DEF Promise!Write, Open, Issued, Spenders, Written
    <3>4. QED
      BY <3>3 DEF Promise!Next
  <2>3. CASE UNCHANGED write
    BY <2>1, <2>3, <1>1
  <2>4. QED
    BY <1>4, <2>2, <2>3 DEF ExecuteCollision
<1>5. ASSUME NEW c \in Executions, ExecutionStep(c)
      PROVE  [Promise!Next]_<<Open, Issued, Spenders, Written>>
  <2>1. \/ \E p \in Previews : Execute(c, p)
        \/ ExecuteCollision(c)
        \/ UNCHANGED <<token, uses, write>>
    BY <1>5 DEF ExecutionStep, ExecuteSource, ExecuteNotebook, ExecuteParent, WriteAnswered, Polled,
         PollTimesOut, Wakes, DeadlinePasses, previewVars
  <2>2. QED
    BY <2>1, <1>1, <1>3, <1>4
<1>6. ASSUME NEW c \in Deletes, DeleteStep(c)
      PROVE  [Promise!Next]_<<Open, Issued, Spenders, Written>>
  <2>1. UNCHANGED <<token, uses>> /\ \A x \in Executions : write'[x] = write[x]
    BY <1>6 DEF ControlOK, DeleteStep, StartDelete, DeleteReads, DeleteAnswered, previewVars
  <2>2. QED
    BY <2>1 DEF Open, Issued, Spenders, Written
<1>7. ASSUME \/ \E c \in Executions \cup Deletes : WriteApplied(c)
             \/ \E d \in Doc : Reindex(d) \/ UserChange(d)
             \/ \E q \in PolicyChoices : Publish(q)
             \/ UNCHANGED vars
      PROVE  [Promise!Next]_<<Open, Issued, Spenders, Written>>
  <2>1. UNCHANGED <<token, uses>>
    BY <1>7 DEF WriteApplied, Reindex, UserChange, Publish, vars, previewVars
  <2>2. \A x \in Executions : write'[x] = "none" <=> write[x] = "none"
    BY <1>7 DEF ControlOK, WriteApplied, Reindex, UserChange, Publish, vars
  <2>3. QED
    BY <2>1, <2>2 DEF Open, Issued, Spenders, Written
<1>8. QED
  BY <1>2, <1>5, <1>6, <1>7 DEF Next

(* The preview tokens keep the promise of OneTimeTickets, for any number of  *)
(* calls (kernel.ts, takeStructurePreview: a token is deleted when taken).   *)
THEOREM TokensAreTickets == Spec => ImplementsTickets
<1>1. Init => Promise!Init
  BY StructureAssumption DEF Init, Promise!Init, Call
<1>2. CInv /\ [Next]_vars
        => [Promise!Next]_<<{p \in Previews : token[p] = "open"},
                            {p \in Previews : token[p] # "unissued"},
                            {<<c, uses[c]>> : c \in {x \in Executions : uses[x] # NoCall}},
                            {c \in Executions : write[c] # "none"}>>
  BY TicketStep DEF Open, Issued, Spenders, Written
<1>3. QED
  BY <1>1, <1>2, ControlInvariance, PTL DEF Spec, ImplementsTickets, Promise!Spec, Promise!vars

-----------------------------------------------------------------------------
(* The tree. *)

(* The row of a document of a well-typed tree is well typed. *)
LEMMA RowTyped ==
  ASSUME NEW t \in [Doc -> NodeType], NEW d \in Doc
  PROVE  Row(t, d) \in RowType /\ Row(t, d).path = t[d].path
<1>1. t[d].path \in Seq(Doc) /\ DOMAIN t[d].path = 1..Len(t[d].path) /\ Len(t[d].path) \in Nat
  BY DEF NodeType
<1>2. \A i \in 1..Len(t[d].path) : t[t[d].path[i]].title \in STRING
  BY <1>1 DEF NodeType
<1>3. [i \in DOMAIN t[d].path |-> t[t[d].path[i]].title] \in Seq(STRING)
  BY <1>1, <1>2
<1>4. QED
  BY <1>1, <1>3 DEF Row, RowType, NodeType

(* A document on the path of another is in its place. *)
LEMMA UpperNode ==
  ASSUME NEW t \in [Doc -> NodeType], Rooted(t), NEW d \in Doc, NEW i \in 1..Len(t[d].path)
  PROVE  /\ t[d].path[i] \in Doc
         /\ t[t[d].path[i]].path \in Seq(Doc)
         /\ Len(t[t[d].path[i]].path) = i
         /\ \A j \in 1..i : t[t[d].path[i]].path[j] = t[d].path[j]
<1>1. t[d].path \in Seq(Doc) /\ DOMAIN t[d].path = 1..Len(t[d].path)
  BY DEF NodeType
<1>2. t[d].path[i] \in Doc
  BY <1>1
<1>3. QED
  BY <1>1, <1>2 DEF Rooted, NodeType

(* What lies below a document has that document where it ends its own path. *)
LEMMA InSubtreeAt ==
  ASSUME NEW t \in [Doc -> NodeType], Rooted(t), NEW d \in Doc, NEW x \in Doc
  PROVE  x \in InSubtree(t, d) <=>
           /\ Len(t[d].path) \in 1..Len(t[x].path)
           /\ t[x].path[Len(t[d].path)] = d
<1>1. t[x].path \in Seq(Doc) /\ DOMAIN t[x].path = 1..Len(t[x].path)
  BY DEF NodeType
<1>2. \A i \in 1..Len(t[x].path) : t[x].path[i] = d => Len(t[d].path) = i
  BY UpperNode
<1>3. QED
  BY <1>1, <1>2 DEF InSubtree

(* The documents on a path lie below d from d on, and not before it. *)
LEMMA SubtreeOnPath ==
  ASSUME NEW t \in [Doc -> NodeType], Rooted(t), NEW d \in Doc, NEW x \in Doc,
         NEW i \in 1..Len(t[x].path)
  PROVE  t[x].path[i] \in InSubtree(t, d) <=> x \in InSubtree(t, d) /\ Len(t[d].path) <= i
<1> DEFINE y == t[x].path[i]
           n == Len(t[d].path)
<1>1. y \in Doc /\ Len(t[y].path) = i /\ \A j \in 1..i : t[y].path[j] = t[x].path[j]
  BY UpperNode
<1>2. n \in Nat /\ Len(t[x].path) \in Nat
  BY DEF NodeType
<1>3. y \in InSubtree(t, d) <=> n \in 1..i /\ t[y].path[n] = d
  BY <1>1, InSubtreeAt
<1>4. x \in InSubtree(t, d) <=> n \in 1..Len(t[x].path) /\ t[x].path[n] = d
  BY InSubtreeAt
<1>5. QED
  BY <1>1, <1>2, <1>3, <1>4

(* A change of title or of time keeps the tree in order. *)
LEMMA RetitledRooted ==
  ASSUME NEW t \in [Doc -> NodeType], Rooted(t), NEW u \in [Doc -> NodeType],
         \A x \in Doc : u[x].path = t[x].path
  PROVE  Rooted(u)
<1>1. \A d \in Doc : t[d].path \in Seq(Doc)
  BY DEF NodeType
<1>2. \A d \in Doc : \A i \in DOMAIN t[d].path : t[d].path[i] \in Doc
  BY <1>1
<1>3. \A d \in Doc : \A i \in DOMAIN u[d].path : u[u[d].path[i]].path = t[t[d].path[i]].path
  BY <1>2
<1>4. ASSUME NEW d \in Doc
      PROVE  /\ u[d].path # <<>> => u[d].path[Len(u[d].path)] = d
             /\ \A i \in DOMAIN u[d].path :
                  LET upper == u[u[d].path[i]].path
                  IN  Len(upper) = i /\ \A j \in 1..i : upper[j] = u[d].path[j]
  <2>1. u[d].path = t[d].path
    OBVIOUS
  <2>2. /\ t[d].path # <<>> => t[d].path[Len(t[d].path)] = d
        /\ \A i \in DOMAIN t[d].path :
             Len(t[t[d].path[i]].path) = i /\ \A j \in 1..i : t[t[d].path[i]].path[j] = t[d].path[j]
    BY DEF Rooted
  <2>3. \A i \in DOMAIN u[d].path : u[u[d].path[i]].path = t[t[d].path[i]].path
    BY <1>3
  <2>4. QED
    BY <2>1, <2>2, <2>3
<1>5. QED
  BY <1>4 DEF Rooted

(* The removal of a document and of those below it keeps the tree in order. *)
LEMMA RemovedRooted ==
  ASSUME NEW t \in [Doc -> NodeType], Rooted(t), NEW d \in Doc
  PROVE  Removed(t, d) \in [Doc -> NodeType] /\ Rooted(Removed(t, d))
<1> DEFINE u == Removed(t, d)
<1>1. u \in [Doc -> NodeType]
  <2>1. <<>> \in Seq(Doc)
    OBVIOUS
  <2>2. \A x \in Doc : [t[x] EXCEPT !.path = <<>>] \in NodeType
    BY <2>1 DEF NodeType
  <2>3. QED
    BY <2>2 DEF Removed
<1>2. \A x \in Doc : u[x].path = IF x \in InSubtree(t, d) THEN <<>> ELSE t[x].path
  BY DEF Removed, NodeType
<1> HIDE DEF u
<1>3. ASSUME NEW x \in Doc
      PROVE  /\ u[x].path # <<>> => u[x].path[Len(u[x].path)] = x
             /\ \A i \in DOMAIN u[x].path :
                  LET upper == u[u[x].path[i]].path
                  IN  Len(upper) = i /\ \A j \in 1..i : upper[j] = u[x].path[j]
  <2>1. CASE x \in InSubtree(t, d)
    BY <2>1, <1>2
  <2>2. CASE x \notin InSubtree(t, d)
    <3>1. u[x].path = t[x].path /\ t[x].path \in Seq(Doc) /\ DOMAIN t[x].path = 1..Len(t[x].path)
      BY <1>2, <2>2 DEF NodeType
    <3>2. \A i \in 1..Len(t[x].path) : t[x].path[i] \in Doc /\ t[x].path[i] \notin InSubtree(t, d)
      BY <2>2, SubtreeOnPath, UpperNode
    <3>3. \A i \in 1..Len(t[x].path) : u[u[x].path[i]].path = t[t[x].path[i]].path
      BY <1>2, <3>1, <3>2
    <3>4. QED
      BY <3>1, <3>3 DEF Rooted
  <2>3. QED
    BY <2>1, <2>2
<1>4. QED
  BY <1>1, <1>3 DEF Rooted, u

(* The path that a move gives to a document it takes along: the directory,  *)
(* then the moved document and what is below it.                            *)
LEMMA MovedPath ==
  ASSUME NEW dir \in Seq(Doc), NEW path \in Seq(Doc), NEW n \in 1..Len(path)
  PROVE  LET new == dir \o SubSeq(path, n, Len(path))
         IN  /\ new \in Seq(Doc)
             /\ Len(new) = Len(dir) + Len(path) - n + 1
             /\ \A j \in 1..Len(new) :
                  new[j] = IF j <= Len(dir) THEN dir[j] ELSE path[n + j - Len(dir) - 1]
<1> DEFINE rest == SubSeq(path, n, Len(path))
<1>1. Len(path) \in Nat /\ Len(dir) \in Nat /\ \A i \in n..Len(path) : path[i] \in Doc
  OBVIOUS
<1>2. /\ rest \in Seq(Doc)
      /\ Len(rest) = Len(path) - n + 1
      /\ \A i \in 1..(Len(path) - n + 1) : rest[i] = path[n + i - 1]
  BY <1>1, SubSeqProperties
<1> HIDE DEF rest
<1>3. /\ dir \o rest \in Seq(Doc)
      /\ Len(dir \o rest) = Len(dir) + Len(rest)
      /\ \A j \in 1..(Len(dir) + Len(rest)) :
           (dir \o rest)[j] = IF j <= Len(dir) THEN dir[j] ELSE rest[j - Len(dir)]
  BY <1>2, ConcatProperties
<1>4. ASSUME NEW j \in 1..(Len(dir) + Len(rest)), ~(j <= Len(dir))
      PROVE  (dir \o rest)[j] = path[n + j - Len(dir) - 1]
  <2>1. j - Len(dir) \in 1..(Len(path) - n + 1) /\ n + (j - Len(dir)) - 1 = n + j - Len(dir) - 1
    BY <1>1, <1>2, <1>4
  <2>2. (dir \o rest)[j] = rest[j - Len(dir)]
    BY <1>3, <1>4
  <2>3. QED
    BY <1>2, <2>1, <2>2
<1>5. QED
  BY <1>1, <1>2, <1>3, <1>4 DEF rest

(* A move keeps the tree in order. *)
LEMMA MovedRooted ==
  ASSUME NEW t \in [Doc -> NodeType], Rooted(t), NEW d \in Doc, NEW box \in Notebook,
         NEW parent \in Doc \cup {NoDoc}, CanMove(t, d, parent)
  PROVE  Moved(t, d, box, parent) \in [Doc -> NodeType] /\ Rooted(Moved(t, d, box, parent))
<1> DEFINE u == Moved(t, d, box, parent)
           dir == IF parent = NoDoc THEN <<>> ELSE t[parent].path
           n == Len(t[d].path)
           Sub == InSubtree(t, d)
           m == Len(dir)
<1>1. /\ dir \in Seq(Doc) /\ m \in Nat
      /\ n \in Nat \ {0}
      /\ \A x \in Doc : t[x].path \in Seq(Doc) /\ Len(t[x].path) \in Nat
                        /\ DOMAIN t[x].path = 1..Len(t[x].path)
  BY StructureAssumption DEF CanMove, Exists, NodeType
<1>2. (IF parent = NoDoc THEN box ELSE t[parent].box) \in Notebook
  BY DEF NodeType
<1>3. \A x \in Sub : n \in 1..Len(t[x].path) /\ x \in Doc
  BY InSubtreeAt DEF InSubtree
<1>4. \A x \in Sub : LET new == dir \o SubSeq(t[x].path, n, Len(t[x].path))
                     IN  /\ new \in Seq(Doc)
                         /\ Len(new) = m + Len(t[x].path) - n + 1
                         /\ \A j \in 1..Len(new) :
                              new[j] = IF j <= m THEN dir[j] ELSE t[x].path[n + j - m - 1]
  <2> TAKE x \in Sub
  <2>1. dir \in Seq(Doc) /\ t[x].path \in Seq(Doc) /\ n \in 1..Len(t[x].path)
    BY <1>1, <1>3
  <2> HIDE DEF dir, n
  <2>2. QED
    BY <2>1, MovedPath DEF m
<1>5. \A x \in Doc : /\ x \in Sub => u[x].path = dir \o SubSeq(t[x].path, n, Len(t[x].path))
                     /\ x \notin Sub => u[x] = t[x]
  BY DEF Moved, NodeType
<1>6. u \in [Doc -> NodeType]
  BY <1>2, <1>4 DEF Moved, NodeType
<1>7. \A i \in 1..m : dir[i] \in Doc /\ dir[i] \notin Sub /\ Len(t[dir[i]].path) = i
                      /\ \A j \in 1..i : t[dir[i]].path[j] = dir[j]
  <2>1. CASE parent = NoDoc
    BY <2>1
  <2>2. CASE parent # NoDoc
    <3>1. parent \in Doc /\ parent \notin Sub /\ dir = t[parent].path
      BY <2>2 DEF CanMove
    <3>2. QED
      BY <3>1, SubtreeOnPath, UpperNode
  <2>3. QED
    BY <2>1, <2>2
<1>8. \A x \in Doc : \A i \in 1..Len(t[x].path) :
        /\ t[x].path[i] \in Doc
        /\ t[x].path[i] \in Sub <=> x \in Sub /\ n <= i
        /\ Len(t[t[x].path[i]].path) = i
        /\ \A j \in 1..i : t[t[x].path[i]].path[j] = t[x].path[j]
  BY SubtreeOnPath, UpperNode
<1>9. \A x \in Doc : t[x].path # <<>> => t[x].path[Len(t[x].path)] = x
  BY DEF Rooted
<1> HIDE DEF u, dir, n, Sub, m
<1>10. ASSUME NEW x \in Doc
       PROVE  /\ u[x].path # <<>> => u[x].path[Len(u[x].path)] = x
              /\ \A i \in DOMAIN u[x].path :
                   /\ Len(u[u[x].path[i]].path) = i
                   /\ \A j \in 1..i : u[u[x].path[i]].path[j] = u[x].path[j]
  <2>1. CASE x \notin Sub
    <3>1. \A i \in 1..Len(t[x].path) : u[t[x].path[i]].path = t[t[x].path[i]].path
      BY <1>5, <1>8, <2>1
    <3>2. u[x].path = t[x].path /\ DOMAIN u[x].path = 1..Len(t[x].path)
      BY <1>1, <1>5, <2>1
    <3>3. QED
      BY <1>8, <1>9, <3>1, <3>2
  <2>2. CASE x \in Sub
    <3> DEFINE len == Len(t[x].path)
               new == u[x].path
    <3>1. /\ new \in Seq(Doc) /\ Len(new) = m + len - n + 1 /\ DOMAIN new = 1..Len(new)
          /\ \A j \in 1..Len(new) : new[j] = IF j <= m THEN dir[j] ELSE t[x].path[n + j - m - 1]
      <4>1. new = dir \o SubSeq(t[x].path, n, Len(t[x].path))
        BY <1>5, <2>2
      <4>2. QED
        <5>1. \A new1 : new1 = dir \o SubSeq(t[x].path, n, len) =>
                /\ new1 \in Seq(Doc) /\ Len(new1) = m + len - n + 1
                /\ \A j \in 1..Len(new1) : new1[j] = IF j <= m THEN dir[j] ELSE t[x].path[n + j - m - 1]
          BY <1>4, <2>2
        <5>2. \A s \in Seq(Doc) : DOMAIN s = 1..Len(s)
          OBVIOUS
        <5> HIDE DEF new
        <5>3. QED
          BY <4>1, <5>1, <5>2
    <3>2. len \in Nat /\ n <= len /\ t[x].path[len] = x
      BY <1>1, <1>3, <1>9, <2>2
    <3> HIDE DEF len, new
    <3>3. new[Len(new)] = x
      <4>1. Len(new) \in 1..Len(new) /\ ~(Len(new) <= m) /\ n + Len(new) - m - 1 = len
        BY <1>1, <3>1, <3>2
      <4>2. QED
        BY <3>1, <3>2, <4>1
    <3>4. ASSUME NEW i \in 1..Len(new)
          PROVE  Len(u[new[i]].path) = i /\ \A j \in 1..i : u[new[i]].path[j] = new[j]
      <4>1. i \in Nat /\ \A j \in 1..i : j \in 1..Len(new)
        BY <3>1
      <4>2. CASE i <= m
        <5>1. new[i] = dir[i] /\ i \in 1..m
          BY <3>1, <3>4, <4>1, <4>2
        <5>2. u[new[i]].path = t[dir[i]].path
          BY <1>5, <1>7, <5>1
        <5>3. \A j \in 1..i : new[j] = dir[j]
          BY <1>1, <3>1, <4>1, <4>2
        <5>4. QED
          BY <1>7, <5>1, <5>2, <5>3
      <4>3. CASE ~(i <= m)
        <5> DEFINE k == n + i - m - 1
                   y == t[x].path[k]
        <5>1. new[i] = y /\ k \in 1..len /\ n <= k
          BY <1>1, <3>1, <3>2, <3>4, <4>1, <4>3
        <5>2. y \in Sub /\ y \in Doc /\ Len(t[y].path) = k /\ \A j \in 1..k : t[y].path[j] = t[x].path[j]
          BY <1>8, <2>2, <5>1 DEF len
        <5> HIDE DEF k, y
        <5>3. /\ Len(u[y].path) = m + k - n + 1
              /\ \A j \in 1..Len(u[y].path) :
                   u[y].path[j] = IF j <= m THEN dir[j] ELSE t[y].path[n + j - m - 1]
          BY <1>4, <1>5, <5>2
        <5>4. m + k - n + 1 = i
          BY <1>1, <4>1 DEF k
        <5>5. ASSUME NEW j \in 1..i
              PROVE  u[y].path[j] = new[j]
          <6>1. CASE j <= m
            BY <3>1, <4>1, <5>3, <5>4, <6>1
          <6>2. CASE ~(j <= m)
            <7>1. n + j - m - 1 \in 1..k
              BY <1>1, <4>1, <5>5, <6>2 DEF k
            <7>2. t[y].path[n + j - m - 1] = t[x].path[n + j - m - 1]
              BY <5>2, <7>1
            <7>3. QED
              BY <3>1, <4>1, <5>3, <5>4, <6>2, <7>2
          <6>3. QED
            BY <6>1, <6>2
        <5>6. QED
          BY <5>1, <5>3, <5>4, <5>5
      <4>4. QED
        BY <4>2, <4>3
    <3>5. QED
      BY <3>1, <3>3, <3>4 DEF new
  <2>3. QED
    BY <2>1, <2>2
<1>11. QED
  BY <1>6, <1>10 DEF Rooted, u

-----------------------------------------------------------------------------
(* What the previews saw and what the executions verify. *)

(* A preview is not of a place where the document already is. *)
PlaceInv ==
  /\ Rooted(tree)
  /\ \A d \in Doc : index[d].path # <<>> => index[d].path[Len(index[d].path)] = d
  /\ \A c \in Executions : pc[c] = "pausing" => polls[c] < MaxPolls
  /\ \A p \in Previews :
       /\ pc[p] = "notebook" => ~IsRename(p)
       /\ pc[p] = "parent" => ~IsRename(p) /\ Parent(p) # NoDoc
       /\ Parent(p) = NoDoc => above[p].path = <<>>
       /\ pc[p] \in {"collision", "count"} \/ token[p] # "unissued" => ~AtTarget(p, seen[p])

(* Since the token was consumed: the tree has not shown the target, or it is *)
(* noted; and neither has the index, once the source was read.               *)
ReachInv ==
  \A c \in Executions :
    LET d == request[uses[c]].doc IN
    /\ uses[c] # NoCall /\ AtTarget(uses[c], Row(tree, d)) => c \in reached
    /\ /\ pc[c] \in {"notebook", "parent", "collision"} \cup Acting
       /\ AtTarget(uses[c], index[d])
       => c \in reached
    /\ outcome[c] = "ok" => c \in reached

IInv == CInv /\ TypeOK /\ PlaceInv /\ ReachInv

LEMMA RequestTyped ==
  ASSUME TypeOK, NEW p \in Previews
  PROVE  /\ request[p].doc \in Doc
         /\ Parent(p) \in Doc \cup {NoDoc}
         /\ IsRename(p) => request[p].title \in STRING
         /\ ~IsRename(p) => request[p].box \in Notebook /\ Parent(p) = request[p].parent
BY TreeAssumption DEF TypeOK, Parent, IsRename, Requests

(* The directory of a path, which is the path of a parent. *)
LEMMA Directory ==
  ASSUME NEW path \in Seq(Doc), path # <<>>, NEW upper \in Seq(Doc),
         SubSeq(path, 1, Len(path) - 1) = upper
  PROVE  /\ upper = <<>> => Len(path) = 1
         /\ upper # <<>> => Len(path) > 1 /\ path[Len(path) - 1] = upper[Len(upper)]
<1>1. Len(path) \in Nat \ {0}
  OBVIOUS
<1>2. /\ Len(upper) = Len(path) - 1
      /\ \A i \in 1..(Len(path) - 1) : upper[i] = path[i]
  <2>1. \A i \in 1..(Len(path) - 1) : path[i] \in Doc
    BY <1>1
  <2>2. QED
    BY <1>1, <2>1, SubSeqProperties
<1>3. QED
  BY <1>1, <1>2

(* The initial state satisfies the invariant. *)
LEMMA InitInv == Init => IInv
<1> SUFFICES ASSUME Init PROVE IInv
  OBVIOUS
<1> USE StructureAssumption, TreeAssumption
<1>1. CInv
  BY InitControl
<1>2. tree \in [Doc -> NodeType] /\ Rooted(tree)
  BY DEF Init
<1>3. \A d \in Doc : index[d] \in RowType /\ index[d].path = tree[d].path /\ index[d] = Row(tree, d)
  BY <1>2, RowTyped DEF Init
<1>4. NoRow \in RowType /\ NoRow.path = <<>>
  <2>1. <<>> \in Seq(Doc) /\ <<>> \in Seq(STRING)
    OBVIOUS
  <2>2. "none" \in Notebook \cup {"none"} /\ "none" \in STRING \cup {"none"} /\ 0 \in Nat
    OBVIOUS
  <2>3. NoRow.path = <<>>
    BY DEF NoRow
  <2>4. QED
    BY <2>1, <2>2, <2>3 DEF NoRow, RowType
<1>5. TypeOK
  BY <1>2, <1>3, <1>4 DEF Init, TypeOK, Refusals, Call
<1>6. PlaceInv
  BY <1>2, <1>3, <1>4 DEF Init, PlaceInv, Rooted, Call
<1>7. ReachInv
  BY DEF Init, ReachInv, Acting, Call
<1>8. QED
  BY <1>1, <1>5, <1>6, <1>7 DEF IInv

(* A preview's own steps. *)
LEMMA PreviewTypes ==
  ASSUME IInv, NEW p \in Previews, PreviewStep(p)
  PROVE  TypeOK'
<1> USE StructureAssumption DEF IInv, Call
<1>1. ControlOK'
  BY PreviewSteps DEF CInv
<1>2. UNCHANGED <<tree, index, policy, request, polls, late, acts, published, reached>>
  BY DEF PreviewStep, StartPreview, PreviewSource, PreviewNotebook, PreviewParent, PreviewCollision,
         PreviewSaved, Expire, treeVars, pollVars, policyVars, previewVars
<1>3. seen' \in [Previews -> RowType] /\ above' \in [Previews -> RowType]
  <2>1. request[p].doc \in Doc /\ (pc[p] = "parent" => Parent(p) \in Doc)
    BY RequestTyped DEF PlaceInv
  <2>2. \/ UNCHANGED <<seen, above>>
        \/ UNCHANGED above /\ seen' = [seen EXCEPT ![p] = index[request[p].doc]]
        \/ UNCHANGED seen /\ pc[p] = "parent" /\ above' = [above EXCEPT ![p] = index[Parent(p)]]
    BY DEF PreviewStep, StartPreview, PreviewSource, PreviewNotebook, PreviewParent, PreviewCollision,
           PreviewSaved, Expire, previewVars
  <2>3. QED
    BY <2>1, <2>2 DEF TypeOK
<1>4. inForce' \in [Call -> SUBSET PolicyChoices]
  BY DEF TypeOK, PreviewStep, StartPreview, PreviewSource, PreviewNotebook, PreviewParent, PreviewCollision,
         PreviewSaved, Expire, Starts, policyVars
<1>5. QED
  BY <1>1, <1>2, <1>3, <1>4 DEF TypeOK, ControlOK, Stages

LEMMA PreviewPlaces ==
  ASSUME IInv, NEW p \in Previews, PreviewStep(p)
  PROVE  PlaceInv' /\ ReachInv'
<1> USE StructureAssumption DEF IInv, Call
<1>1. /\ UNCHANGED <<tree, index, request, polls, uses, reached>>
      /\ \A c \in Executions : pc'[c] = pc[c] /\ outcome'[c] = outcome[c]
  BY DEF CInv, ControlOK, PreviewStep, StartPreview, PreviewSource, PreviewNotebook, PreviewParent,
         PreviewCollision, PreviewSaved, Expire, Place, Reads, Return, Goto, treeVars, pollVars, policyVars,
         previewVars
<1>2. /\ \A q \in Previews \ {p} : UNCHANGED <<pc[q], token[q], seen[q], above[q]>>
      /\ token[p] # "unissued" => seen'[p] = seen[p] /\ above'[p] = above[p]
  BY DEF CInv, ControlOK, TokenInv, PreviewStep, StartPreview, PreviewSource, PreviewNotebook, PreviewParent,
         PreviewCollision, PreviewSaved, Expire, Place, Reads, Return, Goto, policyVars, previewVars
<1>3. \A q \in Previews : UNCHANGED <<Parent(q), IsRename(q)>>
  BY <1>1 DEF Parent, IsRename
<1>4. ASSUME NEW q, UNCHANGED <<seen[q], above[q]>>, NEW row
      PROVE  AtTarget(q, row)' <=> AtTarget(q, row)
  BY <1>1, <1>4 DEF AtTarget, TargetBox, TargetHPath, IsRename
<1>5. ASSUME NEW c \in Executions, uses[c] # NoCall
      PROVE  seen'[uses[c]] = seen[uses[c]] /\ above'[uses[c]] = above[uses[c]]
  BY <1>2, <1>5 DEF CInv, ControlOK, TokenInv
<1>6. ReachInv'
  <2> SUFFICES ASSUME NEW c \in Executions, NEW d, d = request[uses[c]].doc
               PROVE  /\ uses[c] # NoCall /\ AtTarget(uses[c], Row(tree, d))' => c \in reached
                      /\ /\ pc[c] \in {"notebook", "parent", "collision"} \cup Acting
                         /\ AtTarget(uses[c], index[d])'
                         => c \in reached
                      /\ outcome[c] = "ok" => c \in reached
    BY <1>1 DEF ReachInv
  <2>1. uses[c] # NoCall => /\ AtTarget(uses[c], Row(tree, d))' <=> AtTarget(uses[c], Row(tree, d))
                            /\ AtTarget(uses[c], index[d])' <=> AtTarget(uses[c], index[d])
    BY <1>1, <1>4, <1>5 DEF Row
  <2>2. pc[c] \in {"notebook", "parent", "collision"} \cup Acting => uses[c] # NoCall
    BY DEF CInv, TokenInv, Checking
  <2>3. QED
    BY <2>1, <2>2 DEF ReachInv
<1>7. \A q \in Previews \ {p} :
        /\ pc'[q] = "notebook" => ~IsRename(q)'
        /\ pc'[q] = "parent" => ~IsRename(q)' /\ Parent(q)' # NoDoc
        /\ Parent(q)' = NoDoc => above'[q].path = <<>>
        /\ pc'[q] \in {"collision", "count"} \/ token'[q] # "unissued" => ~AtTarget(q, seen[q])'
  <2> TAKE q \in Previews \ {p}
  <2>1. UNCHANGED <<pc[q], token[q], seen[q], above[q], Parent(q), IsRename(q)>>
    BY <1>2, <1>3
  <2>2. AtTarget(q, seen[q])' <=> AtTarget(q, seen[q])
    BY <1>1, <2>1 DEF AtTarget, TargetBox, TargetHPath, IsRename
  <2>3. QED
    BY <2>1, <2>2 DEF PlaceInv
<1>8. /\ pc'[p] = "notebook" => ~IsRename(p)'
      /\ pc'[p] = "parent" => ~IsRename(p)' /\ Parent(p)' # NoDoc
      /\ Parent(p)' = NoDoc => above'[p].path = <<>>
  BY <1>1, <1>3 DEF CInv, ControlOK, PlaceInv, PreviewStep, StartPreview, PreviewSource, PreviewNotebook,
     PreviewParent, PreviewCollision, PreviewSaved, Expire, Place, Reads, Return, Goto, previewVars
<1>9. pc'[p] \in {"collision", "count"} \/ token'[p] # "unissued" => ~AtTarget(p, seen[p])'
  <2>1. CASE UNCHANGED <<seen, above>> /\ (pc[p] \in {"collision", "count"} \/ token[p] # "unissued")
    BY <1>1, <2>1 DEF PlaceInv, AtTarget, TargetBox, TargetHPath, IsRename
  <2>2. CASE PreviewSource(p) /\ pc'[p] = "collision"
    <3>1. IsRename(p)' /\ seen'[p].title # request'[p].title
      BY <1>3, <2>2 DEF CInv, ControlOK, PreviewSource, Reads, Return, Goto
    <3>2. QED
      BY <3>1 DEF AtTarget
  <2>3. CASE (PreviewNotebook(p) \/ PreviewParent(p)) /\ pc'[p] = "collision"
    <3>1. ~IsRename(p) /\ ~AlreadyThere(p) /\ UNCHANGED seen
      BY <2>3 DEF CInv, ControlOK, PlaceInv, PreviewNotebook, PreviewParent, Place, Reads, Return, Goto, previewVars
    <3>2. \/ Parent(p) = NoDoc /\ above'[p].path = <<>>
          \/ Parent(p) \in Doc /\ above'[p] = index[Parent(p)] /\ above'[p].path # <<>>
      BY <2>3, RequestTyped DEF CInv, ControlOK, PlaceInv, PreviewNotebook, PreviewParent, Place, Reads, Return,
         Goto, Readable, previewVars
    <3>3. Parent(p) # NoDoc => /\ above'[p].path # <<>>
                               /\ above'[p].path[Len(above'[p].path)] = Parent(p)
      BY <3>2 DEF PlaceInv
    <3>4. seen[p].path \in Seq(Doc) /\ above'[p].path \in Seq(Doc)
      BY PreviewTypes DEF TypeOK, RowType
    <3>5. ASSUME AtTarget(p, seen[p])'
          PROVE  FALSE
      <4>1. /\ seen[p].path # <<>>
            /\ seen[p].box = TargetBox(p)
            /\ SubSeq(seen[p].path, 1, Len(seen[p].path) - 1) = above'[p].path
        BY <1>1, <1>3, <3>1, <3>5 DEF AtTarget, TargetBox, IsRename
      <4>2. /\ above'[p].path = <<>> => Len(seen[p].path) = 1
            /\ above'[p].path # <<>> =>
                 /\ Len(seen[p].path) > 1
                 /\ seen[p].path[Len(seen[p].path) - 1] = above'[p].path[Len(above'[p].path)]
        BY <3>4, <4>1, Directory
      <4>3. QED
        BY <3>1, <3>2, <3>3, <4>1, <4>2 DEF AlreadyThere
    <3>6. QED
      BY <3>5
  <2>4. \/ UNCHANGED <<seen, above>> /\ (pc[p] \in {"collision", "count"} \/ token[p] # "unissued")
        \/ (PreviewSource(p) \/ PreviewNotebook(p) \/ PreviewParent(p)) /\ pc'[p] = "collision"
        \/ pc'[p] \notin {"collision", "count"} /\ token'[p] = "unissued"
    BY DEF CInv, ControlOK, TokenInv, PreviewStep, StartPreview, PreviewSource, PreviewNotebook,
       PreviewParent, PreviewCollision, PreviewSaved, Expire, Place, Reads, Return, Goto, previewVars
  <2>5. QED
    BY <2>1, <2>2, <2>3, <2>4
<1>10. PlaceInv'
  <2>1. Rooted(tree)'
    BY <1>1 DEF PlaceInv, Rooted
  <2>2. QED
    BY <1>1, <1>7, <1>8, <1>9, <2>1 DEF PlaceInv
<1>11. QED
  BY <1>6, <1>10

(* An execution's own steps. *)
LEMMA ExecutionTypes ==
  ASSUME IInv, NEW c \in Executions, ExecutionStep(c)
  PROVE  TypeOK'
<1> USE StructureAssumption DEF IInv, Call
<1>1. ControlOK'
  BY ExecutionSteps DEF CInv
<1>2. UNCHANGED <<tree, index, policy, request, seen, above, acts, published>>
  BY DEF ExecutionStep, Execute, ExecuteSource, ExecuteNotebook, ExecuteParent, ExecuteCollision,
         WriteAnswered, Polled, PollTimesOut, Wakes, DeadlinePasses, treeVars, policyVars, previewVars
<1>3. reached' \subseteq Executions /\ late' \subseteq Executions
  <2>1. reached' = reached \/ reached' = reached \cup {c}
    BY DEF ExecutionStep, Execute, ExecuteSource, ExecuteNotebook, ExecuteParent, ExecuteCollision,
           WriteAnswered, Polled, PollTimesOut, Wakes, DeadlinePasses, treeVars
  <2>2. late' = late \/ late' = late \cup {c}
    BY DEF ExecutionStep, Execute, ExecuteSource, ExecuteNotebook, ExecuteParent, ExecuteCollision,
           WriteAnswered, Polled, PollTimesOut, Wakes, DeadlinePasses, pollVars
  <2>3. QED
    BY <2>1, <2>2 DEF TypeOK
<1>4. inForce' \in [Call -> SUBSET PolicyChoices]
  <2>1. UNCHANGED inForce \/ inForce' = [inForce EXCEPT ![c] = {policy}]
    BY DEF ExecutionStep, Execute, ExecuteSource, ExecuteNotebook, ExecuteParent, ExecuteCollision,
           WriteAnswered, Polled, PollTimesOut, Wakes, DeadlinePasses, Starts, policyVars
  <2>2. QED
    BY <2>1 DEF TypeOK
<1>5. polls' \in [Executions -> 0..MaxPolls]
  <2>1. \/ UNCHANGED polls
        \/ polls' = [polls EXCEPT ![c] = 1]
        \/ polls[c] < MaxPolls /\ polls' = [polls EXCEPT ![c] = @ + 1]
    BY DEF PlaceInv, ExecutionStep, Execute, ExecuteSource, ExecuteNotebook, ExecuteParent, ExecuteCollision,
           WriteAnswered, Polled, PollTimesOut, Wakes, DeadlinePasses, pollVars
  <2>2. QED
    BY <2>1 DEF TypeOK
<1>6. QED
  BY <1>1, <1>2, <1>3, <1>4, <1>5 DEF TypeOK, ControlOK, Stages

LEMMA ExecutionReaches ==
  ASSUME IInv, NEW c \in Executions, ExecutionStep(c)
  PROVE  PlaceInv' /\ ReachInv'
<1> USE StructureAssumption DEF IInv, Call
<1>1. UNCHANGED <<tree, index, request, seen, above>>
  BY DEF ExecutionStep, Execute, ExecuteSource, ExecuteNotebook, ExecuteParent, ExecuteCollision,
         WriteAnswered, Polled, PollTimesOut, Wakes, DeadlinePasses, treeVars, policyVars, previewVars
<1>2. \A x \in Call \ {c} : pc'[x] = pc[x] /\ outcome'[x] = outcome[x]
  BY DEF CInv, ControlOK, ExecutionStep, Execute, ExecuteSource, ExecuteNotebook, ExecuteParent,
         ExecuteCollision, WriteAnswered, Polled, PollTimesOut, Wakes, DeadlinePasses, Reads, Return, Goto
<1>3. /\ \A x \in Executions \ {c} : uses'[x] = uses[x] /\ polls'[x] = polls[x]
      /\ reached \subseteq reached'
      /\ \A p \in Previews : token[p] = "unissued" <=> token'[p] = "unissued"
  <2>1. \A x \in Executions \ {c} : uses'[x] = uses[x] /\ polls'[x] = polls[x]
    BY DEF TypeOK, ExecutionStep, Execute, ExecuteSource, ExecuteNotebook, ExecuteParent, ExecuteCollision,
           WriteAnswered, Polled, PollTimesOut, Wakes, DeadlinePasses, pollVars
  <2>2. reached \subseteq reached'
    BY DEF ExecutionStep, Execute, ExecuteSource, ExecuteNotebook, ExecuteParent, ExecuteCollision,
           WriteAnswered, Polled, PollTimesOut, Wakes, DeadlinePasses, treeVars
  <2>3. \/ UNCHANGED token
        \/ \E p \in Previews : token[p] = "open" /\ token' = [token EXCEPT ![p] = "spent"]
    BY DEF ExecutionStep, Execute, ExecuteSource, ExecuteNotebook, ExecuteParent, ExecuteCollision,
           WriteAnswered, Polled, PollTimesOut, Wakes, DeadlinePasses, previewVars
  <2>4. \A p \in Previews : token[p] = "unissued" <=> token'[p] = "unissued"
    BY <2>3 DEF TypeOK
  <2>5. QED
    BY <2>1, <2>2, <2>4
<1>4. pc'[c] = "pausing" => polls'[c] < MaxPolls
  BY DEF TypeOK, PlaceInv, CInv, ControlOK, ExecutionStep, Execute, ExecuteSource, ExecuteNotebook,
         ExecuteParent, ExecuteCollision, WriteAnswered, Polled, PollTimesOut, Wakes, DeadlinePasses, Reads,
         Return, Goto, pollVars
<1>5. ASSUME NEW p, NEW row
      PROVE  AtTarget(p, row)' <=> AtTarget(p, row)
  BY <1>1 DEF AtTarget, TargetBox, TargetHPath, IsRename
<1>6. PlaceInv'
  <2>1. Rooted(tree)'
    BY <1>1 DEF PlaceInv, Rooted
  <2>2. \A p \in Previews : UNCHANGED <<pc[p], Parent(p), IsRename(p)>>
                            /\ (AtTarget(p, seen[p])' <=> AtTarget(p, seen[p]))
    BY <1>1, <1>2, <1>5 DEF Parent, IsRename
  <2>3. QED
    BY <1>1, <1>2, <1>3, <1>4, <2>1, <2>2 DEF PlaceInv
<1>7. ASSUME NEW x \in Executions \ {c}, NEW d, d = request[uses[x]].doc
      PROVE  /\ uses'[x] # NoCall /\ AtTarget(uses[x], Row(tree, d))' => x \in reached'
             /\ /\ pc'[x] \in {"notebook", "parent", "collision"} \cup Acting
                /\ AtTarget(uses[x], index[d])'
                => x \in reached'
             /\ outcome'[x] = "ok" => x \in reached'
  <2>1. /\ AtTarget(uses[x], Row(tree, d))' <=> AtTarget(uses[x], Row(tree, d))
        /\ AtTarget(uses[x], index[d])' <=> AtTarget(uses[x], index[d])
    BY <1>1, <1>3, <1>5 DEF Row
  <2>2. QED
    BY <1>2, <1>3, <1>7, <2>1 DEF ReachInv
<1>8. ASSUME NEW d, d = request[uses'[c]].doc
      PROVE  /\ uses'[c] # NoCall /\ AtTarget(uses'[c], Row(tree, d)) => c \in reached'
             /\ /\ pc'[c] \in {"notebook", "parent", "collision"} \cup Acting
                /\ AtTarget(uses'[c], index[d])
                => c \in reached'
             /\ outcome'[c] = "ok" => c \in reached'
  <2>1. ASSUME NEW p \in Previews, Execute(c, p)
        PROVE  /\ uses'[c] # NoCall /\ AtTarget(uses'[c], Row(tree, d)) => c \in reached'
               /\ pc'[c] \in {"done", "source"}
               /\ outcome'[c] # "ok"
    <3>1. ExecutionGuard(p, c) \in {"allowed", "operation_denied", "confirmation_required"}
      BY DEF ExecutionGuard, Decision
    <3>2. pc'[c] \in {"done", "source"} /\ outcome'[c] # "ok"
      BY <2>1, <3>1 DEF CInv, ControlOK, WriteInv, Execute, Return, Goto
    <3>3. uses[c] = NoCall
      BY <2>1 DEF CInv, TokenInv, Execute
    <3>4. CASE uses' = [uses EXCEPT ![c] = p]
      <4>1. uses'[c] = p
        BY <3>4 DEF TypeOK
      <4>2. d = request[p].doc
        BY <1>8, <4>1
      <4>3. AtTarget(p, Row(tree, d)) => c \in reached'
        BY <2>1, <3>3, <3>4, <4>1, <4>2 DEF Execute
      <4>4. QED
        BY <3>2, <4>1, <4>3
    <3>5. CASE UNCHANGED uses
      BY <3>2, <3>3, <3>5
    <3>6. QED
      BY <2>1, <3>4, <3>5 DEF Execute
  <2>2. ASSUME \/ ExecuteSource(c) \/ ExecuteNotebook(c) \/ ExecuteParent(c) \/ ExecuteCollision(c)
               \/ WriteAnswered(c) \/ Polled(c) \/ PollTimesOut(c) \/ Wakes(c) \/ DeadlinePasses(c)
        PROVE  /\ uses'[c] # NoCall /\ AtTarget(uses'[c], Row(tree, d)) => c \in reached'
               /\ /\ pc'[c] \in {"notebook", "parent", "collision"} \cup Acting
                  /\ AtTarget(uses'[c], index[d])
                  => c \in reached'
               /\ outcome'[c] = "ok" => c \in reached'
    <3>1. UNCHANGED <<uses, reached>>
      BY <2>2 DEF ExecuteSource, ExecuteNotebook, ExecuteParent, ExecuteCollision, WriteAnswered, Polled,
         PollTimesOut, Wakes, DeadlinePasses, treeVars
    <3>2. uses[c] \in Previews /\ token[uses[c]] = "spent" /\ outcome[c] # "ok"
      BY <2>2 DEF CInv, ControlOK, TokenInv, WriteInv, Checking, Acting, ExecuteSource, ExecuteNotebook,
         ExecuteParent, ExecuteCollision, WriteAnswered, Polled, PollTimesOut, Wakes, DeadlinePasses
    <3>3. ~AtTarget(uses[c], seen[uses[c]])
      BY <3>2 DEF PlaceInv
    <3>4. \/ pc'[c] \notin {"notebook", "parent", "collision"} \cup Acting
          \/ pc[c] \in {"notebook", "parent", "collision"} \cup Acting
          \/ index[d] = seen[uses[c]]
      BY <1>8, <2>2, <3>1 DEF CInv, ControlOK, Acting, ExecuteSource, ExecuteNotebook, ExecuteParent,
         ExecuteCollision, WriteAnswered, Polled, PollTimesOut, Wakes, DeadlinePasses, Reads, Return, Goto
    <3>5. outcome'[c] = "ok" => pc[c] = "polling" /\ AtTarget(uses[c], index[d])
      BY <1>8, <2>2, <3>1, <3>2 DEF CInv, ControlOK, ExecuteSource, ExecuteNotebook, ExecuteParent,
         ExecuteCollision, WriteAnswered, Polled, PollTimesOut, Wakes, DeadlinePasses, Reads, Return, Goto
    <3>6. QED
      BY <1>8, <3>1, <3>3, <3>4, <3>5 DEF ReachInv, Acting
  <2>3. QED
    BY <2>1, <2>2 DEF ExecutionStep, Acting
<1>9. ReachInv'
  <2> SUFFICES ASSUME NEW x \in Executions, NEW d, d = (request[uses[x]].doc)'
               PROVE  /\ uses'[x] # NoCall /\ AtTarget(uses[x], Row(tree, d))' => x \in reached'
                      /\ /\ pc'[x] \in {"notebook", "parent", "collision"} \cup Acting
                         /\ AtTarget(uses[x], index[d])'
                         => x \in reached'
                      /\ outcome'[x] = "ok" => x \in reached'
    BY DEF ReachInv
  <2>1. CASE x # c
    BY <1>1, <1>3, <1>7, <2>1
  <2>2. CASE x = c
    <3>1. /\ AtTarget(uses[c], Row(tree, d))' <=> AtTarget(uses'[c], Row(tree, d))
          /\ AtTarget(uses[c], index[d])' <=> AtTarget(uses'[c], index[d])
      BY <1>1 DEF AtTarget, TargetBox, TargetHPath, IsRename, Row
    <3>2. QED
      BY <1>1, <1>8, <2>2, <3>1
  <2>3. QED
    BY <2>1, <2>2
<1>10. QED
  BY <1>6, <1>9

(* The invariants of a step that the previews and executions do not make. *)
LEMMA PlaceKept ==
  ASSUME PlaceInv, Rooted(tree'), UNCHANGED <<request, seen, above, token, polls>>,
         \A c \in Previews \cup Executions : pc'[c] = pc[c],
         \A d \in Doc : index'[d].path # <<>> => index'[d].path[Len(index'[d].path)] = d
  PROVE  PlaceInv'
<1>1. Rooted(tree)'
  BY DEF Rooted
<1>2. \A p \in Previews : UNCHANGED <<Parent(p), IsRename(p)>>
                          /\ (AtTarget(p, seen[p])' <=> AtTarget(p, seen[p]))
  BY DEF Parent, IsRename, AtTarget, TargetBox, TargetHPath
<1>3. QED
  BY <1>1, <1>2 DEF PlaceInv

LEMMA ReachKept ==
  ASSUME ReachInv, UNCHANGED <<tree, index, request, seen, above, uses, reached>>,
         \A c \in Executions : pc'[c] = pc[c] /\ outcome'[c] = outcome[c]
  PROVE  ReachInv'
<1> SUFFICES ASSUME NEW c \in Executions, NEW d, d = request[uses[c]].doc
             PROVE  /\ uses[c] # NoCall /\ AtTarget(uses[c], Row(tree, d))' => c \in reached
                    /\ /\ pc[c] \in {"notebook", "parent", "collision"} \cup Acting
                       /\ AtTarget(uses[c], index[d])'
                       => c \in reached
                    /\ outcome[c] = "ok" => c \in reached
  BY DEF ReachInv
<1>1. /\ AtTarget(uses[c], Row(tree, d))' <=> AtTarget(uses[c], Row(tree, d))
      /\ AtTarget(uses[c], index[d])' <=> AtTarget(uses[c], index[d])
  BY DEF AtTarget, TargetBox, TargetHPath, IsRename, Row
<1>2. QED
  BY <1>1 DEF ReachInv

(* A delete's own steps. *)
LEMMA DeleteKeeps ==
  ASSUME IInv, NEW c \in Deletes, DeleteStep(c)
  PROVE  TypeOK' /\ PlaceInv' /\ ReachInv'
<1> USE StructureAssumption DEF IInv, Call
<1>1. ControlOK'
  BY DeleteSteps DEF CInv
<1>2. UNCHANGED <<tree, index, policy, request, seen, above, token, uses, polls, late, acts, published, reached>>
  BY DEF DeleteStep, StartDelete, DeleteReads, DeleteAnswered, treeVars, policyVars, previewVars, pollVars
<1>3. \A x \in Call \ {c} : pc'[x] = pc[x] /\ outcome'[x] = outcome[x]
  BY DEF CInv, ControlOK, DeleteStep, StartDelete, DeleteReads, DeleteAnswered, Reads, Return, Goto
<1>4. inForce' \in [Call -> SUBSET PolicyChoices]
  BY DEF TypeOK, DeleteStep, StartDelete, DeleteReads, DeleteAnswered, Starts, policyVars
<1>5. TypeOK'
  BY <1>1, <1>2, <1>4 DEF TypeOK, ControlOK, Stages
<1>6. PlaceInv'
  BY <1>2, <1>3, PlaceKept DEF PlaceInv
<1>7. ReachInv'
  BY <1>2, <1>3, ReachKept
<1>8. QED
  BY <1>5, <1>6, <1>7

(* The trees that SiYuan and the user make are in order. *)
LEMMA TreeSteps ==
  ASSUME IInv,
         \/ \E c \in Executions \cup Deletes : WriteApplied(c)
         \/ \E d \in Doc : UserChange(d)
  PROVE  tree' \in [Doc -> NodeType] /\ Rooted(tree') /\ TreeBecomes(tree')
<1> USE StructureAssumption, TreeAssumption DEF IInv
<1>1. tree \in [Doc -> NodeType] /\ Rooted(tree)
  BY DEF TypeOK, PlaceInv
<1>2. ASSUME NEW d \in Doc, NEW title \in STRING
      PROVE  Renamed(tree, d, title) \in [Doc -> NodeType] /\ Rooted(Renamed(tree, d, title))
  <2>1. \A x \in Doc : [tree[x] EXCEPT !.title = title] \in NodeType
                         /\ [tree[x] EXCEPT !.title = title].path = tree[x].path
    BY <1>1 DEF NodeType
  <2>2. /\ Renamed(tree, d, title) \in [Doc -> NodeType]
        /\ \A x \in Doc : Renamed(tree, d, title)[x].path = tree[x].path
    BY <1>1, <2>1 DEF Renamed
  <2>3. QED
    BY <1>1, <2>2, RetitledRooted
<1>3. ASSUME NEW c \in Executions \cup Deletes, WriteApplied(c)
      PROVE  Effect(c) \in [Doc -> NodeType] /\ Rooted(Effect(c)) /\ TreeBecomes(Effect(c))
  <2>1. CASE c \in Deletes
    BY <1>1, <1>3, <2>1, RemovedRooted DEF WriteApplied, Effect
  <2>2. CASE c \notin Deletes
    <3>1. uses[c] \in Previews /\ write[c] # "none"
      BY <1>3, <2>2 DEF WriteApplied, CInv, ControlOK, WriteInv
    <3>2. CASE IsRename(uses[c])
      BY <1>2, <1>3, <2>2, <3>1, <3>2, RequestTyped DEF WriteApplied, Effect
    <3>3. CASE ~IsRename(uses[c])
      <4>1. /\ request[uses[c]].doc \in Doc /\ Parent(uses[c]) \in Doc \cup {NoDoc}
            /\ TargetBox(uses[c]) \in Notebook
        BY <3>1, <3>3, RequestTyped DEF TargetBox
      <4>2. CanMove(tree, request[uses[c]].doc, Parent(uses[c]))
        BY <1>3, <2>2, <3>3 DEF WriteApplied, Takes
      <4>3. QED
        BY <1>1, <1>3, <2>2, <3>3, <4>1, <4>2, MovedRooted DEF WriteApplied, Effect
    <3>4. QED
      BY <3>2, <3>3
  <2>3. QED
    BY <2>1, <2>2
<1>4. ASSUME NEW d \in Doc, UserChange(d)
      PROVE  tree' \in [Doc -> NodeType] /\ Rooted(tree') /\ TreeBecomes(tree')
  <2>1. CASE TreeBecomes([tree EXCEPT ![d].updated = @ + 1])
    <3>1. tree' = [tree EXCEPT ![d].updated = @ + 1]
      BY <2>1 DEF TreeBecomes
    <3>2. \A x \in Doc : [tree[x] EXCEPT !.updated = @ + 1] \in NodeType
                           /\ [tree[x] EXCEPT !.updated = @ + 1].path = tree[x].path
      <4> TAKE x \in Doc
      <4>1. tree[x] \in NodeType /\ tree[x].updated + 1 \in Nat
        BY <1>1 DEF NodeType
      <4>2. QED
        BY <4>1 DEF NodeType
    <3>3. tree' \in [Doc -> NodeType] /\ \A x \in Doc : tree'[x].path = tree[x].path
      BY <1>1, <3>1, <3>2
    <3>4. QED
      BY <1>1, <2>1, <3>1, <3>3, RetitledRooted
  <2>2. CASE \E title \in UserTitles : TreeBecomes(Renamed(tree, d, title))
    BY <1>2, <2>2 DEF TreeBecomes
  <2>3. CASE \E box \in Notebook : TreeBecomes(Moved(tree, d, box, NoDoc))
    <3>1. CanMove(tree, d, NoDoc)
      BY <1>4 DEF UserChange, CanMove
    <3>2. QED
      BY <1>1, <2>3, <3>1, MovedRooted DEF TreeBecomes
  <2>4. CASE \E parent \in Doc : CanMove(tree, d, parent) /\ TreeBecomes(Moved(tree, d, tree[d].box, parent))
    <3>1. tree[d].box \in Notebook
      BY <1>1 DEF NodeType
    <3>2. QED
      BY <1>1, <2>4, <3>1, MovedRooted DEF TreeBecomes
  <2>5. QED
    BY <1>4, <2>1, <2>2, <2>3, <2>4 DEF UserChange
<1>5. QED
  BY <1>3, <1>4 DEF WriteApplied, TreeBecomes

(* SiYuan carries out a write or the user changes the tree: who waits for    *)
(* the tree that results is noted.                                           *)
LEMMA TreeKeeps ==
  ASSUME IInv,
         \/ \E c \in Executions \cup Deletes : WriteApplied(c)
         \/ \E d \in Doc : UserChange(d)
  PROVE  TypeOK' /\ PlaceInv' /\ ReachInv'
<1> USE StructureAssumption DEF IInv, Call
<1>1. UNCHANGED <<index, policy, pc, request, seen, above, token, uses, polls, late, outcome, published, inForce>>
  BY DEF WriteApplied, UserChange, policyVars, previewVars, pollVars
<1>2. tree' \in [Doc -> NodeType] /\ Rooted(tree') /\ TreeBecomes(tree')
  BY TreeSteps
<1>3. write' \in [Executions \cup Deletes -> {"none", "sent", "applied"}] /\ acts' \in 0..MaxActs
  <2>1. \/ UNCHANGED write
        \/ \E c \in Executions \cup Deletes : write' = [write EXCEPT ![c] = "applied"]
    BY DEF WriteApplied, UserChange
  <2>2. UNCHANGED acts \/ (acts < MaxActs /\ acts' = acts + 1)
    BY DEF WriteApplied, UserChange
  <2>3. QED
    BY <2>1, <2>2 DEF TypeOK
<1>4. TypeOK'
  BY <1>1, <1>2, <1>3 DEF TypeOK, TreeBecomes
<1>5. PlaceInv'
  BY <1>1, <1>2, PlaceKept DEF PlaceInv
<1>6. ReachInv'
  <2> SUFFICES ASSUME NEW c \in Executions, NEW d, d = request[uses[c]].doc
               PROVE  /\ uses[c] # NoCall /\ AtTarget(uses[c], Row(tree, d))' => c \in reached'
                      /\ /\ pc[c] \in {"notebook", "parent", "collision"} \cup Acting
                         /\ AtTarget(uses[c], index[d])'
                         => c \in reached'
                      /\ outcome[c] = "ok" => c \in reached'
    BY <1>1 DEF ReachInv
  <2>1. AtTarget(uses[c], Row(tree, d))' <=> AtTarget(uses[c], Row(tree', d))
    BY <1>1 DEF AtTarget, TargetBox, TargetHPath, IsRename, Row
  <2>2. AtTarget(uses[c], index[d])' <=> AtTarget(uses[c], index[d])
    BY <1>1 DEF AtTarget, TargetBox, TargetHPath, IsRename
  <2>3. QED
    BY <1>2, <2>1, <2>2 DEF ReachInv, TreeBecomes
<1>7. QED
  BY <1>4, <1>5, <1>6

(* The index catches up with the tree on one document. *)
LEMMA ReindexKeeps ==
  ASSUME IInv, NEW x \in Doc, Reindex(x)
  PROVE  TypeOK' /\ PlaceInv' /\ ReachInv'
<1> USE StructureAssumption DEF IInv, Call
<1>1. UNCHANGED <<tree, reached, acts, policy, published, inForce, pc, request, seen, above, token, uses,
                  write, polls, late, outcome>>
  BY DEF Reindex, treeVars, policyVars, previewVars, pollVars
<1>2. Row(tree, x) \in RowType /\ Row(tree, x).path = tree[x].path
  BY RowTyped DEF TypeOK
<1>3. index' = [index EXCEPT ![x] = Row(tree, x)]
  BY DEF Reindex
<1>4. TypeOK'
  BY <1>1, <1>2, <1>3 DEF TypeOK
<1>5. \A d \in Doc : index'[d].path # <<>> => index'[d].path[Len(index'[d].path)] = d
  BY <1>2, <1>3 DEF TypeOK, PlaceInv, Rooted
<1>6. PlaceInv'
  BY <1>1, <1>5, PlaceKept DEF PlaceInv
<1>7. ReachInv'
  <2> SUFFICES ASSUME NEW c \in Executions, NEW d, d = request[uses[c]].doc
               PROVE  /\ uses[c] # NoCall /\ AtTarget(uses[c], Row(tree, d))' => c \in reached
                      /\ /\ pc[c] \in {"notebook", "parent", "collision"} \cup Acting
                         /\ AtTarget(uses[c], index[d])'
                         => c \in reached
                      /\ outcome[c] = "ok" => c \in reached
    BY <1>1 DEF ReachInv
  <2>1. AtTarget(uses[c], Row(tree, d))' <=> AtTarget(uses[c], Row(tree, d))
    BY <1>1 DEF AtTarget, TargetBox, TargetHPath, IsRename, Row
  <2>2. AtTarget(uses[c], index[d])' <=> AtTarget(uses[c], index'[d])
    BY <1>1 DEF AtTarget, TargetBox, TargetHPath, IsRename
  <2>3. index'[d] = index[d] \/ index'[d] = Row(tree, d)
    BY <1>3 DEF TypeOK
  <2>4. pc[c] \in {"notebook", "parent", "collision"} \cup Acting => uses[c] # NoCall
    BY DEF CInv, TokenInv, Checking
  <2>5. QED
    BY <2>1, <2>2, <2>3, <2>4 DEF ReachInv
<1>8. QED
  BY <1>4, <1>6, <1>7

(* A policy is published, or nothing happens. *)
LEMMA PublishKeeps ==
  ASSUME IInv, (\E q \in PolicyChoices : Publish(q)) \/ UNCHANGED vars
  PROVE  TypeOK' /\ PlaceInv' /\ ReachInv'
<1> USE StructureAssumption DEF IInv, Call
<1>1. UNCHANGED <<tree, reached, acts, index, pc, request, seen, above, token, uses, write, polls, late, outcome>>
  BY DEF Publish, vars, treeVars, previewVars, pollVars
<1>2. policy' \in PolicyChoices /\ published' \in 0..MaxPublished /\ inForce' \in [Call -> SUBSET PolicyChoices]
  BY DEF TypeOK, Publish, vars, policyVars
<1>3. TypeOK'
  BY <1>1, <1>2 DEF TypeOK
<1>4. PlaceInv'
  BY <1>1, PlaceKept DEF PlaceInv
<1>5. ReachInv'
  BY <1>1, ReachKept
<1>6. QED
  BY <1>3, <1>4, <1>5

(* The invariant holds in every behaviour. *)
THEOREM Invariance == Spec => []IInv
<1>1. IInv /\ [Next]_vars => TypeOK' /\ PlaceInv' /\ ReachInv'
  BY PreviewTypes, PreviewPlaces, ExecutionTypes, ExecutionReaches, DeleteKeeps, TreeKeeps, ReindexKeeps,
     PublishKeeps DEF Next
<1>2. IInv /\ [Next]_vars => IInv'
  <2>1. CInv /\ [Next]_vars => CInv'
    BY PreviewSteps, ExecutionSteps, DeleteSteps, HostSteps, PublishStep, StutterStep DEF Next
  <2>2. QED
    BY <1>1, <2>1 DEF IInv
<1>3. QED
  BY InitInv, <1>2, PTL DEF Spec

(* Every variable of the structure tools has its type; a verification makes   *)
(* no more attempts than it may (kernel.ts, STRUCTURE_VERIFY_ATTEMPTS).       *)
THEOREM TypeCorrect == Spec => []TypeOK
  BY Invariance, PTL DEF IInv

(* "verified: true" is true of the tree, however late the index is, and a     *)
(* refusal has sent no write (kernel.ts, waitForStructureState).              *)
THEOREM OutcomesAreTrue == Spec => []OutcomesTrue
<1>1. IInv => OutcomesTrue
  BY DEF IInv, ReachInv, CInv, WriteInv, OutcomesTrue, VerifiedReached, RefusedUntouched, Refusals, Acting
<1>2. QED
  BY Invariance, <1>1, PTL
=============================================================================
