---------------------------- MODULE StructureTools ----------------------------
(***************************************************************************)
(* The tools that change the document tree: rename_note and move_note,     *)
(* each a preview and an execution joined by a one-time token, and         *)
(* delete_note (src/src/kernel.ts, src/src/structure-safety.ts).           *)
(*                                                                         *)
(* Calls run concurrently; one action is what a call does between two      *)
(* awaits.  Every read is a query of the SQL index of SiYuan               *)
(* (kernel-api.ts, getBlock), which follows the tree row by row and late.  *)
(* A write is sent, takes effect at most once, and is answered; an error   *)
(* says nothing about the effect.  Meanwhile the user renames, moves and   *)
(* edits documents and publishes policies.                                 *)
(*                                                                         *)
(* A document has the path of the documents above it, itself the last, and *)
(* no path once it is removed; its human path is their titles.             *)
(***************************************************************************)
EXTENDS Naturals, Sequences

CONSTANTS
  Doc, Notebook,
  InitialTrees,   \* the trees SiYuan may hold at first
  Renames,        \* the renames asked for: [doc, title]
  Moves,          \* the moves asked for: [doc, box, parent], parent = NoDoc for the root
  Previews,       \* the preview calls, each also the token it returns
  Executions,     \* the calls with a previewToken
  Deletes,        \* the calls of delete_note
  Doomed,         \* the document and the expectedTitle of each: [doc, title]
  Confirmed,      \* the executions and deletes made with confirmed = true
  NoDoc, NoCall,
  UserTitles,     \* the titles the user gives
  PolicyChoices,  \* the policies the user may publish
  MaxPolls,       \* STRUCTURE_VERIFY_ATTEMPTS
  MaxActs,        \* bound: changes the user makes to the tree
  MaxPublished    \* bound: policies published

Requests == Renames \cup Moves
Call == Previews \cup Executions \cup Deletes

ASSUME StructureAssumption ==
  /\ NoDoc \notin Doc /\ NoCall \notin Call
  /\ Previews \cap Executions = {}
  /\ (Previews \cup Executions) \cap Deletes = {}
  /\ Doc \cap Notebook = {}
  /\ Doomed \in [Deletes -> [doc : Doc, title : STRING]]
  /\ MaxPolls \in Nat \ {0} /\ MaxActs \in Nat /\ MaxPublished \in Nat

NodeType == [box : Notebook, path : Seq(Doc), title : STRING, updated : Nat]

(* A document is the last of its path, and each document on the path has the    *)
(* path up to itself.                                                           *)
Rooted(t) ==
  \A d \in Doc :
    /\ t[d].path # <<>> => t[d].path[Len(t[d].path)] = d
    /\ \A i \in DOMAIN t[d].path :
         LET upper == t[t[d].path[i]].path
         IN  Len(upper) = i /\ \A j \in 1..i : upper[j] = t[d].path[j]

ASSUME TreeAssumption ==
  /\ InitialTrees \subseteq [Doc -> NodeType] /\ \A t \in InitialTrees : Rooted(t)
  /\ Renames \subseteq [doc : Doc, title : STRING]
  /\ Moves \subseteq [doc : Doc, box : Notebook, parent : Doc \cup {NoDoc}]
  /\ UserTitles \subseteq STRING

VARIABLES
  tree,       \* each document: [box, path, title, updated]
  index,      \* the row of each document: [box, path, hpath, title, updated]
  policy,     \* this.policy: the decisions, the notebooks allowed
  pc,         \* what each call awaits
  request,    \* what each preview is asked for
  seen,       \* the snapshot of the source each preview took
  above,      \* the snapshot of the target parent it took
  token,      \* structurePreviews: each token "unissued", "open", "spent", "expired"
  uses,       \* the token each execution consumed
  write,      \* the write of each execution and delete: "none", "sent", "applied"
  polls,      \* attempts of each waitForStructureState
  late,       \* the executions past their verification deadline
  outcome,    \* the error code of each call, or "ok"
  acts,       \* the user's changes so far
  published,  \* the policies published so far
  inForce,    \* the policies in force at some time of each call
  reached     \* executions whose target the tree has shown since they consumed

treeVars == <<tree, reached, acts>>
previewVars == <<request, seen, above, token>>
pollVars == <<polls, late>>
policyVars == <<policy, published, inForce>>
vars == <<treeVars, index, policyVars, pc, previewVars, uses, write, pollVars, outcome>>

NoRow == [box |-> "none", path |-> <<>>, hpath |-> <<>>, title |-> "none", updated |-> 0]

Refusals == {"operation_denied", "confirmation_required", "notebook_denied", "invalid_request",
             "preview_expired", "state_changed", "name_conflict", "operation_failed"}

(* The row of a document in an index that is up to date. *)
Row(t, d) ==
  [box |-> t[d].box, path |-> t[d].path,
   hpath |-> [i \in DOMAIN t[d].path |-> t[t[d].path[i]].title],
   title |-> t[d].title, updated |-> t[d].updated]

Init ==
  /\ tree \in InitialTrees
  /\ index = [d \in Doc |-> Row(tree, d)]
  /\ policy \in PolicyChoices
  /\ pc = [c \in Call |-> "idle"]
  /\ request \in [Previews -> Requests]
  /\ seen = [p \in Previews |-> NoRow]
  /\ above = [p \in Previews |-> NoRow]
  /\ token = [p \in Previews |-> "unissued"]
  /\ uses = [c \in Executions |-> NoCall]
  /\ write = [c \in Executions \cup Deletes |-> "none"]
  /\ polls = [c \in Executions |-> 0]
  /\ late = {}
  /\ outcome = [c \in Call |-> "none"]
  /\ acts = 0
  /\ published = 0
  /\ inForce = [c \in Call |-> {}]
  /\ reached = {}

-----------------------------------------------------------------------------
(* The tree, in SiYuan. *)

Exists(t, d) == t[d].path # <<>>
InSubtree(t, d) == {x \in Doc : \E i \in DOMAIN t[x].path : t[x].path[i] = d}

(* renameDocByID *)
Renamed(t, d, title) == [t EXCEPT ![d].title = title]

(* moveDocsByID: d and its descendants, to where the parent is or to a notebook's root *)
Moved(t, d, box, parent) ==
  LET dir == IF parent = NoDoc THEN <<>> ELSE t[parent].path
      to == IF parent = NoDoc THEN box ELSE t[parent].box
  IN [x \in Doc |->
        IF x \in InSubtree(t, d)
        THEN [t[x] EXCEPT !.box = to, !.path = dir \o SubSeq(@, Len(t[d].path), Len(@))]
        ELSE t[x]]

CanMove(t, d, parent) ==
  /\ Exists(t, d)
  /\ parent # NoDoc => Exists(t, parent) /\ parent \notin InSubtree(t, d)

(* removeDocByID: d and its descendants *)
Removed(t, d) ==
  [x \in Doc |-> IF x \in InSubtree(t, d) THEN [t[x] EXCEPT !.path = <<>>] ELSE t[x]]

-----------------------------------------------------------------------------
(* A preview and the checks an execution makes on it. *)

IsRename(p) == request[p] \in Renames
Parent(p) == IF IsRename(p) THEN NoDoc ELSE request[p].parent
TargetBox(p) == IF IsRename(p) THEN seen[p].box ELSE request[p].box

(* crossNotebook *)
Crosses(p) == TargetBox(p) # seen[p].box

(* replaceHumanPathTitle, joinHumanPath *)
TargetHPath(p) ==
  IF IsRename(p)
  THEN [seen[p].hpath EXCEPT ![Len(seen[p].hpath)] = request[p].title]
  ELSE above[p].hpath \o <<seen[p].title>>

(* The predicates of waitForStructureState, on the row of the source. *)
AtTarget(p, row) ==
  /\ row.path # <<>>
  /\ row.box = TargetBox(p)
  /\ row.hpath = TargetHPath(p)
  /\ IF IsRename(p)
     THEN row.title = request[p].title
     ELSE SubSeq(row.path, 1, Len(row.path) - 1) = above[p].path

(* documentParentId of the source is the id of the target *)
AlreadyThere(p) ==
  IF Parent(p) = NoDoc
  THEN Len(seen[p].path) = 1 /\ seen[p].box = TargetBox(p)
  ELSE Len(seen[p].path) > 1 /\ seen[p].path[Len(seen[p].path) - 1] = Parent(p)

(* isSameOrDescendantPath *)
Inside(row, ancestor) ==
  Len(row.path) >= Len(ancestor.path) /\ SubSeq(row.path, 1, Len(ancestor.path)) = ancestor.path

(* evaluateOperation *)
Decision(decision, c) ==
  IF decision = "deny" THEN "operation_denied"
  ELSE IF decision = "confirm" /\ c \notin Confirmed THEN "confirmation_required"
  ELSE "allowed"

Operation(pol, p) == IF IsRename(p) THEN pol.rename ELSE pol.move

(* Faulty ExecutionGuard: only the preview decides on a move across notebooks. *)
ExecutionGuardIgnoringCross(p, c) == Decision(Operation(policy, p), c)

(* ensureOperation for the operation and, across notebooks, for that too *)
ExecutionGuard(p, c) ==
  IF Decision(Operation(policy, p), c) # "allowed" THEN Decision(Operation(policy, p), c)
  ELSE IF Crosses(p) THEN Decision(policy.cross, c) ELSE "allowed"

-----------------------------------------------------------------------------
(* Control flow of a call. *)

Goto(c, where) == pc' = [pc EXCEPT ![c] = where] /\ UNCHANGED outcome

Return(c, code) ==
  /\ pc' = [pc EXCEPT ![c] = "done"]
  /\ outcome' = [outcome EXCEPT ![c] = code]

Starts(c) == inForce' = [inForce EXCEPT ![c] = {policy}]

(* assertExactDocumentAllowed: the row of a document, or a refusal *)
Reads(c, d) ==
  \/ Return(c, "operation_failed")
  \/ index[d].path # <<>> /\ index[d].box \notin policy.allowed /\ Return(c, "notebook_denied")

Readable(d) == index[d].path # <<>> /\ index[d].box \in policy.allowed

-----------------------------------------------------------------------------
(* rename_note and move_note without a token: prepareRename, prepareMove. *)

(* ensureOperationCanPreview *)
StartPreview(p) ==
  /\ pc[p] = "idle"
  /\ IF Operation(policy, p) = "deny" THEN Return(p, "operation_denied") ELSE Goto(p, "source")
  /\ Starts(p)
  /\ UNCHANGED <<treeVars, index, policy, published, previewVars, uses, write, pollVars>>

PreviewSource(p) ==
  /\ pc[p] = "source"
  /\ LET d == request[p].doc IN
     \/ Reads(p, d) /\ UNCHANGED seen
     \/ /\ Readable(d)
        /\ IsRename(p) /\ index[d].title = request[p].title
        /\ Return(p, "invalid_request")
        /\ UNCHANGED seen
     \/ /\ Readable(d)
        /\ IsRename(p) => index[d].title # request[p].title
        /\ seen' = [seen EXCEPT ![p] = index[d]]
        /\ Goto(p, IF IsRename(p) THEN "collision" ELSE "notebook")
  /\ UNCHANGED <<treeVars, index, policyVars, request, above, token, uses, write, pollVars>>

(* The end of prepareMove's checks on the destination. *)
Place(p) ==
  IF Crosses(p) /\ policy.cross = "deny" THEN Return(p, "operation_denied")
  ELSE IF AlreadyThere(p) THEN Return(p, "invalid_request")
  ELSE Goto(p, "collision")

PreviewNotebook(p) ==
  /\ pc[p] = "notebook"
  /\ \/ Return(p, "operation_failed")
     \/ TargetBox(p) \notin policy.allowed /\ Return(p, "notebook_denied")
     \/ /\ TargetBox(p) \in policy.allowed
        /\ IF Parent(p) = NoDoc THEN Place(p) ELSE Goto(p, "parent")
  /\ UNCHANGED <<treeVars, index, policyVars, previewVars, uses, write, pollVars>>

PreviewParent(p) ==
  /\ pc[p] = "parent"
  /\ LET d == Parent(p) IN
     \/ Reads(p, d) /\ UNCHANGED above
     \/ /\ Readable(d)
        /\ above' = [above EXCEPT ![p] = index[d]]
        /\ IF index[d].box # TargetBox(p) \/ Inside(index[d], seen[p])
           THEN Return(p, "invalid_request")
           ELSE Place(p)
  /\ UNCHANGED <<treeVars, index, policyVars, request, seen, token, uses, write, pollVars>>

(* assertNoNameCollision *)
Collides(p) ==
  \E x \in Doc \ {request[p].doc} :
    index[x].path # <<>> /\ index[x].box = TargetBox(p) /\ index[x].hpath = TargetHPath(p)

PreviewCollision(p) ==
  /\ pc[p] = "collision"
  /\ \/ Return(p, "operation_failed")
     \/ IF Collides(p) THEN Return(p, "name_conflict") ELSE Goto(p, "count")
  /\ UNCHANGED <<treeVars, index, policyVars, previewVars, uses, write, pollVars>>

(* countDocumentTree answers; saveStructurePreview. *)
PreviewSaved(p) ==
  /\ pc[p] = "count"
  /\ \/ Return(p, "operation_failed") /\ UNCHANGED token
     \/ Return(p, "ok") /\ token' = [token EXCEPT ![p] = "open"]
  /\ UNCHANGED <<treeVars, index, policyVars, request, seen, above, uses, write, pollVars>>

(* The token reaches its expiresAt. *)
Expire(p) ==
  /\ token[p] = "open"
  /\ token' = [token EXCEPT ![p] = "expired"]
  /\ UNCHANGED <<treeVars, index, policyVars, pc, request, seen, above, uses, write, pollVars,
                 outcome>>

-----------------------------------------------------------------------------
(* rename_note and move_note with a token: executeRename, executeMove. *)

(* Faulty Execute: the token is looked up again after the awaits, not consumed. *)
ExecuteKeepingToken(c, p) ==
  /\ pc[c] = "idle"
  /\ token[p] = "open" /\ ExecutionGuard(p, c) = "allowed"
  /\ uses' = [uses EXCEPT ![c] = p]
  /\ Goto(c, "source")
  /\ Starts(c)
  /\ UNCHANGED <<treeVars, index, policy, published, previewVars, write, pollVars>>

(* The checks before the first await; the token is consumed if they all pass.   *)
(* A request of the wrong kind, or that differs from the preview's, is invalid. *)
Execute(c, p) ==
  /\ pc[c] = "idle"
  /\ \/ /\ \/ token[p] # "open" /\ Return(c, "preview_expired")
           \/ token[p] = "open" /\ Return(c, "invalid_request")
           \/ /\ token[p] = "open" /\ ExecutionGuard(p, c) # "allowed"
              /\ Return(c, ExecutionGuard(p, c))
        /\ UNCHANGED <<token, uses, reached>>
     \/ /\ token[p] = "open" /\ ExecutionGuard(p, c) = "allowed"
        /\ token' = [token EXCEPT ![p] = "spent"]
        /\ uses' = [uses EXCEPT ![c] = p]
        /\ reached' = IF AtTarget(p, Row(tree, request[p].doc)) THEN reached \cup {c} ELSE reached
        /\ Goto(c, "source")
  /\ Starts(c)
  /\ UNCHANGED <<tree, acts, index, policy, published, request, seen, above, write, pollVars>>

(* previewMatchesCurrent *)
ExecuteSource(c) ==
  /\ pc[c] = "source"
  /\ LET p == uses[c]
         d == request[p].doc
     IN \/ Reads(c, d)
        \/ Readable(d) /\ index[d] # seen[p] /\ Return(c, "state_changed")
        \/ /\ Readable(d) /\ index[d] = seen[p]
           /\ Goto(c, IF IsRename(p) THEN "collision" ELSE "notebook")
  /\ UNCHANGED <<treeVars, index, policyVars, previewVars, uses, write, pollVars>>

ExecuteNotebook(c) ==
  /\ pc[c] = "notebook"
  /\ LET p == uses[c] IN
     \/ Return(c, "operation_failed")
     \/ TargetBox(p) \notin policy.allowed /\ Return(c, "notebook_denied")
     \/ /\ TargetBox(p) \in policy.allowed
        /\ Goto(c, IF Parent(p) = NoDoc THEN "collision" ELSE "parent")
  /\ UNCHANGED <<treeVars, index, policyVars, previewVars, uses, write, pollVars>>

ExecuteParent(c) ==
  /\ pc[c] = "parent"
  /\ LET p == uses[c]
         d == Parent(p)
     IN \/ Reads(c, d)
        \/ Readable(d) /\ index[d] # above[p] /\ Return(c, "state_changed")
        \/ /\ Readable(d) /\ index[d] = above[p]
           /\ IF Inside(index[d], seen[p]) THEN Return(c, "invalid_request") ELSE Goto(c, "collision")
  /\ UNCHANGED <<treeVars, index, policyVars, previewVars, uses, write, pollVars>>

(* assertNoNameCollision, then the write is sent. *)
ExecuteCollision(c) ==
  /\ pc[c] = "collision"
  /\ \/ Return(c, "operation_failed") /\ UNCHANGED write
     \/ Collides(uses[c]) /\ Return(c, "name_conflict") /\ UNCHANGED write
     \/ ~Collides(uses[c]) /\ Goto(c, "writing") /\ write' = [write EXCEPT ![c] = "sent"]
  /\ UNCHANGED <<treeVars, index, policyVars, previewVars, uses, pollVars>>

(* runBodyWrite; then waitForStructureState reads at once. *)
WriteAnswered(c) ==
  /\ pc[c] = "writing"
  /\ \/ Return(c, "outcome_unknown") /\ UNCHANGED polls
     \/ Goto(c, "polling") /\ polls' = [polls EXCEPT ![c] = 1]
  /\ UNCHANGED <<treeVars, index, policyVars, previewVars, uses, write, late>>

(* Faulty Polled: any row that reads back counts as the expected state. *)
PolledTrusting(c) ==
  /\ pc[c] = "polling"
  /\ Return(c, "ok")
  /\ UNCHANGED <<treeVars, index, policyVars, previewVars, uses, write, pollVars>>

(* Faulty Polled: the time is bounded, the attempts are not. *)
PolledUncounted(c) ==
  /\ pc[c] = "polling"
  /\ LET row == index[request[uses[c]].doc] IN
     \/ Return(c, "outcome_unknown")
     \/ /\ c \notin late /\ AtTarget(uses[c], row)
        /\ Return(c, "ok")
     \/ /\ c \notin late /\ row.path # <<>> /\ ~AtTarget(uses[c], row)
        /\ Goto(c, "pausing")
  /\ UNCHANGED <<treeVars, index, policyVars, previewVars, uses, write, pollVars>>

(* A read of the poll answers: an error, or too late; the state expected; or another. *)
Polled(c) ==
  /\ pc[c] = "polling"
  /\ LET row == index[request[uses[c]].doc] IN
     \/ Return(c, "outcome_unknown") /\ UNCHANGED late
     \/ /\ c \notin late /\ AtTarget(uses[c], row)
        /\ Return(c, "ok")
        /\ UNCHANGED late
     \/ /\ c \notin late /\ row.path # <<>> /\ ~AtTarget(uses[c], row)
        /\ \/ polls[c] = MaxPolls /\ Return(c, "verification_failed") /\ UNCHANGED late
           \/ polls[c] < MaxPolls /\ Goto(c, "pausing") /\ UNCHANGED late
           \/ Return(c, "verification_failed") /\ late' = late \cup {c}
  /\ UNCHANGED <<treeVars, index, policyVars, previewVars, uses, write, polls>>

(* Faulty PollTimesOut: only the first read races the deadline. *)
PollTimesOutOnce(c) ==
  /\ pc[c] = "polling" /\ c \in late /\ polls[c] = 1
  /\ Return(c, "outcome_unknown")
  /\ UNCHANGED <<treeVars, index, policyVars, previewVars, uses, write, pollVars>>

(* The timer the read races with. *)
PollTimesOut(c) ==
  /\ pc[c] = "polling" /\ c \in late
  /\ Return(c, "outcome_unknown")
  /\ UNCHANGED <<treeVars, index, policyVars, previewVars, uses, write, pollVars>>

(* The delay between two reads ends. *)
Wakes(c) ==
  /\ pc[c] = "pausing"
  /\ \/ c \in late /\ Return(c, "verification_failed") /\ UNCHANGED polls
     \/ c \notin late /\ Goto(c, "polling") /\ polls' = [polls EXCEPT ![c] = @ + 1]
  /\ UNCHANGED <<treeVars, index, policyVars, previewVars, uses, write, late>>

DeadlinePasses(c) ==
  /\ pc[c] \in {"polling", "pausing"} /\ c \notin late
  /\ late' = late \cup {c}
  /\ UNCHANGED <<treeVars, index, policyVars, pc, previewVars, uses, write, polls, outcome>>

-----------------------------------------------------------------------------
(* delete_note *)

StartDelete(c) ==
  /\ pc[c] = "idle"
  /\ IF c \notin Confirmed THEN Return(c, "confirmation_required")
     ELSE IF Decision(policy.delete, c) # "allowed" THEN Return(c, Decision(policy.delete, c))
     ELSE Goto(c, "source")
  /\ Starts(c)
  /\ UNCHANGED <<treeVars, index, policy, published, previewVars, uses, write, pollVars>>

(* The title is the one expected: the write is sent. *)
DeleteReads(c) ==
  /\ pc[c] = "source"
  /\ \/ Reads(c, Doomed[c].doc) /\ UNCHANGED write
     \/ /\ Readable(Doomed[c].doc) /\ index[Doomed[c].doc].title # Doomed[c].title
        /\ Return(c, "invalid_request")
        /\ UNCHANGED write
     \/ /\ Readable(Doomed[c].doc) /\ index[Doomed[c].doc].title = Doomed[c].title
        /\ Goto(c, "writing")
        /\ write' = [write EXCEPT ![c] = "sent"]
  /\ UNCHANGED <<treeVars, index, policyVars, previewVars, uses, pollVars>>

DeleteAnswered(c) ==
  /\ pc[c] = "writing"
  /\ Return(c, "ok") \/ Return(c, "operation_failed")
  /\ UNCHANGED <<treeVars, index, policyVars, previewVars, uses, write, pollVars>>

-----------------------------------------------------------------------------
(* SiYuan, its index and the user. *)

TreeBecomes(t) ==
  /\ tree' = t
  /\ reached' = reached \cup
       {c \in Executions : uses[c] # NoCall /\ AtTarget(uses[c], Row(t, request[uses[c]].doc))}

Effect(c) ==
  IF c \in Deletes THEN Removed(tree, Doomed[c].doc)
  ELSE IF IsRename(uses[c]) THEN Renamed(tree, request[uses[c]].doc, request[uses[c]].title)
  ELSE Moved(tree, request[uses[c]].doc, TargetBox(uses[c]), Parent(uses[c]))

Takes(c) ==
  IF c \in Deletes THEN Exists(tree, Doomed[c].doc)
  ELSE IF IsRename(uses[c]) THEN Exists(tree, request[uses[c]].doc)
  ELSE CanMove(tree, request[uses[c]].doc, Parent(uses[c]))

(* A write takes effect, if SiYuan can still do it. *)
WriteApplied(c) ==
  /\ write[c] = "sent" /\ Takes(c)
  /\ write' = [write EXCEPT ![c] = "applied"]
  /\ TreeBecomes(Effect(c))
  /\ UNCHANGED <<acts, index, policyVars, pc, previewVars, uses, pollVars, outcome>>

Reindex(d) ==
  /\ index[d] # Row(tree, d)
  /\ index' = [index EXCEPT ![d] = Row(tree, d)]
  /\ UNCHANGED <<treeVars, policyVars, pc, previewVars, uses, write, pollVars, outcome>>

UserChange(d) ==
  /\ acts < MaxActs
  /\ acts' = acts + 1
  /\ Exists(tree, d)
  /\ \/ TreeBecomes([tree EXCEPT ![d].updated = @ + 1])
     \/ \E title \in UserTitles : TreeBecomes(Renamed(tree, d, title))
     \/ \E box \in Notebook : TreeBecomes(Moved(tree, d, box, NoDoc))
     \/ \E parent \in Doc :
          CanMove(tree, d, parent) /\ TreeBecomes(Moved(tree, d, tree[d].box, parent))
  /\ UNCHANGED <<index, policyVars, pc, previewVars, uses, write, pollVars, outcome>>

(* publish() hands the tools a new policy while calls are under way. *)
Publish(q) ==
  /\ published < MaxPublished
  /\ published' = published + 1
  /\ policy' = q
  /\ inForce' = [c \in Call |->
       IF pc[c] \in {"idle", "done"} THEN inForce[c] ELSE inForce[c] \cup {q}]
  /\ UNCHANGED <<treeVars, index, pc, previewVars, uses, write, pollVars, outcome>>

PreviewStep(p) ==
  \/ StartPreview(p)
  \/ PreviewSource(p)
  \/ PreviewNotebook(p)
  \/ PreviewParent(p)
  \/ PreviewCollision(p)
  \/ PreviewSaved(p)
  \/ Expire(p)

ExecutionStep(c) ==
  \/ \E p \in Previews : Execute(c, p)
  \/ ExecuteSource(c)
  \/ ExecuteNotebook(c)
  \/ ExecuteParent(c)
  \/ ExecuteCollision(c)
  \/ WriteAnswered(c)
  \/ Polled(c)
  \/ PollTimesOut(c)
  \/ Wakes(c)
  \/ DeadlinePasses(c)

DeleteStep(c) == StartDelete(c) \/ DeleteReads(c) \/ DeleteAnswered(c)

Next ==
  \/ \E p \in Previews : PreviewStep(p)
  \/ \E c \in Executions : ExecutionStep(c) \/ WriteApplied(c)
  \/ \E c \in Deletes : DeleteStep(c) \/ WriteApplied(c)
  \/ \E d \in Doc : Reindex(d) \/ UserChange(d)
  \/ \E q \in PolicyChoices : Publish(q)

Spec == Init /\ [][Next]_vars

(* Clocks and timers run; nothing says that SiYuan ever answers. *)
Fairness ==
  \A c \in Executions :
    WF_vars(DeadlinePasses(c)) /\ WF_vars(PollTimesOut(c)) /\ WF_vars(Wakes(c))

FairSpec == Spec /\ Fairness

-----------------------------------------------------------------------------
RowType == [box : Notebook \cup {"none"}, path : Seq(Doc), hpath : Seq(STRING),
            title : STRING \cup {"none"}, updated : Nat]

(* The variables have the types the code gives them; a read is never attempted   *)
(* more often than STRUCTURE_VERIFY_ATTEMPTS (kernel.ts, waitForStructureState). *)
TypeOK ==
  /\ tree \in [Doc -> NodeType]
  /\ index \in [Doc -> RowType]
  /\ policy \in PolicyChoices
  /\ pc \in [Call -> {"idle", "source", "notebook", "parent", "collision", "count",
                      "writing", "polling", "pausing", "done"}]
  /\ request \in [Previews -> Requests]
  /\ seen \in [Previews -> RowType]
  /\ above \in [Previews -> RowType]
  /\ token \in [Previews -> {"unissued", "open", "spent", "expired"}]
  /\ uses \in [Executions -> Previews \cup {NoCall}]
  /\ write \in [Executions \cup Deletes -> {"none", "sent", "applied"}]
  /\ polls \in [Executions -> 0..MaxPolls]
  /\ late \subseteq Executions
  /\ outcome \in [Call -> Refusals \cup
                  {"none", "ok", "outcome_unknown", "verification_failed"}]
  /\ acts \in 0..MaxActs
  /\ published \in 0..MaxPublished
  /\ inForce \in [Call -> SUBSET PolicyChoices]
  /\ reached \subseteq Executions

(* A write is sent only if, for each permission it needs, the operation, the move *)
(* across notebooks and the two notebooks, a policy in force during the call      *)
(* grants it to that call, however the user changes the policy between the        *)
(* preview, the execution and its awaits (README.md:124).                         *)
WritesFollowPolicy ==
  /\ \A c \in Executions : write[c] # "none" =>
       LET p == uses[c] IN
       /\ \E q \in inForce[c] : Decision(Operation(q, p), c) = "allowed"
       /\ Crosses(p) => \E q \in inForce[c] : Decision(q.cross, c) = "allowed"
       /\ \E q \in inForce[c] : seen[p].box \in q.allowed
       /\ \E q \in inForce[c] : TargetBox(p) \in q.allowed
  /\ \A c \in Deletes : write[c] # "none" =>
       c \in Confirmed /\ \E q \in inForce[c] : Decision(q.delete, c) = "allowed"

(* "verified: true" says that the tree did show the document where the preview     *)
(* put it, after the token was consumed, although the index is late (kernel.ts,    *)
(* waitForStructureState).                                                         *)
VerifiedReached == \A c \in Executions : outcome[c] = "ok" => c \in reached

(* A refusal of a rename or a move means that nothing was written and nothing will *)
(* be; an API error is outcome_unknown (README.md:132).                            *)
RefusedUntouched == \A c \in Executions : outcome[c] \in Refusals => write[c] = "none"

(* What a rename or a move answers is true of the tree. *)
OutcomesTrue == VerifiedReached /\ RefusedUntouched

Promise == INSTANCE OneTimeTickets WITH
  Ticket <- Previews,
  Execution <- Executions,
  open <- {p \in Previews : token[p] = "open"},
  issued <- {p \in Previews : token[p] # "unissued"},
  spender <- {<<c, uses[c]>> : c \in {x \in Executions : uses[x] # NoCall}},
  written <- {c \in Executions : write[c] # "none"}

(* The preview tokens are OneTimeTickets. *)
ImplementsTickets == Promise!Spec

(* Once the write is answered the call ends, even if SiYuan never answers a read   *)
(* (README.md:134, "5-second total budget including read latency").                *)
VerificationEnds ==
  \A c \in Executions : pc[c] \in {"polling", "pausing"} ~> pc[c] = "done"
=============================================================================
