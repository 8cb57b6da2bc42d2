----------------------------- MODULE PolicySync -----------------------------
(***************************************************************************)
(* The policy that each SiYuan window shows, src/src/index.ts, and the     *)
(* policy the kernel plugin obeys, src/src/kernel.ts and policy-storage.ts.*)
(*                                                                         *)
(* A window keeps a copy of the policy.  It reloads the copy through the   *)
(* reloadPolicy RPC when it starts, when the user asks for it, and when a  *)
(* policyChanged push names another fingerprint than that of its copy; it  *)
(* saves through the savePolicy RPC.  Its calls wait for one another in a  *)
(* PolicyTaskQueue with a deadline of ten seconds; an RPC whose caller gave*)
(* up blocks the calls behind it until it settles.  The kernel serves one  *)
(* request at a time.  PolicyStorage models that service in detail; here a *)
(* request is served in one step, with the outcomes of that module.        *)
(*                                                                         *)
(* The SHA-256 fingerprint of a normalised policy stands for the policy.   *)
(***************************************************************************)
EXTENDS Naturals, Sequences

CONSTANTS
  Windows,    \* windows that run the plugin's frontend
  Policies,   \* normalised policies
  Default,    \* DEFAULT_POLICY
  Stored,     \* the policy in policy.json at first
  None,       \* undefined
  MayFail,    \* the kernel, its storage and the RPCs may fail
  Budgets     \* bounds: saves, refreshes, faults and restarts of a behaviour

ASSUME SyncAssumption ==
  /\ {Default, Stored} \subseteq Policies
  /\ None \notin Policies
  /\ MayFail \in BOOLEAN
  /\ Budgets \subseteq [{"saves", "refreshes", "faults", "restarts"} -> Nat]

VARIABLES
  disk,       \* policy.json
  published,  \* the policy the kernel's tools obey
  ready,      \* metadata.ready: published was read from, or saved to, disk
  latePut,    \* the policy of a storage.put that has not settled, or None
  fenced,     \* this instance of the kernel plugin waits for that put
  shown,      \* this.policy of a window
  dock,       \* policySyncState
  booted,     \* bootstrapped
  pending,    \* pendingPolicyFingerprint
  finishing,  \* reloads of bootstrap or refreshAll that wait for the notebooks
  calls,      \* the window's queue, the running call first
  stage,      \* how far the running call is
  rpc,        \* the window's RPC that has not settled
  mail,       \* pushes on their way to the window
  report,     \* what the settings dialog said of the last save
  missed,     \* history: windows a change of the policy may have passed by
  left        \* what is left of the chosen budget

kernelVars == <<disk, published, ready, latePut, fenced>>
windowVars == <<shown, dock, booted, pending, finishing, calls, stage, report>>
vars == <<kernelVars, windowVars, rpc, mail, missed, left>>

CallKinds == {"bootstrap", "refresh", "changed", "save"}
Reports == {"none", "saved", "unconfirmed", "unknown", "not_saved", "timeout", "blocked"}

Call(kind, policy) == [kind |-> kind, policy |-> policy]

(* An RPC: what it asks for, what came back, and, as history, the policies *)
(* in force since it was sent and what became of its put.                  *)
NoAnswer == [ready |-> FALSE, policy |-> Default, saved |-> "none"]
Rpc(state, policy, inForce) ==
  [state |-> state, policy |-> policy, answer |-> NoAnswer, inForce |-> inForce, written |-> "no"]
NoRpc == Rpc("none", None, {})

Init ==
  /\ disk = Stored
  /\ \/ published = Stored /\ ready = TRUE
     \/ published = Default /\ ready = FALSE /\ MayFail
  /\ latePut = None
  /\ fenced = FALSE
  /\ shown = [w \in Windows |-> Default]
  /\ dock = [w \in Windows |-> "syncing"]
  /\ booted = [w \in Windows |-> FALSE]
  /\ pending = [w \in Windows |-> None]
  /\ finishing = [w \in Windows |-> 0]
  /\ calls = [w \in Windows |-> <<Call("bootstrap", None)>>]
  /\ stage = [w \in Windows |-> "waiting"]
  /\ rpc = [w \in Windows |-> NoRpc]
  /\ mail = [w \in Windows |-> <<>>]
  /\ report = [w \in Windows |-> "none"]
  /\ missed = {}
  /\ left \in Budgets

Spend(b) ==
  /\ left[b] > 0
  /\ left' = [left EXCEPT ![b] = @ - 1]

(***************************************************************************)
(* The kernel's side.                                                      *)
(***************************************************************************)

(* The kernel comes to obey policy p; a window that has a request under   *)
(* way sees the policies in force meanwhile.                               *)
Answered(w, policy, isReady, saved, written) ==
  rpc' = [v \in Windows |->
            LET seen == IF isReady THEN rpc[v].inForce \cup {policy} ELSE rpc[v].inForce
            IN  IF v = w
                THEN [rpc[v] EXCEPT !.state = "answered", !.inForce = seen, !.written = written,
                                    !.answer = [ready |-> isReady, policy |-> policy, saved |-> saved]]
                ELSE IF rpc[v].state = "none" THEN rpc[v] ELSE [rpc[v] EXCEPT !.inForce = seen]]

Publish(policy, isReady) == published' = policy /\ ready' = isReady

(* Faulty: a put that is out blocks nobody. *)
NeverBlocked == FALSE

(* A request is refused while a put of an earlier one is out. *)
Blocked == latePut # None /\ fenced

AskedTo(w, save) == rpc[w].state = "sent" /\ (rpc[w].policy # None) = save

(* reloadPolicy reads policy.json and obeys what it reads. *)
ServeReload(w) ==
  /\ AskedTo(w, FALSE)
  /\ ~Blocked
  /\ Publish(disk, TRUE)
  /\ Answered(w, disk, TRUE, "none", "no")
  /\ missed' = missed \ {w}
  /\ UNCHANGED <<disk, latePut, fenced, windowVars, mail, left>>

(* savePolicy writes the policy, reads it back, obeys it and pushes its   *)
(* fingerprint to every window, the caller's included.  The push may fail, *)
(* which nobody is told.                                                   *)
Push(w, policy) ==
  \/ /\ mail' = [v \in Windows |-> Append(mail[v], policy)]
     /\ missed' = {}
     /\ UNCHANGED left
  \/ /\ MayFail /\ Spend("faults")
     /\ missed' = Windows \ {w}
     /\ UNCHANGED mail

ServeSave(w) ==
  /\ AskedTo(w, TRUE)
  /\ ~Blocked
  /\ disk' = rpc[w].policy
  /\ Publish(disk', TRUE)
  /\ Answered(w, disk', TRUE, "saved", "yes")
  /\ Push(w, disk')
  /\ UNCHANGED <<latePut, fenced, windowVars>>

(* The deadline passes after the save was verified and pushed: the kernel *)
(* falls back to the default policy and answers "saved", not ready.        *)
ServeSaveLate(w) ==
  /\ MayFail /\ AskedTo(w, TRUE)
  /\ ~Blocked
  /\ Spend("faults")
  /\ disk' = rpc[w].policy
  /\ Publish(Default, FALSE)
  /\ Answered(w, Default, FALSE, "saved", "yes")
  /\ mail' = [v \in Windows |-> Append(mail[v], disk')]
  /\ missed' = {}
  /\ UNCHANGED <<latePut, fenced, windowVars>>

(* The request fails before anything is written, or is refused for a put  *)
(* that is still out: the kernel falls back to the default policy.  One    *)
(* whose deadline passed in the kernel's queue changes nothing.            *)
ServeFailed(w) ==
  /\ MayFail /\ rpc[w].state = "sent"
  /\ \/ ~Blocked /\ Spend("faults") /\ UNCHANGED <<published, ready>>
     \/ ~Blocked /\ Spend("faults") /\ Publish(Default, FALSE)
     \/ Blocked /\ UNCHANGED left /\ Publish(Default, FALSE)
  /\ Answered(w, published', FALSE, IF rpc[w].policy = None THEN "none" ELSE "not_saved", "no")
  /\ UNCHANGED <<disk, latePut, fenced, windowVars, mail, missed>>

(* The save fails once its put was issued.  The put has taken effect, or  *)
(* not, or it is still out.                                                *)
ServeSaveUnknown(w) ==
  /\ MayFail /\ AskedTo(w, TRUE)
  /\ ~Blocked
  /\ Spend("faults")
  /\ \/ disk' \in {disk, rpc[w].policy} /\ UNCHANGED <<latePut, fenced>>
     \/ /\ latePut = None
        /\ latePut' = rpc[w].policy /\ fenced' = TRUE
        /\ UNCHANGED disk
  /\ missed' = IF disk' = disk THEN missed ELSE Windows
  /\ Publish(Default, FALSE)
  /\ Answered(w, Default, FALSE, "unknown", "maybe")
  /\ UNCHANGED <<windowVars, mail>>

(* The put that was out settles; nobody is told. *)
PutSettles ==
  /\ latePut # None
  /\ disk' \in {disk, latePut}
  /\ latePut' = None
  /\ fenced' = FALSE
  /\ missed' = IF disk' = disk THEN missed ELSE Windows
  /\ UNCHANGED <<published, ready, windowVars, rpc, mail, left>>

(* The plugin's kernel part is unloaded and loaded again: the new instance *)
(* has an empty queue, so it does not wait for a put of the old one, and   *)
(* loads the policy without a push.                                        *)
Restart ==
  /\ Spend("restarts")
  /\ fenced' = FALSE
  /\ \/ Publish(disk, TRUE)
     \/ MayFail /\ Publish(Default, FALSE)
  /\ rpc' = [v \in Windows |->
               IF rpc[v].state = "none" \/ ~ready' THEN rpc[v]
               ELSE [rpc[v] EXCEPT !.inForce = @ \cup {published'}]]
  /\ UNCHANGED <<disk, latePut, windowVars, mail, missed>>

(* The RPC rejects, before the kernel has served it or when its answer is *)
(* lost.                                                                   *)
RpcFails(w) ==
  /\ MayFail /\ rpc[w].state \in {"sent", "answered"}
  /\ Spend("faults")
  /\ rpc' = [rpc EXCEPT ![w].state = "error"]
  /\ UNCHANGED <<kernelVars, windowVars, mail, missed>>

(***************************************************************************)
(* The window.                                                             *)
(***************************************************************************)

Current(w) == Head(calls[w])

(* The running call leaves the queue; a failure is classified for the     *)
(* dock, and for the dialog when the call is a save.                       *)
Ends(w, outcome, says) ==
  /\ calls' = [calls EXCEPT ![w] = Tail(@)]
  /\ stage' = [stage EXCEPT ![w] = "waiting"]
  /\ dock' = [dock EXCEPT ![w] = outcome]
  /\ report' = IF Current(w).kind = "save" THEN [report EXCEPT ![w] = says] ELSE report

(* A call's turn comes: it asks the kernel, unless an RPC of a call that  *)
(* gave up is still out.                                                   *)
Start(w) ==
  /\ calls[w] # <<>> /\ stage[w] = "waiting"
  /\ rpc[w].state = "none"
  /\ stage' = [stage EXCEPT ![w] = "asked"]
  /\ dock' = [dock EXCEPT ![w] = "syncing"]
  /\ rpc' = [rpc EXCEPT ![w] = Rpc("sent", Current(w).policy, IF ready THEN {published} ELSE {})]
  /\ UNCHANGED <<kernelVars, shown, booted, pending, finishing, calls, report, mail, missed, left>>

StartBlocked(w) ==
  /\ calls[w] # <<>> /\ stage[w] = "waiting"
  /\ rpc[w].state # "none"
  /\ Ends(w, "failed", "blocked")
  /\ UNCHANGED <<kernelVars, shown, booted, pending, finishing, rpc, mail, missed, left>>

(* Faulty: the stage of the call that gave up is kept. *)
TimeoutKeepingStage(w) ==
  /\ calls[w] # <<>>
  /\ calls' = [calls EXCEPT ![w] = Tail(@)]
  /\ dock' = [dock EXCEPT ![w] = "failed"]
  /\ UNCHANGED <<kernelVars, shown, booted, pending, finishing, stage, report, rpc, mail, missed, left>>

(* Faulty: a save that timed out is reported as not saved. *)
TimeoutAsRefusal(w) ==
  /\ calls[w] # <<>>
  /\ Ends(w, "failed", "not_saved")
  /\ rpc' = IF stage[w] = "applied" THEN [rpc EXCEPT ![w] = NoRpc] ELSE rpc
  /\ UNCHANGED <<kernelVars, shown, booted, pending, finishing, mail, missed, left>>

(* Faulty: a timeout before the call began is not shown. *)
TimeoutUnseen(w) ==
  /\ calls[w] # <<>>
  /\ Ends(w, IF stage[w] = "waiting" THEN dock[w] ELSE "failed", "timeout")
  /\ rpc' = IF stage[w] = "applied" THEN [rpc EXCEPT ![w] = NoRpc] ELSE rpc
  /\ UNCHANGED <<kernelVars, shown, booted, pending, finishing, mail, missed, left>>

(* The ten seconds of the first call are over, whether it has begun or    *)
(* not.  A save that waits for its RPC is of unknown outcome.              *)
Timeout(w) ==
  /\ calls[w] # <<>>
  /\ Ends(w, "failed", IF stage[w] = "asked" THEN "unknown" ELSE "timeout")
  /\ rpc' = IF stage[w] = "applied" THEN [rpc EXCEPT ![w] = NoRpc] ELSE rpc
  /\ UNCHANGED <<kernelVars, shown, booted, pending, finishing, mail, missed, left>>

(* The answer of an RPC whose call gave up is dropped; the queue is free. *)
OrphanSettles(w) ==
  /\ rpc[w].state \in {"answered", "error"}
  /\ stage[w] = "waiting"
  /\ rpc' = [rpc EXCEPT ![w] = NoRpc]
  /\ UNCHANGED <<kernelVars, windowVars, mail, missed, left>>

(* confirmKernelPolicyReloaded *)
Confirms(w, expected) == rpc[w].answer.ready /\ rpc[w].answer.policy = expected

(* loadPolicy: the copy is replaced once the kernel confirmed it. *)
ReloadConfirmed(w) ==
  /\ stage[w] = "asked" /\ Current(w).kind # "save"
  /\ rpc[w].state = "answered"
  /\ Confirms(w, rpc[w].answer.policy)
  /\ shown' = [shown EXCEPT ![w] = rpc[w].answer.policy]
  /\ Ends(w, "confirmed", "none")
  /\ finishing' = IF Current(w).kind \in {"bootstrap", "refresh"}
                  THEN [finishing EXCEPT ![w] = @ + 1] ELSE finishing
  /\ rpc' = [rpc EXCEPT ![w] = NoRpc]
  /\ UNCHANGED <<kernelVars, booted, pending, mail, missed, left>>

ReloadFailed(w) ==
  /\ stage[w] = "asked" /\ Current(w).kind # "save"
  /\ \/ rpc[w].state = "error"
     \/ rpc[w].state = "answered" /\ ~Confirms(w, rpc[w].answer.policy)
  /\ Ends(w, "failed", "none")
  /\ rpc' = [rpc EXCEPT ![w] = NoRpc]
  /\ UNCHANGED <<kernelVars, shown, booted, pending, finishing, mail, missed, left>>

(* persistPolicy: the copy is replaced when the kernel says "saved", then *)
(* the confirmation is awaited.                                            *)
SaveApplied(w) ==
  /\ stage[w] = "asked" /\ Current(w).kind = "save"
  /\ rpc[w].state = "answered" /\ rpc[w].answer.saved = "saved"
  /\ shown' = [shown EXCEPT ![w] = Current(w).policy]
  /\ stage' = [stage EXCEPT ![w] = "applied"]
  /\ UNCHANGED <<kernelVars, dock, booted, pending, finishing, calls, report, rpc, mail, missed, left>>

SaveConfirmed(w) ==
  /\ stage[w] = "applied"
  /\ IF Confirms(w, Current(w).policy)
     THEN Ends(w, "confirmed", "saved")
     ELSE Ends(w, "failed", "unconfirmed")
  /\ rpc' = [rpc EXCEPT ![w] = NoRpc]
  /\ UNCHANGED <<kernelVars, shown, booted, pending, finishing, mail, missed, left>>

(* An RPC error is an uncertain save; so is any answer but "not_saved". *)
SaveFailed(w) ==
  /\ stage[w] = "asked" /\ Current(w).kind = "save"
  /\ \/ rpc[w].state = "error" /\ Ends(w, "failed", "unknown")
     \/ /\ rpc[w].state = "answered" /\ rpc[w].answer.saved # "saved"
        /\ Ends(w, "failed", IF rpc[w].answer.saved = "not_saved" THEN "not_saved" ELSE "unknown")
  /\ rpc' = [rpc EXCEPT ![w] = NoRpc]
  /\ UNCHANGED <<kernelVars, shown, booted, pending, finishing, mail, missed, left>>

(* The window holds an answer of the kernel that it has not applied yet. *)
AnswerInHand(w) ==
  /\ stage[w] = "asked" /\ rpc[w].state = "answered"
  /\ rpc[w].answer.ready \/ rpc[w].answer.saved = "saved"

(* Reload when the pushed fingerprint is not that of the copy. *)
ReloadOnDrift(w, pushed) ==
  IF pushed = shown[w]
  THEN /\ missed' = IF AnswerInHand(w) THEN missed \cup {w} ELSE missed
       /\ UNCHANGED calls
  ELSE /\ calls' = [calls EXCEPT ![w] = Append(@, Call("changed", None))]
       /\ UNCHANGED missed

(* handlePolicyNotification.  Before the first reload is finished only    *)
(* the last fingerprint is kept.                                           *)
Notified(w) ==
  /\ mail[w] # <<>>
  /\ mail' = [mail EXCEPT ![w] = Tail(@)]
  /\ IF booted[w]
     THEN ReloadOnDrift(w, Head(mail[w])) /\ UNCHANGED pending
     ELSE pending' = [pending EXCEPT ![w] = Head(mail[w])] /\ UNCHANGED <<calls, missed>>
  /\ UNCHANGED <<kernelVars, shown, dock, booted, finishing, stage, report, rpc, left>>

(* Faulty: what was pushed during the start is forgotten. *)
FinishBootstrapForgetting(w) ==
  /\ finishing[w] > 0
  /\ finishing' = [finishing EXCEPT ![w] = @ - 1]
  /\ booted' = [booted EXCEPT ![w] = TRUE]
  /\ pending' = [pending EXCEPT ![w] = None]
  /\ UNCHANGED <<kernelVars, shown, dock, calls, stage, report, rpc, mail, missed, left>>

(* bootstrap and refreshAll end when the notebooks are there, too: what   *)
(* was pushed meanwhile is looked at.  Without the notebooks they fail.    *)
FinishBootstrap(w) ==
  /\ finishing[w] > 0
  /\ finishing' = [finishing EXCEPT ![w] = @ - 1]
  /\ booted' = [booted EXCEPT ![w] = TRUE]
  /\ pending' = [pending EXCEPT ![w] = None]
  /\ IF pending[w] = None THEN UNCHANGED <<calls, missed>> ELSE ReloadOnDrift(w, pending[w])
  /\ UNCHANGED <<kernelVars, shown, dock, stage, report, rpc, mail, left>>

NotebooksFail(w) ==
  /\ MayFail /\ finishing[w] > 0
  /\ Spend("faults")
  /\ finishing' = [finishing EXCEPT ![w] = @ - 1]
  /\ UNCHANGED <<kernelVars, shown, dock, booted, pending, calls, stage, report, rpc, mail, missed>>

(* The user presses the dock's refresh button. *)
Refresh(w) ==
  /\ Spend("refreshes")
  /\ calls' = [calls EXCEPT ![w] = Append(@, Call("refresh", None))]
  /\ UNCHANGED <<kernelVars, shown, dock, booted, pending, finishing, stage, report, rpc, mail, missed>>

(* The user saves a policy in the settings dialog. *)
Save(w) ==
  /\ Spend("saves")
  /\ \E p \in Policies \ {Default} :
       calls' = [calls EXCEPT ![w] = Append(@, Call("save", p))]
  /\ report' = [report EXCEPT ![w] = "none"]
  /\ UNCHANGED <<kernelVars, shown, dock, booted, pending, finishing, stage, rpc, mail, missed>>

Kernel(w) == ServeReload(w) \/ ServeSave(w) \/ ServeSaveLate(w) \/ ServeFailed(w)
             \/ ServeSaveUnknown(w) \/ RpcFails(w)

Finishes(w) == ReloadConfirmed(w) \/ ReloadFailed(w) \/ SaveConfirmed(w) \/ SaveFailed(w)

Window(w) == Start(w) \/ StartBlocked(w) \/ Timeout(w) \/ OrphanSettles(w) \/ SaveApplied(w)
             \/ Finishes(w) \/ Notified(w) \/ FinishBootstrap(w) \/ NotebooksFail(w)

User(w) == Refresh(w) \/ Save(w)

Next == PutSettles \/ Restart \/ \E w \in Windows : Kernel(w) \/ Window(w) \/ User(w)

Spec == Init /\ [][Next]_vars

(* A window's own steps and its timers happen; the kernel need not answer. *)
FairSpec == Spec /\ \A w \in Windows : WF_vars(Start(w) \/ StartBlocked(w)) /\ WF_vars(Timeout(w))

-----------------------------------------------------------------------------

Answers == [ready : BOOLEAN, policy : Policies, saved : {"none", "not_saved", "unknown", "saved"}]

(* Every variable has its type; a call that has asked has its RPC.        *)
(* Models policySyncQueue and the fields of index.ts:86-95.               *)
SyncTypeOK ==
  /\ disk \in Policies /\ published \in Policies /\ ready \in BOOLEAN
  /\ latePut \in Policies \cup {None} /\ fenced \in BOOLEAN
  /\ shown \in [Windows -> Policies]
  /\ dock \in [Windows -> {"syncing", "confirmed", "failed"}]
  /\ booted \in [Windows -> BOOLEAN]
  /\ pending \in [Windows -> Policies \cup {None}]
  /\ finishing \in [Windows -> Nat]
  /\ calls \in [Windows -> Seq([kind : CallKinds, policy : Policies \cup {None}])]
  /\ stage \in [Windows -> {"waiting", "asked", "applied"}]
  /\ rpc \in [Windows -> [state : {"none", "sent", "answered", "error"},
                          policy : Policies \cup {None}, answer : Answers,
                          inForce : SUBSET Policies, written : {"no", "maybe", "yes"}]]
  /\ mail \in [Windows -> Seq(Policies)]
  /\ report \in [Windows -> Reports]
  /\ missed \in SUBSET Windows
  /\ left \in [{"saves", "refreshes", "faults", "restarts"} -> Nat]
  /\ \A w \in Windows :
       stage[w] # "waiting" => /\ calls[w] # <<>> /\ rpc[w].state # "none"
                               /\ rpc[w].policy = Current(w).policy

(* What a window tells its user is true, however late and in whatever     *)
(* order the answers, timeouts and errors come: a policy it shows as       *)
(* confirmed was in force in the kernel since the call began; a save it    *)
(* reports as failed for certain wrote nothing; one it reports as saved    *)
(* was written.  (index.ts:446-483, policy-storage.ts:57-81)               *)
ReportsTrue ==
  [][\A w \in Windows :
       /\ dock'[w] = "confirmed" /\ dock[w] # "confirmed" => shown'[w] \in rpc[w].inForce
       /\ report'[w] = "not_saved" /\ report[w] # "not_saved" => rpc[w].written = "no"
       /\ report'[w] \in {"saved", "unconfirmed"} /\ report[w] # report'[w] => rpc[w].written = "yes"
    ]_vars

(* Nothing is under way in the window. *)
AtRest(w) == calls[w] = <<>> /\ rpc[w].state = "none" /\ mail[w] = <<>> /\ finishing[w] = 0

Stale(w) == AtRest(w) /\ ready /\ dock[w] = "confirmed" /\ shown[w] # published

(* A window at rest shows as confirmed a policy that the kernel does not  *)
(* obey only if the change never was pushed to it, if it was pushed while  *)
(* the window held an answer it had not applied and equalled the copy of   *)
(* that moment, or if the window has not finished starting.                *)
(* (index.ts:96-107 and 131-145, policy-storage.ts:76-80)                  *)
StaleHasCause ==
  \A w \in Windows : Stale(w) => w \in missed \/ (~booted[w] /\ pending[w] # None)

(* The kernel comes to obey another policy than the one on disk only      *)
(* through a put of an instance that was unloaded: within an instance the  *)
(* queue lets nobody read or write while a put is out, and the default is  *)
(* in force until it settles.  (policy-sync.ts:62, policy-storage.ts:100)  *)
DivergenceOutlives ==
  [][ready' /\ published' # disk' /\ (ready => published = disk)
       => latePut # None /\ ~fenced]_vars

(* "so the dock never stays on 'synchronizing'" (index.ts:434), even when  *)
(* the kernel never answers.                                               *)
DockSettles == \A w \in Windows : []<>(dock[w] # "syncing")
=============================================================================
