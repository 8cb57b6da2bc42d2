--------------------------- MODULE PolicyTaskQueue ---------------------------
(***************************************************************************)
(* The kernel's deadline queue, src/src/policy-sync.ts.                    *)
(*                                                                         *)
(* Every policy read, policy save and audit append of the kernel plugin is *)
(* one call of PolicyTaskQueue.run.  Calls run one after the other on a    *)
(* promise chain; each has a deadline counted from the moment it was       *)
(* queued; each host request a call makes goes through task.wait, which    *)
(* races the request against the deadline.  The request itself cannot be   *)
(* cancelled: when the deadline wins, the request is orphaned and may      *)
(* still take effect later.                                                *)
(*                                                                         *)
(* Granularity: one action is one microtask of the JavaScript event loop   *)
(* or one macrotask (timer, host completion).  A macrotask runs only when  *)
(* no microtask is left (Quiescent).  The clock may pass a deadline        *)
(* anywhere, also between two microtasks.                                  *)
(***************************************************************************)
EXTENDS Naturals, Sequences, FiniteSets

CONSTANTS
  Task,      \* the calls of run(); each is made at most once
  Straying,  \* those whose action also awaits a promise outside task.wait
  MaxWaits   \* bound: task.wait calls one action makes

ASSUME QueueAssumption == MaxWaits \in Nat

VARIABLES
  queue,        \* calls not settled by the chain yet, oldest first (`tail`)
  phase,        \* where each call stands
  inFlight,     \* the counter `inFlight`
  outstanding,  \* calls whose host request has started and not settled
  late,         \* calls for which Date.now() >= deadline
  ended,        \* calls whose deadline timer has fired (`ended`)
  answer,       \* what the call's last task.wait produced
  waits,        \* number of task.wait calls made so far
  caller        \* what the caller of run() has been told

vars == <<queue, phase, inFlight, outstanding, late, ended, answer, waits, caller>>

Active == {"running", "starting", "waiting", "resumed", "straying"}

Phases == {"idle", "queued", "done"} \cup Active

Answers == {"none", "ok", "error", "timeout"}

Replies == {"none", "pending", "value", "error", "timeout", "blocked", "raw"}

Init ==
  /\ queue = <<>>
  /\ phase = [t \in Task |-> "idle"]
  /\ inFlight = 0
  /\ outstanding = {}
  /\ late = {}
  /\ ended = {}
  /\ answer = [t \in Task |-> "none"]
  /\ waits = [t \in Task |-> 0]
  /\ caller = [t \in Task |-> "none"]

(* check() passes: the timer has not fired and the deadline is ahead. *)
InTime(t) == t \notin ended /\ t \notin late

Current(t) == queue # <<>> /\ Head(queue) = t

(* No microtask is pending: the call at the head of the chain, if any, awaits *)
(* the host or a promise of its own.                                          *)
Quiescent == queue # <<>> => phase[Head(queue)] \in {"waiting", "straying"}

(* All calls of one queue have the same timeout, so deadlines pass, and timers *)
(* fire, in the order of the calls.                                            *)
Ahead(t) == {u \in Task : \E i, j \in 1..Len(queue) : i < j /\ queue[i] = u /\ queue[j] = t}

IsQueued(t) == \E i \in 1..Len(queue) : queue[i] = t

-----------------------------------------------------------------------------
(* run(): arm the timer, append to the chain, return a promise. *)
Run(t) ==
  /\ phase[t] = "idle"
  /\ phase' = [phase EXCEPT ![t] = "queued"]
  /\ queue' = Append(queue, t)
  /\ caller' = [caller EXCEPT ![t] = "pending"]
  /\ UNCHANGED <<inFlight, outstanding, late, ended, answer, waits>>

(* `pending` settles: the chain moves on, the timer is cleared, and the caller *)
(* is told r unless it already got the raw timeout.                            *)
Settle(t, r) ==
  /\ phase' = [phase EXCEPT ![t] = "done"]
  /\ queue' = Tail(queue)
  /\ caller' = [caller EXCEPT ![t] = IF @ = "pending" THEN r ELSE @]

(* Faulty Begin: an orphaned request does not block the queue. *)
BeginIgnoringOrphans(t) ==
  /\ Current(t)
  /\ phase[t] = "queued"
  /\ \/ /\ ~InTime(t)
        /\ Settle(t, "timeout")
     \/ /\ InTime(t)
        /\ phase' = [phase EXCEPT ![t] = "running"]
        /\ UNCHANGED <<queue, caller>>
  /\ UNCHANGED <<inFlight, outstanding, late, ended, answer, waits>>

(* tail.then: check(), then refuse while an orphaned request is in flight, *)
(* then enter the action.                                                  *)
Begin(t) ==
  /\ Current(t)
  /\ phase[t] = "queued"
  /\ \/ /\ ~InTime(t)
        /\ Settle(t, "timeout")
     \/ /\ InTime(t)
        /\ inFlight > 0
        /\ Settle(t, "blocked")
     \/ /\ InTime(t)
        /\ inFlight = 0
        /\ phase' = [phase EXCEPT ![t] = "running"]
        /\ UNCHANGED <<queue, caller>>
  /\ UNCHANGED <<inFlight, outstanding, late, ended, answer, waits>>

(* task.wait, first half: check() throws at once or the counter goes up. *)
Wait(t) ==
  /\ phase[t] = "running"
  /\ waits[t] < MaxWaits
  /\ waits' = [waits EXCEPT ![t] = @ + 1]
  /\ \/ /\ InTime(t)
        /\ inFlight' = inFlight + 1
        /\ phase' = [phase EXCEPT ![t] = "starting"]
        /\ UNCHANGED answer
     \/ /\ ~InTime(t)
        /\ answer' = [answer EXCEPT ![t] = "timeout"]
        /\ UNCHANGED <<inFlight, phase>>
  /\ UNCHANGED <<queue, outstanding, late, ended, caller>>

(* Faulty StartRequest: the counter is not taken back when the check throws. *)
StartRequestLeaking(t) ==
  /\ phase[t] = "starting"
  /\ \/ /\ InTime(t)
        /\ outstanding' = outstanding \cup {t}
        /\ phase' = [phase EXCEPT ![t] = "waiting"]
        /\ UNCHANGED <<inFlight, answer>>
     \/ /\ ~InTime(t)
        /\ phase' = [phase EXCEPT ![t] = "running"]
        /\ answer' = [answer EXCEPT ![t] = "timeout"]
        /\ UNCHANGED <<inFlight, outstanding>>
  /\ UNCHANGED <<queue, late, ended, waits, caller>>

(* The microtask that makes the host call.  It checks the deadline again; when  *)
(* it throws, `finally` takes the counter back and the race rejects.            *)
StartRequest(t) ==
  /\ phase[t] = "starting"
  /\ \/ /\ InTime(t)
        /\ outstanding' = outstanding \cup {t}
        /\ phase' = [phase EXCEPT ![t] = "waiting"]
        /\ UNCHANGED <<inFlight, answer>>
     \/ /\ ~InTime(t)
        /\ inFlight' = inFlight - 1
        /\ phase' = [phase EXCEPT ![t] = "running"]
        /\ answer' = [answer EXCEPT ![t] = "timeout"]
        /\ UNCHANGED outstanding
  /\ UNCHANGED <<queue, late, ended, waits, caller>>

(* The host answers a request, possibly one whose caller stopped waiting. *)
HostSettles(t) ==
  /\ Quiescent
  /\ t \in outstanding
  /\ outstanding' = outstanding \ {t}
  /\ inFlight' = inFlight - 1
  /\ \/ /\ phase[t] = "waiting"
        /\ phase' = [phase EXCEPT ![t] = "resumed"]
        /\ \E a \in {"ok", "error"} : answer' = [answer EXCEPT ![t] = a]
     \/ /\ phase[t] # "waiting"
        /\ UNCHANGED <<phase, answer>>
  /\ UNCHANGED <<queue, late, ended, waits, caller>>

(* task.wait, second half: a value is handed over only if check() still passes. *)
Resume(t) ==
  /\ phase[t] = "resumed"
  /\ phase' = [phase EXCEPT ![t] = "running"]
  /\ answer' = [answer EXCEPT ![t] = IF @ = "ok" /\ ~InTime(t) THEN "timeout" ELSE @]
  /\ UNCHANGED <<queue, inFlight, outstanding, late, ended, waits, caller>>

(* The action awaits a promise that is not a host request of task.wait; no   *)
(* deadline reaches such an await, and it may never settle.                   *)
Stray(t) ==
  /\ t \in Straying
  /\ phase[t] = "running"
  /\ waits[t] < MaxWaits
  /\ waits' = [waits EXCEPT ![t] = @ + 1]
  /\ phase' = [phase EXCEPT ![t] = "straying"]
  /\ UNCHANGED <<queue, inFlight, outstanding, late, ended, answer, caller>>

StrayReturns(t) ==
  /\ phase[t] = "straying"
  /\ phase' = [phase EXCEPT ![t] = "running"]
  /\ UNCHANGED <<queue, inFlight, outstanding, late, ended, answer, waits, caller>>

(* The action returns or throws.  It may swallow a timeout (the audit store     *)
(* does); it reports one only if a wait or its own task.check() threw it.       *)
Finish(t) ==
  /\ phase[t] = "running"
  /\ \E r \in {"value", "error", "timeout"} :
        /\ r = "timeout" => answer[t] = "timeout" \/ ~InTime(t)
        /\ Settle(t, r)
  /\ UNCHANGED <<inFlight, outstanding, late, ended, answer, waits>>

-----------------------------------------------------------------------------
(* Time. *)

DeadlinePasses(t) ==
  /\ IsQueued(t)
  /\ t \notin late
  /\ Ahead(t) \subseteq late
  /\ late' = late \cup {t}
  /\ UNCHANGED <<queue, phase, inFlight, outstanding, ended, answer, waits, caller>>

(* Faulty TimerFires: ownership ends with the wait. *)
TimerFiresReleasing(t) ==
  /\ Quiescent
  /\ IsQueued(t)
  /\ t \notin ended
  /\ Ahead(t) \subseteq ended
  /\ ended' = ended \cup {t}
  /\ \/ /\ phase[t] = "waiting"
        /\ phase' = [phase EXCEPT ![t] = "running"]
        /\ answer' = [answer EXCEPT ![t] = "timeout"]
        /\ inFlight' = inFlight - 1
     \/ /\ phase[t] # "waiting"
        /\ UNCHANGED <<phase, answer, inFlight>>
  /\ UNCHANGED <<queue, outstanding, late, waits, caller>>

(* The deadline timer: `ended` is set and a call waiting for the host gets the *)
(* timeout from the race; its request stays outstanding.                       *)
TimerFires(t) ==
  /\ Quiescent
  /\ IsQueued(t)
  /\ t \notin ended
  /\ Ahead(t) \subseteq ended
  /\ ended' = ended \cup {t}
  /\ \/ /\ phase[t] = "waiting"
        /\ phase' = [phase EXCEPT ![t] = "running"]
        /\ answer' = [answer EXCEPT ![t] = "timeout"]
     \/ /\ phase[t] # "waiting"
        /\ UNCHANGED <<phase, answer>>
  /\ UNCHANGED <<queue, inFlight, outstanding, late, waits, caller>>

(* Faulty RawTimeout: calls that never started are not covered. *)
RawTimeoutOnceStarted(t) ==
  /\ Quiescent
  /\ t \in ended
  /\ phase[t] # "queued"
  /\ caller[t] = "pending"
  /\ caller' = [caller EXCEPT ![t] = "raw"]
  /\ UNCHANGED <<queue, phase, inFlight, outstanding, late, ended, answer, waits>>

(* setTimeout(..., 0) armed by the expired timer: the caller gets the raw       *)
(* timeout if the chain has not settled its promise by then.                    *)
RawTimeout(t) ==
  /\ Quiescent
  /\ t \in ended
  /\ caller[t] = "pending"
  /\ caller' = [caller EXCEPT ![t] = "raw"]
  /\ UNCHANGED <<queue, phase, inFlight, outstanding, late, ended, answer, waits>>

Microtask(t) ==
  \/ Begin(t)
  \/ Wait(t)
  \/ StartRequest(t)
  \/ Resume(t)
  \/ Stray(t)
  \/ Finish(t)

Next ==
  \E t \in Task :
    \/ Run(t)
    \/ Microtask(t)
    \/ HostSettles(t)
    \/ StrayReturns(t)
    \/ DeadlinePasses(t)
    \/ TimerFires(t)
    \/ RawTimeout(t)

Spec == Init /\ [][Next]_vars

(* The event loop runs its microtasks and its timers.  Nothing is assumed of the *)
(* host, nor of a straying promise: either may stay unanswered for ever.         *)
Fairness ==
  \A t \in Task :
    /\ WF_vars(Microtask(t))
    /\ WF_vars(TimerFires(t))
    /\ WF_vars(RawTimeout(t))

FairSpec == Spec /\ Fairness

-----------------------------------------------------------------------------
(* The variables have the types the code gives them. *)
TypeOK ==
  /\ queue \in Seq(Task)
  /\ phase \in [Task -> Phases]
  /\ inFlight \in Nat
  /\ outstanding \subseteq Task
  /\ late \subseteq Task
  /\ ended \subseteq Task
  /\ answer \in [Task -> Answers]
  /\ waits \in [Task -> 0..MaxWaits]
  /\ caller \in [Task -> Replies]

(* The host never serves two requests of the queue at once, also when the first *)
(* is an orphan whose caller has long been told "timeout" (policy-sync.ts:62).  *)
OneHostRequest == \A a, b \in outstanding : a = b

(* The strengthening the proofs rest on.  ChainInv: the promise chain holds    *)
(* distinct calls and only its head is under way.  RequestInv: which calls may  *)
(* own the one request in flight, and what the counter then reads.  TimerInv:   *)
(* deadlines end the calls in the order they were made.                         *)
ChainInv ==
  /\ \A i, j \in 1..Len(queue) : queue[i] = queue[j] => i = j
  /\ \A i \in 1..Len(queue) :
        phase[queue[i]] = "queued" \/ (i = 1 /\ phase[queue[i]] \in Active)
  /\ \A t \in Task : phase[t] \in Active => Current(t)

RequestInv ==
  /\ \A t \in Task : phase[t] = "waiting" => t \in outstanding /\ t \notin ended
  /\ \A t \in Task : phase[t] = "starting" => outstanding = {}
  /\ \A o \in outstanding :
        /\ phase[o] # "waiting" => o \in ended /\ phase[o] \in {"running", "straying", "done"}
        /\ \A t \in Task : phase[t] \in Active => t = o
  /\ OneHostRequest
  /\ inFlight = IF outstanding = {} /\ \A t \in Task : phase[t] # "starting" THEN 0 ELSE 1

TimerInv ==
  /\ \A t \in ended : phase[t] # "idle"
  /\ \A i, j \in 1..Len(queue) : i < j /\ queue[j] \in ended => queue[i] \in ended
  /\ \A t \in Task : caller[t] = "pending" => IsQueued(t)

IInv == TypeOK /\ ChainInv /\ RequestInv /\ TimerInv

(* A call that holds the host storage: its action is under way, or its host    *)
(* request is.                                                                  *)
Owners == {t \in Task : phase[t] \in Active} \cup outstanding

Ownership == INSTANCE WriteOwnership WITH owners <- Owners

(* The queue implements WriteOwnership: ownership outlives the caller's wait,   *)
(* and passes to another call only after the host request has settled.          *)
OwnershipSpec == Ownership!Spec

(* A call is refused as blocked only because some finished call's request is    *)
(* still in flight at the host: no refusal without cause, so the counter never  *)
(* leaks and a recovered host reopens the queue.                                *)
BlockedOnlyByOrphan ==
  [][\A t \in Task :
       caller'[t] = "blocked" /\ caller[t] # "blocked" =>
         \E o \in outstanding : phase[o] = "done"]_vars

(* The raw timeout reaches a caller only when the action at the head of the     *)
(* chain truly does not settle; otherwise its classified failure settles the    *)
(* caller's promise first (policy-sync.ts:77-80).                               *)
RawTimeoutOnlyWhenStuck ==
  [][\A t \in Task :
       caller'[t] = "raw" /\ caller[t] # "raw" =>
         queue # <<>> /\ phase[Head(queue)] = "straying"]_vars

(* A caller is refused, or sees the raw timeout, only for a cause. *)
RefusalsHaveCause == BlockedOnlyByOrphan /\ RawTimeoutOnlyWhenStuck

(* Every call is answered, even when the host never answers any request.        *)
EveryCallSettles ==
  \A t \in Task : caller[t] = "pending" ~> caller[t] \notin {"none", "pending"}
=============================================================================
