------------------------ MODULE PolicyTaskQueueProofs ------------------------
(***************************************************************************)
(* Proofs about the deadline queue, for every set of calls, every set of   *)
(* straying actions and every bound on the number of waits.                *)
(*                                                                         *)
(* The argument: only the head of the promise chain runs (ChainInv), and   *)
(* it may enter its action only when the counter of requests is 0, which   *)
(* RequestInv ties to "no request is starting or outstanding".  A call     *)
(* whose request is orphaned has its timer fired, and so never passes      *)
(* check() again and starts no second request.  TimerInv carries the order *)
(* of the deadlines, which the property of the raw timeout needs.          *)
(***************************************************************************)
EXTENDS PolicyTaskQueue, TLAPS

(* The initial state satisfies the invariant. *)
LEMMA InitInv == Init => IInv
  BY QueueAssumption
  DEF Init, IInv, TypeOK, ChainInv, RequestInv, TimerInv, OneHostRequest,
      Active, Phases, Answers, Replies, IsQueued

(* The head of the chain moves between the steps of its action. *)
LEMMA ActiveStep ==
  ASSUME TypeOK, ChainInv, NEW t \in Task, phase[t] \in Active,
         NEW p \in Active, phase' = [phase EXCEPT ![t] = p], UNCHANGED queue
  PROVE  ChainInv'
  BY DEF TypeOK, ChainInv, Active, Current

(* Settling a call moves the chain to its successor. *)
LEMMA SettleStep ==
  ASSUME IInv, NEW t \in Task, Current(t), phase[t] \in {"queued", "running"},
         NEW r \in Replies, r # "pending", Settle(t, r),
         UNCHANGED <<inFlight, outstanding, late, ended, answer, waits>>
  PROVE  IInv'
<1> USE DEF IInv, TypeOK, Current, Settle
<1>1. TypeOK'
  BY DEF Phases, Active, Replies
<1>2. /\ Len(queue') = Len(queue) - 1
      /\ \A i \in 1..Len(queue') : queue'[i] = queue[i + 1] /\ i + 1 \in 1..Len(queue)
      /\ queue[1] = t /\ 1 \in 1..Len(queue)
  OBVIOUS
<1>3. ChainInv'
  <2>1. \A i, j \in 1..Len(queue') : queue'[i] = queue'[j] => i = j
    BY <1>2 DEF ChainInv
  <2>2. \A i \in 1..Len(queue') : phase'[queue'[i]] = "queued"
    BY <1>2 DEF ChainInv
  <2>3. \A u \in Task : phase'[u] \notin Active
    BY DEF ChainInv, Active
  <2>4. QED
    BY <2>1, <2>2, <2>3 DEF ChainInv
<1>4. RequestInv'
  <2>1. \A u \in Task : phase'[u] \notin Active
    BY DEF ChainInv, Active
  <2>2. phase[t] # "starting" /\ \A u \in Task : phase[u] # "starting"
    BY DEF ChainInv, Active
  <2>3. \A o \in outstanding : o \in ended /\ phase'[o] = "done"
    BY DEF ChainInv, RequestInv, Active
  <2>4. OneHostRequest'
    BY DEF RequestInv, OneHostRequest
  <2>5. \A u \in Task : phase'[u] # "starting" /\ phase'[u] # "waiting"
    BY <2>1 DEF Active
  <2>6. inFlight' = IF outstanding' = {} /\ \A u \in Task : phase'[u] # "starting" THEN 0 ELSE 1
    BY <2>2, <2>5 DEF RequestInv
  <2>7. QED
    BY <2>1, <2>3, <2>4, <2>5, <2>6 DEF RequestInv
<1>5. TimerInv'
  <2>1. \A u \in ended : phase'[u] # "idle"
    BY DEF TimerInv
  <2>2. \A i, j \in 1..Len(queue') : i < j /\ queue'[j] \in ended => queue'[i] \in ended
    BY <1>2 DEF TimerInv
  <2>3. ASSUME NEW u \in Task, caller'[u] = "pending"
        PROVE  IsQueued(u)'
    <3>1. caller[u] = "pending" /\ u # t
      BY <2>3
    <3>2. PICK i \in 1..Len(queue) : queue[i] = u
      BY <3>1 DEF TimerInv, IsQueued
    <3>3. i # 1 /\ i - 1 \in 1..Len(queue')
      BY <3>1, <3>2, <1>2
    <3>4. queue'[i - 1] = u
      BY <3>2, <3>3, <1>2
    <3>5. QED
      BY <3>3, <3>4 DEF IsQueued
  <2>4. QED
    BY <2>1, <2>2, <2>3 DEF TimerInv
<1>6. QED
  BY <1>1, <1>3, <1>4, <1>5

(* A new call joins the end of the chain. *)
LEMMA RunStep ==
  ASSUME IInv, NEW t \in Task, Run(t)
  PROVE  IInv'
<1> USE DEF IInv, TypeOK, Run
<1>1. TypeOK'
  BY DEF Phases, Active, Replies
<1>2. /\ Len(queue') = Len(queue) + 1
      /\ \A i \in 1..Len(queue) : queue'[i] = queue[i]
      /\ queue'[Len(queue) + 1] = t
      /\ Len(queue) \in Nat
  OBVIOUS
<1> HIDE DEF Run
<1>3. queue # <<>> => queue' # <<>> /\ Head(queue') = Head(queue)
  <2>1. SUFFICES ASSUME queue # <<>>
                 PROVE  queue' # <<>> /\ Head(queue') = Head(queue)
    OBVIOUS
  <2>2. Len(queue) > 0 /\ 1 \in 1..Len(queue)
    BY <2>1, <1>2
  <2>3. queue' \in Seq(Task) /\ Len(queue') > 0
    BY <2>2, <1>1, <1>2
  <2>4. Head(queue') = queue'[1] /\ Head(queue) = queue[1] /\ queue' # <<>>
    BY <2>1, <2>3
  <2>5. QED
    BY <2>2, <2>4, <1>2
<1> USE DEF Run
<1>4. \A i \in 1..Len(queue) : queue[i] # t
  BY DEF ChainInv, Active
<1>5. ChainInv'
  <2>1. \A i, j \in 1..Len(queue') : queue'[i] = queue'[j] => i = j
    BY <1>2, <1>4 DEF ChainInv
  <2>2. \A i \in 1..Len(queue') :
          phase'[queue'[i]] = "queued" \/ (i = 1 /\ phase'[queue'[i]] \in Active)
    BY <1>2, <1>4 DEF ChainInv
  <2>3. ASSUME NEW u \in Task, phase'[u] \in Active
        PROVE  Current(u)'
    <3>1. phase[u] \in Active
      BY <2>3 DEF Active
    <3>2. queue # <<>> /\ Head(queue) = u
      BY <3>1 DEF ChainInv, Current
    <3>3. QED
      BY <3>2, <1>3 DEF Current
  <2>4. QED
    BY <2>1, <2>2, <2>3 DEF ChainInv
<1>6. RequestInv'
  <2>1. \A u \in Task : u # t => phase'[u] = phase[u]
    OBVIOUS
  <2>2. phase'[t] = "queued" /\ t \notin outstanding
    BY DEF RequestInv
  <2>3. QED
    BY <2>1, <2>2 DEF RequestInv, OneHostRequest, Active
<1>7. TimerInv'
  <2>1. \A u \in ended : phase'[u] # "idle"
    BY DEF TimerInv
  <2>2. \A i, j \in 1..Len(queue') : i < j /\ queue'[j] \in ended => queue'[i] \in ended
    <3>1. t \notin ended
      BY DEF TimerInv
    <3>2. ASSUME NEW i \in 1..Len(queue'), NEW j \in 1..Len(queue'),
                 i < j, queue'[j] \in ended
          PROVE  queue'[i] \in ended
      <4>1. j \in 1..Len(queue) /\ i \in 1..Len(queue)
        BY <3>1, <3>2, <1>2
      <4>2. QED
        BY <4>1, <3>2, <1>2 DEF TimerInv
    <3>3. QED
      BY <3>2
  <2>3. ASSUME NEW u \in Task, caller'[u] = "pending"
        PROVE  IsQueued(u)'
    BY <2>3, <1>2 DEF TimerInv, IsQueued
  <2>4. QED
    BY <2>1, <2>2, <2>3 DEF TimerInv
<1>8. QED
  BY <1>1, <1>5, <1>6, <1>7

(* A call enters its action only when no request is in flight. *)
LEMMA BeginStep ==
  ASSUME IInv, NEW t \in Task, Begin(t)
  PROVE  IInv'
<1> USE DEF IInv, TypeOK
<1>1. CASE Settle(t, "timeout") \/ Settle(t, "blocked")
  BY <1>1, SettleStep DEF Begin, Replies
<1>2. CASE /\ inFlight = 0
           /\ phase' = [phase EXCEPT ![t] = "running"]
           /\ UNCHANGED <<queue, caller>>
  <2> USE <1>2 DEF Begin
  <2>1. TypeOK'
    BY DEF Phases, Active
  <2>2. ChainInv'
    <3>1. \A i \in 1..Len(queue) : queue[i] = t => i = 1
      BY DEF ChainInv, Current
    <3>2. \A i \in 1..Len(queue) :
            phase'[queue[i]] = "queued" \/ (i = 1 /\ phase'[queue[i]] \in Active)
      BY <3>1 DEF ChainInv, Active
    <3>3. \A u \in Task : phase'[u] \in Active => Current(u)'
      BY DEF ChainInv, Current
    <3>4. QED
      BY <3>2, <3>3 DEF ChainInv
  <2>3. outstanding = {} /\ \A u \in Task : phase[u] # "starting"
    BY DEF RequestInv
  <2>4. RequestInv'
    BY <2>3 DEF RequestInv, OneHostRequest
  <2>5. TimerInv'
    BY DEF TimerInv, IsQueued
  <2>6. QED
    BY <2>1, <2>2, <2>4, <2>5
<1>3. QED
  BY <1>1, <1>2 DEF Begin

(* A call in time owns no outstanding request, so its wait makes the only one. *)
LEMMA WaitStep ==
  ASSUME IInv, NEW t \in Task, Wait(t)
  PROVE  IInv'
<1> USE QueueAssumption DEF IInv, TypeOK, Wait
<1>1. TypeOK'
  <2>1. waits' \in [Task -> 0..MaxWaits] /\ queue' \in Seq(Task)
    OBVIOUS
  <2>2. CASE InTime(t)
    BY <2>1, <2>2 DEF Phases, Active
  <2>3. CASE ~InTime(t)
    BY <2>1, <2>3 DEF Answers
  <2>4. QED
    BY <2>2, <2>3
<1>2. CASE InTime(t)
  <2> USE <1>2 DEF InTime
  <2>1. ChainInv'
    BY ActiveStep DEF Active
  <2>2. outstanding = {} /\ \A u \in Task : phase[u] \in Active => u = t
    BY DEF RequestInv, ChainInv, Current, Active
  <2>3. inFlight = 0
    BY <2>2 DEF RequestInv, Active
  <2>4. RequestInv'
    BY <2>2, <2>3 DEF RequestInv, OneHostRequest, Active
  <2>5. TimerInv'
    BY DEF TimerInv, IsQueued
  <2>6. QED
    BY <1>1, <2>1, <2>4, <2>5
<1>3. CASE ~InTime(t)
  BY <1>1, <1>3 DEF ChainInv, RequestInv, TimerInv, OneHostRequest, Current, IsQueued
<1>4. QED
  BY <1>2, <1>3

(* The request starts, or is refused and takes its count back. *)
LEMMA StartRequestStep ==
  ASSUME IInv, NEW t \in Task, StartRequest(t)
  PROVE  IInv'
<1> USE DEF IInv, TypeOK, StartRequest
<1>1. inFlight = 1 /\ outstanding = {} /\ \A u \in Task : phase[u] \in Active => u = t
  BY DEF RequestInv, ChainInv, Current, Active
<1>2. TypeOK'
  <2>1. inFlight' \in Nat /\ outstanding' \subseteq Task
    BY <1>1 DEF InTime
  <2>2. phase' \in [Task -> Phases] /\ answer' \in [Task -> Answers]
    BY DEF Phases, Active, Answers, InTime
  <2>3. QED
    BY <2>1, <2>2
<1>3. ChainInv'
  BY ActiveStep DEF Active
<1>4. TimerInv'
  BY DEF TimerInv, IsQueued
<1>5. CASE InTime(t)
  <2>1. outstanding' = {t} /\ phase' = [phase EXCEPT ![t] = "waiting"] /\ t \notin ended
    BY <1>1, <1>5 DEF InTime
  <2>2. RequestInv'
    BY <1>1, <1>5, <2>1 DEF RequestInv, OneHostRequest, Active, InTime
  <2>3. QED
    BY <1>2, <1>3, <1>4, <2>2
<1>6. CASE ~InTime(t)
  <2>1. RequestInv'
    BY <1>1, <1>6 DEF RequestInv, OneHostRequest, Active
  <2>2. QED
    BY <1>2, <1>3, <1>4, <2>1
<1>7. QED
  BY <1>5, <1>6

(* The host settles the one outstanding request. *)
LEMMA HostSettlesStep ==
  ASSUME IInv, NEW t \in Task, HostSettles(t)
  PROVE  IInv'
<1> USE DEF IInv, TypeOK, HostSettles
<1>1. outstanding = {t} /\ inFlight = 1 /\ outstanding' = {}
  BY DEF RequestInv, OneHostRequest
<1>2. inFlight' = 0 /\ \A u \in Task : phase[u] # "starting"
  BY <1>1 DEF RequestInv
<1>3. TimerInv'
  BY DEF TimerInv, IsQueued
<1>4. CASE phase[t] = "waiting"
  <2> USE <1>4
  <2>1. PICK a \in {"ok", "error"} : answer' = [answer EXCEPT ![t] = a]
    OBVIOUS
  <2>2. TypeOK'
    BY <1>1, <1>2, <2>1 DEF Phases, Active, Answers
  <2>3. ChainInv'
    BY ActiveStep DEF Active
  <2>4. RequestInv'
    BY <1>1, <1>2 DEF RequestInv, OneHostRequest
  <2>5. QED
    BY <2>2, <2>3, <2>4, <1>3
<1>5. CASE phase[t] # "waiting"
  <2> USE <1>5
  <2>1. TypeOK' /\ ChainInv'
    BY <1>1, <1>2 DEF ChainInv, Current
  <2>2. RequestInv'
    BY <1>1, <1>2 DEF RequestInv, OneHostRequest
  <2>3. QED
    BY <2>1, <2>2, <1>3
<1>6. QED
  BY <1>4, <1>5

(* A waiting action gets its answer: only its phase and its answer change. *)
LEMMA ResumeStep ==
  ASSUME IInv, NEW t \in Task, Resume(t)
  PROVE  IInv'
<1> USE DEF IInv, TypeOK, Resume
<1>1. TypeOK'
  BY DEF Phases, Active, Answers
<1>2. ChainInv'
  BY ActiveStep DEF Active
<1>3. t \notin outstanding
  BY DEF RequestInv
<1>4. RequestInv'
  BY <1>3 DEF RequestInv, OneHostRequest, Active
<1>5. TimerInv'
  BY DEF TimerInv, IsQueued
<1>6. QED
  BY <1>1, <1>2, <1>4, <1>5

(* An action that strays, or comes back, keeps the head of the chain. *)
LEMMA StrayStep ==
  ASSUME IInv, NEW t \in Task, Stray(t) \/ StrayReturns(t)
  PROVE  IInv'
<1> USE QueueAssumption DEF IInv, TypeOK
<1>1. TypeOK'
  <2>1. CASE Stray(t)
    BY <2>1 DEF Stray, Phases, Active
  <2>2. CASE StrayReturns(t)
    BY <2>2 DEF StrayReturns, Phases, Active
  <2>3. QED
    BY <2>1, <2>2
<1>2. PICK p \in {"running", "straying"} :
        /\ phase[t] \in {"running", "straying"}
        /\ phase' = [phase EXCEPT ![t] = p]
        /\ UNCHANGED <<queue, inFlight, outstanding, late, ended, caller>>
  BY DEF Stray, StrayReturns
<1>3. ChainInv'
  BY <1>2, ActiveStep DEF Active
<1>4. RequestInv'
  BY <1>2 DEF RequestInv, OneHostRequest, Active
<1>5. TimerInv'
  BY <1>2 DEF TimerInv, IsQueued
<1>6. QED
  BY <1>1, <1>3, <1>4, <1>5

(* An action that returns or throws is the head of the chain, and settles. *)
LEMMA FinishStep ==
  ASSUME IInv, NEW t \in Task, Finish(t)
  PROVE  IInv'
<1>1. Current(t)
  BY DEF IInv, ChainInv, Finish, Active
<1>2. PICK r \in {"value", "error", "timeout"} : Settle(t, r)
  BY DEF Finish
<1>3. QED
  BY <1>1, <1>2, SettleStep DEF Finish, Replies

(* The timer of the oldest call that has not timed out fires. *)
LEMMA TimerFiresStep ==
  ASSUME IInv, NEW t \in Task, TimerFires(t)
  PROVE  IInv'
<1> USE DEF IInv, TypeOK, TimerFires
<1>1. TypeOK'
  <2>1. CASE phase[t] = "waiting"
    BY <2>1 DEF Phases, Active, Answers
  <2>2. CASE phase[t] # "waiting"
    BY <2>2
  <2>3. QED
    BY <2>1, <2>2
<1>2. ChainInv'
  <2>1. CASE phase[t] = "waiting"
    BY <2>1, ActiveStep DEF Active
  <2>2. CASE phase[t] # "waiting"
    BY <2>2 DEF ChainInv, Current
  <2>3. QED
    BY <2>1, <2>2
<1>3. RequestInv'
  <2>1. CASE phase[t] = "waiting"
    <3> USE <2>1
    <3>1. /\ t \in outstanding /\ t \in ended'
          /\ \A u \in Task : u # t => phase'[u] = phase[u] /\ phase[u] \notin Active
          /\ phase'[t] = "running"
      BY DEF RequestInv, ChainInv, Active
    <3>2. \A u \in Task : phase'[u] # "starting" /\ phase'[u] # "waiting" /\ phase[u] # "starting"
      BY <3>1 DEF Active
    <3>3. \A o \in outstanding : o = t
      BY <3>1 DEF RequestInv, OneHostRequest
    <3>4. QED
      BY <3>1, <3>2, <3>3 DEF RequestInv, OneHostRequest, Active
  <2>2. CASE phase[t] # "waiting"
    BY <2>2 DEF RequestInv, OneHostRequest
  <2>3. QED
    BY <2>1, <2>2
<1>4. TimerInv'
  <2>1. \A u \in ended' : phase'[u] # "idle"
    BY DEF TimerInv, ChainInv, IsQueued, Active
  <2>2. ASSUME NEW i \in 1..Len(queue), NEW j \in 1..Len(queue),
               i < j, queue[j] \in ended'
        PROVE  queue[i] \in ended'
    <3>1. CASE queue[j] \in ended
      BY <3>1, <2>2 DEF TimerInv
    <3>2. CASE queue[j] = t
      <4>1. queue[i] \in Ahead(t)
        BY <3>2, <2>2 DEF Ahead
      <4>2. QED
        BY <4>1
    <3>3. QED
      BY <3>1, <3>2, <2>2
  <2>3. \A u \in Task : caller'[u] = "pending" => IsQueued(u)'
    BY DEF TimerInv, IsQueued
  <2>4. QED
    BY <2>1, <2>2, <2>3 DEF TimerInv
<1>5. QED
  BY <1>1, <1>2, <1>3, <1>4

(* The invariant is inductive: one case per action. *)
LEMMA NextInv ==
  ASSUME IInv, [Next]_vars
  PROVE  IInv'
<1>1. ASSUME NEW t \in Task, DeadlinePasses(t)
      PROVE  IInv'
  BY <1>1
  DEF IInv, TypeOK, ChainInv, RequestInv, TimerInv, OneHostRequest, Current, IsQueued,
      DeadlinePasses
<1>2. ASSUME NEW t \in Task, RawTimeout(t)
      PROVE  IInv'
  BY <1>2
  DEF IInv, TypeOK, ChainInv, RequestInv, TimerInv, OneHostRequest, Current, IsQueued,
      RawTimeout, Replies
<1>3. CASE UNCHANGED vars
  BY <1>3
  DEF vars, IInv, TypeOK, ChainInv, RequestInv, TimerInv, OneHostRequest, Current, IsQueued
<1>4. QED
  BY <1>1, <1>2, <1>3, RunStep, BeginStep, WaitStep, StartRequestStep, ResumeStep,
     StrayStep, FinishStep, HostSettlesStep, TimerFiresStep
  DEF Next, Microtask

(* The invariant holds in every reachable state of the queue. *)
THEOREM Invariance == Spec => []IInv
  BY InitInv, NextInv, PTL DEF Spec

(* Every variable keeps its type. *)
THEOREM TypeCorrect == Spec => []TypeOK
<1>1. IInv => TypeOK
  BY DEF IInv
<1>2. QED
  BY <1>1, Invariance, PTL

(* The host never serves two requests of the queue at once (policy-sync.ts:62). *)
THEOREM OneRequest == Spec => []OneHostRequest
<1>1. IInv => OneHostRequest
  BY DEF IInv, RequestInv
<1>2. QED
  BY <1>1, Invariance, PTL

(* Which actions tell a caller what. *)
LEMMA CallerSteps ==
  ASSUME TypeOK, [Next]_vars, NEW t \in Task, caller'[t] # caller[t]
  PROVE  \/ caller'[t] = "pending"
         \/ Begin(t)
         \/ Finish(t)
         \/ RawTimeout(t)
<1> USE DEF TypeOK
<1>1. ASSUME NEW u \in Task, Run(u)
      PROVE  caller'[t] = "pending"
  BY <1>1 DEF Run
<1>2. ASSUME NEW u \in Task, Begin(u)
      PROVE  u = t
  BY <1>2 DEF Begin, Settle
<1>3. ASSUME NEW u \in Task, Finish(u)
      PROVE  u = t
  BY <1>3 DEF Finish, Settle
<1>4. ASSUME NEW u \in Task, RawTimeout(u)
      PROVE  u = t
  BY <1>4 DEF RawTimeout
<1>5. QED
  BY <1>1, <1>2, <1>3, <1>4
  DEF Next, Microtask, Wait, StartRequest, Resume, Stray, HostSettles, StrayReturns,
      DeadlinePasses, TimerFires, vars

(* A call is refused only while the request of a finished call is in flight. *)
THEOREM RefusalHasCause == Spec => BlockedOnlyByOrphan
<1> DEFINE Refusal ==
      \A t \in Task :
         caller'[t] = "blocked" /\ caller[t] # "blocked" =>
           \E o \in outstanding : phase[o] = "done"
<1>1. ASSUME IInv, [Next]_vars
      PROVE  Refusal
  <2> SUFFICES ASSUME NEW t \in Task, caller'[t] = "blocked", caller[t] # "blocked"
               PROVE  \E o \in outstanding : phase[o] = "done"
    OBVIOUS
  <2> USE <1>1 DEF IInv, TypeOK
  <2>1. Begin(t)
    <3>1. ~Finish(t)
      BY DEF Finish, Settle
    <3>2. ~RawTimeout(t)
      BY DEF RawTimeout
    <3>3. QED
      BY <3>1, <3>2, CallerSteps
  <2>2. inFlight > 0
    BY <2>1 DEF Begin, Settle
  <2>3. \A u \in Task : phase[u] \notin Active
    BY <2>1 DEF ChainInv, Begin, Current, Active
  <2>4. PICK o \in outstanding : TRUE
    BY <2>2, <2>3 DEF RequestInv, Active
  <2>5. phase[o] = "done"
    BY <2>3 DEF RequestInv, Active
  <2>6. QED
    BY <2>5
<1>2. QED
  BY <1>1, Invariance, PTL DEF Spec, BlockedOnlyByOrphan

(* The raw timeout escapes only past an action that does not settle. *)
THEOREM RawTimeoutHasCause == Spec => RawTimeoutOnlyWhenStuck
<1> DEFINE Escape ==
      \A t \in Task :
         caller'[t] = "raw" /\ caller[t] # "raw" =>
           queue # <<>> /\ phase[Head(queue)] = "straying"
<1>1. ASSUME IInv, [Next]_vars
      PROVE  Escape
  <2> SUFFICES ASSUME NEW t \in Task, caller'[t] = "raw", caller[t] # "raw"
               PROVE  queue # <<>> /\ phase[Head(queue)] = "straying"
    OBVIOUS
  <2> USE <1>1 DEF IInv, TypeOK
  <2>1. RawTimeout(t)
    <3>1. ~Finish(t)
      BY DEF Finish, Settle
    <3>2. ~Begin(t)
      BY DEF Begin, Settle
    <3>3. QED
      BY <3>1, <3>2, CallerSteps
  <2>2. PICK i \in 1..Len(queue) : queue[i] = t
    BY <2>1 DEF RawTimeout, TimerInv, IsQueued
  <2>3. queue # <<>> /\ 1 \in 1..Len(queue) /\ Head(queue) = queue[1] /\ queue[1] \in Task
    BY <2>2
  <2>4. queue[1] \in ended
    BY <2>1, <2>2, <2>3 DEF RawTimeout, TimerInv
  <2>5. phase[queue[1]] # "waiting"
    BY <2>3, <2>4 DEF RequestInv
  <2>6. QED
    BY <2>1, <2>3, <2>5 DEF RawTimeout, Quiescent
<1>2. QED
  BY <1>1, Invariance, PTL DEF Spec, RawTimeoutOnlyWhenStuck

(* No caller is refused or timed out without a cause, for any number of calls. *)
THEOREM CausesOfRefusal == Spec => RefusalsHaveCause
BY RefusalHasCause, RawTimeoutHasCause DEF RefusalsHaveCause

(* At any time at most one call owns the host storage. *)
LEMMA OneOwner ==
  ASSUME IInv
  PROVE  \A a, b \in Owners : a = b
  BY DEF IInv, TypeOK, Owners, ChainInv, RequestInv, OneHostRequest, Current

(* Every step acquires ownership from nobody, releases it, or leaves it. *)
LEMMA OwnershipStep ==
  ASSUME IInv, [Next]_vars
  PROVE  [Ownership!Next]_Owners
<1> USE DEF IInv, TypeOK
<1>1. Owners \subseteq Task /\ \A a, b \in Owners : a = b
  BY OneOwner DEF Owners
<1>2. ASSUME NEW t \in Task, Run(t)
      PROVE  Owners' = Owners
  BY <1>2 DEF Run, Owners, Active
<1>3. ASSUME NEW t \in Task, Begin(t)
      PROVE  Owners' = Owners \/ (Owners = {} /\ Owners' = {t})
  <2>1. \A u \in Task : phase[u] \notin Active
    BY <1>3 DEF Begin, ChainInv, Current, Active
  <2>2. CASE Settle(t, "timeout") \/ Settle(t, "blocked")
    BY <1>3, <2>1, <2>2 DEF Begin, Settle, Owners, Active
  <2>3. CASE inFlight = 0 /\ phase' = [phase EXCEPT ![t] = "running"]
    <3>1. outstanding = {}
      BY <2>3 DEF RequestInv
    <3>2. QED
      BY <1>3, <2>1, <2>3, <3>1 DEF Begin, Owners, Active
  <2>4. QED
    BY <1>3, <2>2, <2>3 DEF Begin
<1>4. ASSUME NEW t \in Task, Finish(t)
      PROVE  Owners' = Owners \/ (Owners = {t} /\ Owners' = {})
  <2>1. t \in Owners /\ Owners = {t}
    BY <1>1, <1>4 DEF Finish, Owners, Active
  <2>2. Owners' = outstanding /\ outstanding \subseteq {t}
    BY <1>4, <2>1 DEF Finish, Settle, Owners, Active
  <2>3. QED
    BY <2>1, <2>2
<1>5. ASSUME NEW t \in Task, HostSettles(t)
      PROVE  Owners' = Owners \/ (Owners = {t} /\ Owners' = {})
  <2>1. Owners = {t}
    BY <1>1, <1>5 DEF HostSettles, Owners
  <2>2. Owners' \subseteq {t}
    BY <1>5, <2>1 DEF HostSettles, Owners, Active
  <2>3. QED
    BY <2>1, <2>2
<1>6. ASSUME NEW t \in Task,
             Wait(t) \/ StartRequest(t) \/ Resume(t) \/ Stray(t) \/ StrayReturns(t)
               \/ TimerFires(t) \/ DeadlinePasses(t) \/ RawTimeout(t)
      PROVE  Owners' = Owners
  BY <1>6
  DEF Wait, StartRequest, Resume, Stray, StrayReturns, TimerFires, DeadlinePasses, RawTimeout,
      Owners, Active
<1>7. CASE UNCHANGED vars
  BY <1>7 DEF vars, Owners
<1>8. QED
  BY <1>2, <1>3, <1>4, <1>5, <1>6, <1>7
  DEF Next, Microtask, Ownership!Next, Ownership!Acquire, Ownership!Release

(* The queue implements WriteOwnership: a deadline ends the caller's wait, not *)
(* the write ownership (policy-sync.ts:23).                                    *)
THEOREM ImplementsOwnership == Spec => OwnershipSpec
<1>1. Init => Ownership!Init
  BY DEF Init, Ownership!Init, Owners, Active
<1>2. QED
  BY <1>1, OwnershipStep, Invariance, PTL DEF Spec, OwnershipSpec, Ownership!Spec
=============================================================================
