--------------------------- MODULE PolicySyncProofs ---------------------------
(***************************************************************************)
(* Proofs about the windows' copies of the policy, for every set of        *)
(* windows and policies, any number of saves, reloads, faults and restarts *)
(* and queues of any length.                                               *)
(*                                                                         *)
(* The argument: what an answer says is fixed, with its history, when the  *)
(* kernel gives it (AnswerTrue), and a window keeps the RPC of the call    *)
(* that runs until that call ends (Asking, Applied), so what it reports    *)
(* comes from the answer to the call it reports about.  While a put of     *)
(* this instance is out the kernel obeys the default (FenceInv), so only a *)
(* put of an unloaded instance can part the disk from the policy in force. *)
(* A window that no change has passed by has a call that is not served yet,*)
(* has the news on its way, or is convinced of what is on disk (NewsInv).  *)
(***************************************************************************)
EXTENDS PolicySync, SequenceTheorems, TLAPS

CallType == [kind : CallKinds, policy : Policies \cup {None}]

RpcType == [state : {"none", "sent", "answered", "error"},
            policy : Policies \cup {None}, answer : Answers,
            inForce : SUBSET Policies, written : {"no", "maybe", "yes"}]

(* The types of the variables, SyncTypeOK without its last part. *)
Types ==
  /\ disk \in Policies /\ published \in Policies /\ ready \in BOOLEAN
  /\ latePut \in Policies \cup {None} /\ fenced \in BOOLEAN
  /\ shown \in [Windows -> Policies]
  /\ dock \in [Windows -> {"syncing", "confirmed", "failed"}]
  /\ booted \in [Windows -> BOOLEAN]
  /\ pending \in [Windows -> Policies \cup {None}]
  /\ finishing \in [Windows -> Nat]
  /\ calls \in [Windows -> Seq(CallType)]
  /\ stage \in [Windows -> {"waiting", "asked", "applied"}]
  /\ rpc \in [Windows -> RpcType]
  /\ mail \in [Windows -> Seq(Policies)]
  /\ report \in [Windows -> Reports]
  /\ missed \in SUBSET Windows
  /\ left \in [{"saves", "refreshes", "faults", "restarts"} -> Nat]

(* A call that has asked has its RPC. *)
Asking(v) ==
  stage[v] # "waiting" => /\ calls[v] # <<>> /\ rpc[v].state # "none"
                          /\ rpc[v].policy = Current(v).policy

(* What an answer says is true, with its history. *)
AnswerTrue(v) ==
  /\ rpc[v].answer.ready => rpc[v].answer.policy \in rpc[v].inForce
  /\ rpc[v].answer.saved = "saved" => rpc[v].written = "yes" /\ rpc[v].policy # None
  /\ rpc[v].answer.saved = "not_saved" => rpc[v].written = "no"
  /\ rpc[v].state = "sent" => rpc[v].answer.saved = "none" /\ ~rpc[v].answer.ready

(* A save that was applied was answered, and its policy is shown. *)
Applied(v) ==
  stage[v] = "applied" => /\ rpc[v].state \in {"answered", "error"}
                          /\ rpc[v].answer.saved = "saved"
                          /\ shown[v] = Current(v).policy

WindowInv(v) == Asking(v) /\ AnswerTrue(v) /\ Applied(v)

(* While this instance's put is out, the policy in force is not ready. *)
FenceInv == fenced => latePut # None /\ ~ready

IInv == Types /\ (\A v \in Windows : WindowInv(v)) /\ FenceInv

LEMMA TypesHold == IInv => SyncTypeOK
BY DEF IInv, Types, SyncTypeOK, WindowInv, Asking, CallType, RpcType

LEMMA InitInv == Init => IInv
<1> SUFFICES ASSUME Init PROVE IInv
  OBVIOUS
<1> USE SyncAssumption
<1>1. NoAnswer \in Answers /\ NoRpc \in RpcType
  BY DEF NoAnswer, Answers, NoRpc, Rpc, RpcType
<1>2. Call("bootstrap", None) \in CallType
  BY DEF Call, CallType, CallKinds
<1>3. <<Call("bootstrap", None)>> \in Seq(CallType) /\ <<>> \in Seq(Policies)
  BY <1>2
<1>4. Types
  BY <1>1, <1>3 DEF Init, Types, Reports
<1>5. ASSUME NEW v \in Windows PROVE WindowInv(v)
  BY DEF Init, WindowInv, Asking, AnswerTrue, Applied, NoRpc, Rpc, NoAnswer
<1>6. FenceInv
  BY DEF Init, FenceInv
<1>7. QED
  BY <1>4, <1>5, <1>6 DEF IInv

(* A step that leaves a window's RPC, running call and copy alone.          *)
LEMMA Undisturbed ==
  ASSUME NEW v \in Windows, WindowInv(v), rpc'[v] = rpc[v], stage'[v] = stage[v],
         stage[v] # "waiting" => /\ calls'[v] # <<>> /\ Head(calls'[v]) = Head(calls[v])
                                 /\ shown'[v] = shown[v]
  PROVE  WindowInv(v)'
BY DEF WindowInv, Asking, AnswerTrue, Applied, Current

(* The queue of a window that has a running call. *)
LEMMA Queued ==
  ASSUME NEW q \in Seq(CallType), NEW c \in CallType
  PROVE  /\ Append(q, c) \in Seq(CallType) /\ Append(q, c) # <<>>
         /\ q # <<>> => /\ Head(Append(q, c)) = Head(q)
                        /\ Tail(q) \in Seq(CallType) /\ Head(q) \in CallType
<1>1. /\ Append(q, c) \in Seq(CallType) /\ Append(q, c) # <<>>
      /\ \A i \in 1..Len(q) : Append(q, c)[i] = q[i]
  BY AppendProperties
<1>2. q # <<>> => 1 \in 1..Len(q) /\ Tail(q) \in Seq(CallType) /\ Head(q) \in CallType
  BY HeadTailProperties
<1>3. QED
  BY <1>1, <1>2

(* What an answer does to the RPCs. *)
GivesAnswer(w, p, r, s, x) ==
  /\ rpc' \in [Windows -> RpcType]
  /\ rpc'[w].state = "answered" /\ rpc'[w].policy = rpc[w].policy
  /\ rpc'[w].answer = [ready |-> r, policy |-> p, saved |-> s] /\ rpc'[w].written = x
  /\ r => p \in rpc'[w].inForce
  /\ \A v \in Windows \ {w} :
       /\ rpc'[v].state = rpc[v].state /\ rpc'[v].policy = rpc[v].policy
       /\ rpc'[v].answer = rpc[v].answer /\ rpc'[v].written = rpc[v].written
       /\ rpc[v].inForce \subseteq rpc'[v].inForce
       /\ r /\ rpc[v].state # "none" => p \in rpc'[v].inForce

(* An answer, for the window that asked and for those that wait. *)
LEMMA AnsweredTyped ==
  ASSUME IInv, NEW w \in Windows, NEW p \in Policies, NEW r \in BOOLEAN,
         NEW s \in {"none", "not_saved", "unknown", "saved"}, NEW x \in {"no", "maybe", "yes"},
         rpc[w].state = "sent", Answered(w, p, r, s, x)
  PROVE  GivesAnswer(w, p, r, s, x)
<1>1. rpc \in [Windows -> RpcType]
  BY DEF IInv, Types
<1>2. [ready |-> r, policy |-> p, saved |-> s] \in Answers
  BY DEF Answers
<1>3. \A v \in Windows : (IF r THEN rpc[v].inForce \cup {p} ELSE rpc[v].inForce) \in SUBSET Policies
  BY <1>1 DEF RpcType
<1>4. ASSUME NEW v \in Windows, v # w
      PROVE  /\ rpc'[v] \in RpcType
             /\ rpc'[v].state = rpc[v].state /\ rpc'[v].policy = rpc[v].policy
             /\ rpc'[v].answer = rpc[v].answer /\ rpc'[v].written = rpc[v].written
             /\ rpc[v].inForce \subseteq rpc'[v].inForce
             /\ r /\ rpc[v].state # "none" => p \in rpc'[v].inForce
  <2>1. rpc'[v] = IF rpc[v].state = "none" THEN rpc[v]
                  ELSE [rpc[v] EXCEPT !.inForce = IF r THEN rpc[v].inForce \cup {p} ELSE rpc[v].inForce]
    BY <1>4 DEF Answered
  <2>2. rpc[v] \in RpcType
    BY <1>1
  <2>3. QED
    BY <1>3, <2>1, <2>2 DEF RpcType
<1>5. /\ rpc'[w] \in RpcType
      /\ rpc'[w].state = "answered" /\ rpc'[w].policy = rpc[w].policy
      /\ rpc'[w].answer = [ready |-> r, policy |-> p, saved |-> s] /\ rpc'[w].written = x
      /\ r => p \in rpc'[w].inForce
  <2>1. rpc'[w] = [rpc[w] EXCEPT !.state = "answered",
                                 !.inForce = IF r THEN rpc[w].inForce \cup {p} ELSE rpc[w].inForce,
                                 !.written = x, !.answer = [ready |-> r, policy |-> p, saved |-> s]]
    BY DEF Answered
  <2>2. rpc[w] \in RpcType
    BY <1>1
  <2> DEFINE f == IF r THEN rpc[w].inForce \cup {p} ELSE rpc[w].inForce
             a == [ready |-> r, policy |-> p, saved |-> s]
  <2>3. f \in SUBSET Policies /\ (r => p \in f)
    BY <1>3
  <2>4. a \in Answers
    BY <1>2
  <2>5. rpc'[w] = [rpc[w] EXCEPT !.state = "answered", !.inForce = f, !.written = x, !.answer = a]
    BY <2>1
  <2> HIDE DEF f, a
  <2>6. /\ rpc'[w] \in RpcType /\ rpc'[w].state = "answered" /\ rpc'[w].policy = rpc[w].policy
        /\ rpc'[w].answer = a /\ rpc'[w].written = x /\ rpc'[w].inForce = f
    BY <2>2, <2>3, <2>4, <2>5 DEF RpcType
  <2>7. QED
    BY <2>3, <2>6 DEF a
<1>6. rpc' \in [Windows -> RpcType]
  <2>1. DOMAIN rpc' = Windows /\ rpc' = [v \in Windows |-> rpc'[v]]
    BY DEF Answered
  <2>2. QED
    BY <1>4, <1>5, <2>1
<1>7. QED
  BY <1>4, <1>5, <1>6 DEF GivesAnswer
(* A step of the kernel on the request of window w. *)
LEMMA ServedWindows ==
  ASSUME IInv, NEW w \in Windows, NEW p \in Policies, NEW r \in BOOLEAN,
         NEW s \in {"none", "not_saved", "unknown", "saved"}, NEW x \in {"no", "maybe", "yes"},
         rpc[w].state = "sent", Answered(w, p, r, s, x),
         s = "saved" => x = "yes" /\ rpc[w].policy # None, s = "not_saved" => x = "no",
         UNCHANGED windowVars
  PROVE  rpc' \in [Windows -> RpcType] /\ \A v \in Windows : WindowInv(v)'
<1>1. /\ rpc' \in [Windows -> RpcType]
      /\ rpc'[w].state = "answered" /\ rpc'[w].policy = rpc[w].policy
      /\ rpc'[w].answer = [ready |-> r, policy |-> p, saved |-> s] /\ rpc'[w].written = x
      /\ r => p \in rpc'[w].inForce
      /\ \A v \in Windows \ {w} :
           /\ rpc'[v].state = rpc[v].state /\ rpc'[v].policy = rpc[v].policy
           /\ rpc'[v].answer = rpc[v].answer /\ rpc'[v].written = rpc[v].written
           /\ rpc[v].inForce \subseteq rpc'[v].inForce
           /\ r /\ rpc[v].state # "none" => p \in rpc'[v].inForce
  <2>1. GivesAnswer(w, p, r, s, x)
    BY AnsweredTyped
  <2>2. QED
    BY <2>1 DEF GivesAnswer
<1>2. UNCHANGED <<shown, calls, stage>>
  BY DEF windowVars
<1>3. \A v \in Windows : WindowInv(v)
  BY DEF IInv
<1>4. WindowInv(w)'
  <2>1. Asking(w)'
    BY <1>1, <1>2, <1>3 DEF WindowInv, Asking, Current
  <2>2. AnswerTrue(w)'
    BY <1>1 DEF AnswerTrue
  <2>3. stage[w] # "applied"
    BY <1>3 DEF WindowInv, Applied
  <2>4. QED
    BY <1>2, <2>1, <2>2, <2>3 DEF WindowInv, Applied
<1>5. ASSUME NEW v \in Windows \ {w} PROVE WindowInv(v)'
  BY <1>1, <1>2, <1>3, <1>5 DEF WindowInv, Asking, AnswerTrue, Applied, Current
<1>6. QED
  BY <1>1, <1>4, <1>5

(* What is left of a budget. *)
LEMMA Spent ==
  ASSUME IInv, NEW b \in {"saves", "refreshes", "faults", "restarts"}, Spend(b)
  PROVE  left' \in [{"saves", "refreshes", "faults", "restarts"} -> Nat]
<1>1. left \in [{"saves", "refreshes", "faults", "restarts"} -> Nat]
  BY DEF IInv, Types
<1>2. left[b] - 1 \in Nat
  BY <1>1 DEF Spend
<1>3. QED
  BY <1>1, <1>2 DEF Spend

LEMMA Mailed ==
  ASSUME IInv, NEW p \in Policies
  PROVE  [v \in Windows |-> Append(mail[v], p)] \in [Windows -> Seq(Policies)]
BY DEF IInv, Types

LEMMA ReloadStep ==
  ASSUME IInv, NEW w \in Windows, ServeReload(w)
  PROVE  IInv'
<1>1. rpc' \in [Windows -> RpcType] /\ \A v \in Windows : WindowInv(v)'
  <2>1. disk \in Policies /\ rpc[w].state = "sent" /\ UNCHANGED windowVars
    BY DEF IInv, Types, ServeReload, AskedTo
  <2>2. Answered(w, disk, TRUE, "none", "no")
    BY DEF ServeReload
  <2>3. QED
    BY <2>1, <2>2, ServedWindows
<1>2. Types'
  BY <1>1 DEF IInv, Types, ServeReload, Publish, windowVars
<1>3. FenceInv'
  BY DEF IInv, FenceInv, ServeReload, Blocked, Publish
<1>4. QED
  BY <1>1, <1>2, <1>3 DEF IInv

(* A save asks for a policy. *)
LEMMA SaveAsksPolicy ==
  ASSUME IInv, NEW w \in Windows, AskedTo(w, TRUE)
  PROVE  rpc[w].policy \in Policies /\ rpc[w].state = "sent"
BY DEF IInv, Types, RpcType, AskedTo

LEMMA SaveStep ==
  ASSUME IInv, NEW w \in Windows, ServeSave(w)
  PROVE  IInv'
<1>1. disk' = rpc[w].policy /\ rpc[w].policy \in Policies /\ rpc[w].state = "sent"
  BY SaveAsksPolicy DEF ServeSave
<1>2. rpc' \in [Windows -> RpcType] /\ \A v \in Windows : WindowInv(v)'
  <2>1. Answered(w, disk', TRUE, "saved", "yes") /\ UNCHANGED windowVars
    BY DEF ServeSave
  <2>2. QED
    BY <1>1, <2>1, ServedWindows, SyncAssumption
<1>3. mail' \in [Windows -> Seq(Policies)] /\ missed' \in SUBSET Windows
      /\ left' \in [{"saves", "refreshes", "faults", "restarts"} -> Nat]
  <2>1. Push(w, disk')
    BY DEF ServeSave
  <2>2. CASE mail' = [v \in Windows |-> Append(mail[v], disk')] /\ missed' = {} /\ UNCHANGED left
    <3>1. mail' \in [Windows -> Seq(Policies)]
      BY <1>1, <2>2, Mailed
    <3>2. QED
      BY <2>2, <3>1 DEF IInv, Types
  <2>3. CASE Spend("faults") /\ missed' = Windows \ {w} /\ UNCHANGED mail
    BY <2>3, Spent DEF IInv, Types
  <2>4. QED
    BY <2>1, <2>2, <2>3 DEF Push
<1>4. Types'
  BY <1>1, <1>2, <1>3 DEF IInv, Types, ServeSave, Publish, windowVars
<1>5. FenceInv'
  BY DEF IInv, FenceInv, ServeSave, Blocked, Publish
<1>6. QED
  BY <1>2, <1>4, <1>5 DEF IInv

LEMMA SaveLateStep ==
  ASSUME IInv, NEW w \in Windows, ServeSaveLate(w)
  PROVE  IInv'
<1>1. disk' = rpc[w].policy /\ rpc[w].policy \in Policies /\ rpc[w].state = "sent"
  BY SaveAsksPolicy DEF ServeSaveLate
<1>2. rpc' \in [Windows -> RpcType] /\ \A v \in Windows : WindowInv(v)'
  <2>1. Answered(w, Default, FALSE, "saved", "yes") /\ UNCHANGED windowVars
    BY DEF ServeSaveLate
  <2>2. QED
    BY <1>1, <2>1, ServedWindows, SyncAssumption
<1>3. mail' \in [Windows -> Seq(Policies)] /\ missed' \in SUBSET Windows
      /\ left' \in [{"saves", "refreshes", "faults", "restarts"} -> Nat]
  BY <1>1, Mailed, Spent DEF ServeSaveLate
<1>4. Types'
  BY <1>1, <1>2, <1>3, SyncAssumption DEF IInv, Types, ServeSaveLate, Publish, windowVars
<1>5. FenceInv'
  BY DEF IInv, FenceInv, ServeSaveLate, Blocked, Publish
<1>6. QED
  BY <1>2, <1>4, <1>5 DEF IInv

LEMMA FailedStep ==
  ASSUME IInv, NEW w \in Windows, ServeFailed(w)
  PROVE  IInv'
<1>1. /\ published' \in Policies /\ ready' \in BOOLEAN
      /\ left' \in [{"saves", "refreshes", "faults", "restarts"} -> Nat]
      /\ ready' => ready
  <2>1. Spend("faults") \/ UNCHANGED left
    BY DEF ServeFailed
  <2>2. UNCHANGED <<published, ready>> \/ (published' = Default /\ ready' = FALSE)
    BY DEF ServeFailed, Publish
  <2>3. left' \in [{"saves", "refreshes", "faults", "restarts"} -> Nat]
    BY <2>1, Spent DEF IInv, Types
  <2>4. published \in Policies /\ Default \in Policies /\ ready \in BOOLEAN
    BY SyncAssumption DEF IInv, Types
  <2>5. CASE UNCHANGED <<published, ready>>
    BY <2>3, <2>4, <2>5
  <2>6. CASE published' = Default /\ ready' = FALSE
    BY <2>3, <2>4, <2>6
  <2>7. QED
    BY <2>2, <2>5, <2>6
<1>2. rpc' \in [Windows -> RpcType] /\ \A v \in Windows : WindowInv(v)'
  <2> DEFINE s == IF rpc[w].policy = None THEN "none" ELSE "not_saved"
  <2>1. /\ Answered(w, published', FALSE, s, "no") /\ UNCHANGED windowVars
        /\ rpc[w].state = "sent"
    BY DEF ServeFailed
  <2>2. s \in {"none", "not_saved", "unknown", "saved"} /\ s # "saved"
    OBVIOUS
  <2> HIDE DEF s
  <2>3. QED
    BY <1>1, <2>1, <2>2, ServedWindows
<1>3. Types'
  BY <1>1, <1>2 DEF IInv, Types, ServeFailed, windowVars
<1>4. FenceInv'
  BY <1>1 DEF IInv, FenceInv, ServeFailed
<1>5. QED
  BY <1>2, <1>3, <1>4 DEF IInv

LEMMA SaveUnknownStep ==
  ASSUME IInv, NEW w \in Windows, ServeSaveUnknown(w)
  PROVE  IInv'
<1>1. rpc[w].policy \in Policies /\ rpc[w].state = "sent"
  BY SaveAsksPolicy DEF ServeSaveUnknown
<1>2. rpc' \in [Windows -> RpcType] /\ \A v \in Windows : WindowInv(v)'
  <2>1. Answered(w, Default, FALSE, "unknown", "maybe") /\ UNCHANGED windowVars
    BY DEF ServeSaveUnknown
  <2>2. QED
    BY <1>1, <2>1, ServedWindows, SyncAssumption
<1>3. /\ disk' \in Policies /\ latePut' \in Policies \cup {None} /\ fenced' \in BOOLEAN
      /\ missed' \in SUBSET Windows
      /\ left' \in [{"saves", "refreshes", "faults", "restarts"} -> Nat]
  BY <1>1, Spent DEF IInv, Types, ServeSaveUnknown
<1>4. Types'
  BY <1>2, <1>3, SyncAssumption DEF IInv, Types, ServeSaveUnknown, Publish, windowVars
<1>5. FenceInv'
  BY <1>1, SyncAssumption DEF IInv, FenceInv, ServeSaveUnknown, Publish
<1>6. QED
  BY <1>2, <1>4, <1>5 DEF IInv

LEMMA PutSettlesStep ==
  ASSUME IInv, PutSettles
  PROVE  IInv'
<1>1. \A v \in Windows : WindowInv(v)'
  BY Undisturbed DEF IInv, PutSettles, windowVars, WindowInv, Asking
<1>2. Types'
  BY SyncAssumption DEF IInv, Types, PutSettles, windowVars
<1>3. FenceInv'
  BY DEF FenceInv, PutSettles
<1>4. QED
  BY <1>1, <1>2, <1>3 DEF IInv

LEMMA RestartStep ==
  ASSUME IInv, Restart
  PROVE  IInv'
<1>1. published' \in Policies /\ ready' \in BOOLEAN
  BY SyncAssumption DEF IInv, Types, Restart, Publish
<1>2. ASSUME NEW v \in Windows
      PROVE  rpc'[v] \in RpcType /\ WindowInv(v)'
  <2>1. rpc'[v] = IF rpc[v].state = "none" \/ ~ready' THEN rpc[v]
                  ELSE [rpc[v] EXCEPT !.inForce = @ \cup {published'}]
    BY DEF Restart
  <2>2. rpc[v] \in RpcType /\ WindowInv(v)
    BY DEF IInv, Types
  <2>3. /\ rpc'[v] \in RpcType
        /\ rpc'[v].state = rpc[v].state /\ rpc'[v].policy = rpc[v].policy
        /\ rpc'[v].answer = rpc[v].answer /\ rpc'[v].written = rpc[v].written
        /\ rpc[v].inForce \subseteq rpc'[v].inForce
    BY <1>1, <2>1, <2>2 DEF RpcType
  <2>4. UNCHANGED <<shown, calls, stage>>
    BY DEF Restart, windowVars
  <2>5. QED
    BY <2>2, <2>3, <2>4 DEF WindowInv, Asking, AnswerTrue, Applied, Current
<1>3. rpc' \in [Windows -> RpcType]
  <2>1. DOMAIN rpc' = Windows /\ rpc' = [v \in Windows |-> rpc'[v]]
    BY DEF Restart
  <2>2. QED
    BY <1>2, <2>1
<1>4. Types'
  BY <1>1, <1>3, Spent DEF IInv, Types, Restart, windowVars
<1>5. FenceInv'
  BY DEF FenceInv, Restart
<1>6. QED
  BY <1>2, <1>4, <1>5 DEF IInv

LEMMA RpcFailsStep ==
  ASSUME IInv, NEW w \in Windows, RpcFails(w)
  PROVE  IInv'
<1>1. rpc[w] \in RpcType /\ WindowInv(w) /\ rpc \in [Windows -> RpcType]
  BY DEF IInv, Types
<1>2. rpc' = [rpc EXCEPT ![w] = [rpc[w] EXCEPT !.state = "error"]]
  BY <1>1 DEF RpcFails
<1>3. rpc' \in [Windows -> RpcType] /\ rpc'[w] = [rpc[w] EXCEPT !.state = "error"]
  <2>1. [rpc[w] EXCEPT !.state = "error"] \in RpcType
    BY <1>1 DEF RpcType
  <2>2. QED
    BY <1>1, <1>2, <2>1
<1>4. /\ rpc'[w].state = "error" /\ rpc'[w].policy = rpc[w].policy
      /\ rpc'[w].answer = rpc[w].answer /\ rpc'[w].written = rpc[w].written
      /\ rpc'[w].inForce = rpc[w].inForce
  BY <1>1, <1>3 DEF RpcType
<1>5. UNCHANGED <<shown, calls, stage>>
  BY DEF RpcFails, windowVars
<1>6. WindowInv(w)'
  BY <1>1, <1>4, <1>5 DEF WindowInv, Asking, AnswerTrue, Applied, Current
<1>7. ASSUME NEW v \in Windows \ {w} PROVE WindowInv(v)'
  <2>1. rpc'[v] = rpc[v] /\ WindowInv(v)
    BY <1>2 DEF IInv
  <2>2. QED
    BY <1>5, <2>1, Undisturbed DEF WindowInv, Asking
<1>8. Types'
  BY <1>3, Spent DEF IInv, Types, RpcFails, kernelVars, windowVars
<1>9. FenceInv'
  BY DEF IInv, FenceInv, RpcFails, kernelVars
<1>10. QED
  BY <1>6, <1>7, <1>8, <1>9 DEF IInv

(* The running call ends. *)
LEMMA Ended ==
  ASSUME IInv, NEW w \in Windows, calls[w] # <<>>, NEW o \in {"syncing", "confirmed", "failed"},
         NEW s \in Reports, Ends(w, o, s)
  PROVE  /\ calls' \in [Windows -> Seq(CallType)]
         /\ stage' \in [Windows -> {"waiting", "asked", "applied"}] /\ stage'[w] = "waiting"
         /\ dock' \in [Windows -> {"syncing", "confirmed", "failed"}]
         /\ report' \in [Windows -> Reports]
         /\ \A v \in Windows \ {w} : calls'[v] = calls[v] /\ stage'[v] = stage[v]
<1>1. Tail(calls[w]) \in Seq(CallType)
  BY HeadTailProperties DEF IInv, Types
<1>2. calls' \in [Windows -> Seq(CallType)] /\ \A v \in Windows \ {w} : calls'[v] = calls[v]
  BY <1>1 DEF IInv, Types, Ends
<1>3. /\ stage' \in [Windows -> {"waiting", "asked", "applied"}] /\ stage'[w] = "waiting"
      /\ \A v \in Windows \ {w} : stage'[v] = stage[v]
  BY DEF IInv, Types, Ends
<1>4. dock' \in [Windows -> {"syncing", "confirmed", "failed"}]
  BY DEF IInv, Types, Ends
<1>5. report' \in [Windows -> Reports]
  BY DEF IInv, Types, Ends
<1>6. QED
  BY <1>2, <1>3, <1>4, <1>5

LEMMA NoRpcTyped ==
  /\ NoRpc \in RpcType /\ NoRpc.state = "none" /\ ~NoRpc.answer.ready
  /\ NoRpc.answer.saved = "none"
BY SyncAssumption DEF NoRpc, Rpc, NoAnswer, RpcType, Answers

(* A window whose running call ends keeps its RPC, or is rid of it. *)
LEMMA EndedWindows ==
  ASSUME IInv, NEW w \in Windows, stage'[w] = "waiting",
         \A v \in Windows \ {w} : calls'[v] = calls[v] /\ stage'[v] = stage[v] /\ shown'[v] = shown[v],
         rpc' = rpc \/ rpc' = [rpc EXCEPT ![w] = NoRpc]
  PROVE  rpc' \in [Windows -> RpcType] /\ \A v \in Windows : WindowInv(v)'
<1>1. rpc \in [Windows -> RpcType] /\ \A v \in Windows : WindowInv(v)
  BY DEF IInv, Types
<1>2. /\ rpc' \in [Windows -> RpcType] /\ \A v \in Windows \ {w} : rpc'[v] = rpc[v]
      /\ rpc'[w] = rpc[w] \/ rpc'[w] = NoRpc
  BY <1>1, NoRpcTyped
<1>3. WindowInv(w)'
  BY <1>1, <1>2, NoRpcTyped DEF WindowInv, Asking, AnswerTrue, Applied
<1>4. ASSUME NEW v \in Windows \ {w} PROVE WindowInv(v)'
  <2>1. /\ WindowInv(v) /\ rpc'[v] = rpc[v] /\ stage'[v] = stage[v]
        /\ calls'[v] = calls[v] /\ shown'[v] = shown[v]
    BY <1>1, <1>2
  <2>2. stage[v] # "waiting" => calls'[v] # <<>> /\ Head(calls'[v]) = Head(calls[v])
    BY <2>1 DEF WindowInv, Asking
  <2>3. QED
    BY <2>1, <2>2, Undisturbed
<1>5. QED
  BY <1>2, <1>3, <1>4

(* The steps that end the running call and change nothing in the kernel. *)
LEMMA EndingStep ==
  ASSUME IInv, NEW w \in Windows, calls[w] # <<>>, NEW o \in {"syncing", "confirmed", "failed"},
         NEW s \in Reports, Ends(w, o, s),
         rpc' = rpc \/ rpc' = [rpc EXCEPT ![w] = NoRpc],
         shown' \in [Windows -> Policies], \A v \in Windows \ {w} : shown'[v] = shown[v],
         finishing' \in [Windows -> Nat],
         UNCHANGED <<kernelVars, booted, pending, mail, missed, left>>
  PROVE  IInv'
<1>1. /\ calls' \in [Windows -> Seq(CallType)]
      /\ stage' \in [Windows -> {"waiting", "asked", "applied"}] /\ stage'[w] = "waiting"
      /\ dock' \in [Windows -> {"syncing", "confirmed", "failed"}]
      /\ report' \in [Windows -> Reports]
      /\ \A v \in Windows \ {w} : calls'[v] = calls[v] /\ stage'[v] = stage[v]
  BY Ended
<1>2. rpc' \in [Windows -> RpcType] /\ \A v \in Windows : WindowInv(v)'
  BY <1>1, EndedWindows
<1>3. Types'
  BY <1>1, <1>2 DEF IInv, Types, kernelVars
<1>4. FenceInv'
  BY DEF IInv, FenceInv, kernelVars
<1>5. QED
  BY <1>2, <1>3, <1>4 DEF IInv

LEMMA StartStep ==
  ASSUME IInv, NEW w \in Windows, Start(w)
  PROVE  IInv'
<1> DEFINE f == IF ready THEN {published} ELSE {}
           c == Current(w).policy
<1>1. c \in Policies \cup {None} /\ f \in SUBSET Policies /\ calls[w] # <<>>
  <2>1. Head(calls[w]) \in CallType /\ calls[w] # <<>>
    BY HeadTailProperties DEF IInv, Types, Start
  <2>2. QED
    BY <2>1 DEF IInv, Types, CallType, Current
<1>2. rpc' = [rpc EXCEPT ![w] = Rpc("sent", c, f)] /\ UNCHANGED <<shown, calls>>
  BY DEF Start
<1> HIDE DEF f, c
<1>3. /\ Rpc("sent", c, f) \in RpcType /\ Rpc("sent", c, f).state = "sent"
      /\ Rpc("sent", c, f).policy = c /\ ~Rpc("sent", c, f).answer.ready
      /\ Rpc("sent", c, f).answer.saved = "none"
  BY <1>1, SyncAssumption DEF Rpc, NoAnswer, RpcType, Answers
<1>4. /\ stage' \in [Windows -> {"waiting", "asked", "applied"}] /\ stage'[w] = "asked"
      /\ \A v \in Windows \ {w} : stage'[v] = stage[v]
      /\ dock' \in [Windows -> {"syncing", "confirmed", "failed"}]
  BY DEF IInv, Types, Start
<1>5. /\ rpc' \in [Windows -> RpcType] /\ rpc'[w] = Rpc("sent", c, f)
      /\ \A v \in Windows \ {w} : rpc'[v] = rpc[v]
  BY <1>2, <1>3 DEF IInv, Types
<1>6. WindowInv(w)'
  <2>1. Current(w)' = Current(w)
    BY <1>2 DEF Current
  <2>2. QED
    BY <1>1, <1>2, <1>3, <1>4, <1>5, <2>1 DEF WindowInv, Asking, AnswerTrue, Applied, c
<1>7. ASSUME NEW v \in Windows \ {w} PROVE WindowInv(v)'
  <2>1. WindowInv(v) /\ rpc'[v] = rpc[v] /\ stage'[v] = stage[v]
    BY <1>4, <1>5 DEF IInv
  <2>2. QED
    BY <1>2, <2>1, Undisturbed DEF WindowInv, Asking
<1>8. Types'
  BY <1>2, <1>4, <1>5 DEF IInv, Types, Start, kernelVars
<1>9. FenceInv'
  BY DEF IInv, FenceInv, Start, kernelVars
<1>10. QED
  BY <1>6, <1>7, <1>8, <1>9 DEF IInv

LEMMA StartBlockedStep ==
  ASSUME IInv, NEW w \in Windows, StartBlocked(w)
  PROVE  IInv'
<1>1. Ends(w, "failed", "blocked") /\ calls[w] # <<>> /\ "blocked" \in Reports
  BY DEF StartBlocked, Reports
<1>2. shown' \in [Windows -> Policies] /\ finishing' \in [Windows -> Nat] /\ shown' = shown
  BY DEF IInv, Types, StartBlocked
<1>3. rpc' = rpc /\ UNCHANGED <<kernelVars, booted, pending, mail, missed, left>>
  BY DEF StartBlocked
<1>4. QED
  BY <1>1, <1>2, <1>3, EndingStep

LEMMA TimeoutStep ==
  ASSUME IInv, NEW w \in Windows, Timeout(w)
  PROVE  IInv'
<1> DEFINE s == IF stage[w] = "asked" THEN "unknown" ELSE "timeout"
<1>1. Ends(w, "failed", s) /\ calls[w] # <<>> /\ s \in Reports
  BY DEF Timeout, Reports
<1> HIDE DEF s
<1>2. shown' \in [Windows -> Policies] /\ finishing' \in [Windows -> Nat] /\ shown' = shown
  BY DEF IInv, Types, Timeout
<1>3. /\ rpc' = rpc \/ rpc' = [rpc EXCEPT ![w] = NoRpc]
      /\ UNCHANGED <<kernelVars, booted, pending, mail, missed, left>>
  BY DEF Timeout
<1>4. QED
  BY <1>1, <1>2, <1>3, EndingStep

LEMMA OrphanSettlesStep ==
  ASSUME IInv, NEW w \in Windows, OrphanSettles(w)
  PROVE  IInv'
<1>1. /\ stage'[w] = "waiting" /\ UNCHANGED <<calls, stage, shown>>
      /\ rpc' = [rpc EXCEPT ![w] = NoRpc]
  BY DEF OrphanSettles, windowVars
<1>2. rpc' \in [Windows -> RpcType] /\ \A v \in Windows : WindowInv(v)'
  BY <1>1, EndedWindows
<1>3. Types'
  BY <1>2 DEF IInv, Types, OrphanSettles, kernelVars, windowVars
<1>4. FenceInv'
  BY DEF IInv, FenceInv, OrphanSettles, kernelVars
<1>5. QED
  BY <1>2, <1>3, <1>4 DEF IInv

(* A window that has asked has a running call and a typed RPC. *)
LEMMA Asked ==
  ASSUME IInv, NEW w \in Windows, stage[w] # "waiting"
  PROVE  /\ calls[w] # <<>> /\ Current(w) \in CallType
         /\ rpc[w] \in RpcType /\ rpc[w].policy = Current(w).policy
         /\ AnswerTrue(w) /\ Applied(w)
<1>1. /\ calls[w] \in Seq(CallType) /\ calls[w] # <<>> /\ rpc[w] \in RpcType
      /\ rpc[w].policy = Current(w).policy /\ AnswerTrue(w) /\ Applied(w)
  BY DEF IInv, Types, WindowInv, Asking
<1>2. Current(w) \in CallType
  BY <1>1, HeadTailProperties DEF Current
<1>3. QED
  BY <1>1, <1>2

LEMMA ReloadConfirmedStep ==
  ASSUME IInv, NEW w \in Windows, ReloadConfirmed(w)
  PROVE  IInv'
<1>1. calls[w] # <<>> /\ rpc[w].answer.policy \in Policies
  BY Asked DEF ReloadConfirmed, RpcType, Answers
<1>2. Ends(w, "confirmed", "none") /\ "none" \in Reports
  BY DEF ReloadConfirmed, Reports
<1>3. shown' \in [Windows -> Policies] /\ \A v \in Windows \ {w} : shown'[v] = shown[v]
  BY <1>1 DEF IInv, Types, ReloadConfirmed
<1>4. finishing' \in [Windows -> Nat]
  BY DEF IInv, Types, ReloadConfirmed
<1>5. /\ rpc' = [rpc EXCEPT ![w] = NoRpc]
      /\ UNCHANGED <<kernelVars, booted, pending, mail, missed, left>>
  BY DEF ReloadConfirmed
<1>6. QED
  BY <1>1, <1>2, <1>3, <1>4, <1>5, EndingStep

LEMMA ReloadFailedStep ==
  ASSUME IInv, NEW w \in Windows, ReloadFailed(w)
  PROVE  IInv'
<1>1. calls[w] # <<>>
  BY Asked DEF ReloadFailed
<1>2. Ends(w, "failed", "none") /\ "none" \in Reports
  BY DEF ReloadFailed, Reports
<1>3. shown' \in [Windows -> Policies] /\ finishing' \in [Windows -> Nat] /\ shown' = shown
  BY DEF IInv, Types, ReloadFailed
<1>4. /\ rpc' = [rpc EXCEPT ![w] = NoRpc]
      /\ UNCHANGED <<kernelVars, booted, pending, mail, missed, left>>
  BY DEF ReloadFailed
<1>5. QED
  BY <1>1, <1>2, <1>3, <1>4, EndingStep

LEMMA SaveAppliedStep ==
  ASSUME IInv, NEW w \in Windows, SaveApplied(w)
  PROVE  IInv'
<1>1. /\ calls[w] # <<>> /\ rpc[w].policy = Current(w).policy /\ rpc[w] \in RpcType
      /\ AnswerTrue(w)
  BY Asked DEF SaveApplied
<1>2. UNCHANGED <<calls, rpc>> /\ rpc[w].state = "answered" /\ rpc[w].answer.saved = "saved"
  BY DEF SaveApplied
<1>3. Current(w).policy \in Policies
  BY <1>1, <1>2 DEF RpcType, AnswerTrue
<1>4. /\ shown' \in [Windows -> Policies] /\ shown'[w] = Current(w).policy
      /\ \A v \in Windows \ {w} : shown'[v] = shown[v]
  BY <1>3 DEF IInv, Types, SaveApplied
<1>5. /\ stage' \in [Windows -> {"waiting", "asked", "applied"}] /\ stage'[w] = "applied"
      /\ \A v \in Windows \ {w} : stage'[v] = stage[v]
  BY DEF IInv, Types, SaveApplied
<1>6. WindowInv(w)'
  <2>1. Current(w)' = Current(w)
    BY <1>2 DEF Current
  <2>2. QED
    BY <1>1, <1>2, <1>4, <1>5, <2>1 DEF WindowInv, Asking, AnswerTrue, Applied
<1>7. ASSUME NEW v \in Windows \ {w} PROVE WindowInv(v)'
  <2>1. WindowInv(v)
    BY DEF IInv
  <2>2. QED
    BY <1>2, <1>4, <1>5, <2>1, Undisturbed DEF WindowInv, Asking
<1>8. Types'
  BY <1>4, <1>5 DEF IInv, Types, SaveApplied, kernelVars
<1>9. FenceInv'
  BY DEF IInv, FenceInv, SaveApplied, kernelVars
<1>10. QED
  BY <1>6, <1>7, <1>8, <1>9 DEF IInv

LEMMA SaveConfirmedStep ==
  ASSUME IInv, NEW w \in Windows, SaveConfirmed(w)
  PROVE  IInv'
<1>1. calls[w] # <<>>
  BY Asked DEF SaveConfirmed
<1>2. shown' \in [Windows -> Policies] /\ finishing' \in [Windows -> Nat] /\ shown' = shown
  BY DEF IInv, Types, SaveConfirmed
<1>3. /\ rpc' = [rpc EXCEPT ![w] = NoRpc]
      /\ UNCHANGED <<kernelVars, booted, pending, mail, missed, left>>
  BY DEF SaveConfirmed
<1>4. \/ Ends(w, "confirmed", "saved") /\ "saved" \in Reports
      \/ Ends(w, "failed", "unconfirmed") /\ "unconfirmed" \in Reports
  BY DEF SaveConfirmed, Reports
<1>5. QED
  BY <1>1, <1>2, <1>3, <1>4, EndingStep

LEMMA SaveFailedStep ==
  ASSUME IInv, NEW w \in Windows, SaveFailed(w)
  PROVE  IInv'
<1>1. calls[w] # <<>>
  BY Asked DEF SaveFailed
<1>2. shown' \in [Windows -> Policies] /\ finishing' \in [Windows -> Nat] /\ shown' = shown
  BY DEF IInv, Types, SaveFailed
<1>3. /\ rpc' = [rpc EXCEPT ![w] = NoRpc]
      /\ UNCHANGED <<kernelVars, booted, pending, mail, missed, left>>
  BY DEF SaveFailed
<1>4. PICK s \in Reports : Ends(w, "failed", s)
  BY DEF SaveFailed, Reports
<1>5. QED
  BY <1>1, <1>2, <1>3, <1>4, EndingStep

(* A call joins the queue of a window, which changes no running call. *)
LEMMA QueuedWindows ==
  ASSUME IInv, NEW w \in Windows, NEW c \in CallType,
         calls' = calls \/ calls' = [calls EXCEPT ![w] = Append(@, c)],
         UNCHANGED <<shown, stage, rpc>>
  PROVE  calls' \in [Windows -> Seq(CallType)] /\ \A v \in Windows : WindowInv(v)'
<1>1. calls \in [Windows -> Seq(CallType)] /\ \A v \in Windows : WindowInv(v)
  BY DEF IInv, Types
<1>2. /\ Append(calls[w], c) \in Seq(CallType) /\ Append(calls[w], c) # <<>>
      /\ calls[w] # <<>> => Head(Append(calls[w], c)) = Head(calls[w])
  BY <1>1, Queued
<1>3. calls' \in [Windows -> Seq(CallType)]
  BY <1>1, <1>2
<1>4. ASSUME NEW v \in Windows PROVE WindowInv(v)'
  <2>1. calls[v] # <<>> => calls'[v] # <<>> /\ Head(calls'[v]) = Head(calls[v])
    BY <1>1, <1>2
  <2>2. QED
    BY <1>1, <2>1, Undisturbed DEF WindowInv, Asking
<1>5. QED
  BY <1>3, <1>4

LEMMA CallTyped ==
  ASSUME NEW k \in CallKinds, NEW p \in Policies \cup {None}
  PROVE  Call(k, p) \in CallType
BY DEF Call, CallType

(* What reloading on a notification does. *)
LEMMA Drifted ==
  ASSUME IInv, NEW w \in Windows, NEW p, ReloadOnDrift(w, p)
  PROVE  /\ calls' = calls \/ calls' = [calls EXCEPT ![w] = Append(@, Call("changed", None))]
         /\ missed' \in SUBSET Windows
BY DEF IInv, Types, ReloadOnDrift

LEMMA NotifiedStep ==
  ASSUME IInv, NEW w \in Windows, Notified(w)
  PROVE  IInv'
<1>1. Head(mail[w]) \in Policies /\ Tail(mail[w]) \in Seq(Policies)
  BY HeadTailProperties DEF IInv, Types, Notified
<1>2. mail' \in [Windows -> Seq(Policies)]
  BY <1>1 DEF IInv, Types, Notified
<1>3. /\ calls' = calls \/ calls' = [calls EXCEPT ![w] = Append(@, Call("changed", None))]
      /\ missed' \in SUBSET Windows /\ pending' \in [Windows -> Policies \cup {None}]
  <2>1. CASE booted[w]
    BY <2>1, Drifted DEF IInv, Types, Notified
  <2>2. CASE ~booted[w]
    BY <1>1, <2>2 DEF IInv, Types, Notified
  <2>3. QED
    BY <2>1, <2>2
<1>4. Call("changed", None) \in CallType /\ UNCHANGED <<shown, stage, rpc>>
  BY CallTyped DEF CallKinds, Notified
<1>5. calls' \in [Windows -> Seq(CallType)] /\ \A v \in Windows : WindowInv(v)'
  BY <1>3, <1>4, QueuedWindows
<1>6. Types'
  BY <1>2, <1>3, <1>5 DEF IInv, Types, Notified, kernelVars
<1>7. FenceInv'
  BY DEF IInv, FenceInv, Notified, kernelVars
<1>8. QED
  BY <1>5, <1>6, <1>7 DEF IInv

(* One reload less waits for the notebooks. *)
LEMMA Finishing ==
  ASSUME IInv, NEW w \in Windows, finishing[w] > 0,
         finishing' = [finishing EXCEPT ![w] = @ - 1]
  PROVE  finishing' \in [Windows -> Nat]
<1>1. finishing \in [Windows -> Nat]
  BY DEF IInv, Types
<1>2. finishing[w] - 1 \in Nat
  BY <1>1
<1>3. QED
  BY <1>1, <1>2

LEMMA FinishBootstrapStep ==
  ASSUME IInv, NEW w \in Windows, FinishBootstrap(w)
  PROVE  IInv'
<1>1. finishing' \in [Windows -> Nat]
  BY Finishing DEF FinishBootstrap
<1>2. /\ calls' = calls \/ calls' = [calls EXCEPT ![w] = Append(@, Call("changed", None))]
      /\ missed' \in SUBSET Windows
  <2>1. CASE pending[w] = None
    BY <2>1 DEF IInv, Types, FinishBootstrap
  <2>2. CASE pending[w] # None
    <3>1. ReloadOnDrift(w, pending[w])
      BY <2>2 DEF FinishBootstrap
    <3>2. QED
      BY <3>1, Drifted
  <2>3. QED
    BY <2>1, <2>2
<1>3. Call("changed", None) \in CallType /\ UNCHANGED <<shown, stage, rpc>>
  BY CallTyped DEF CallKinds, FinishBootstrap
<1>4. calls' \in [Windows -> Seq(CallType)] /\ \A v \in Windows : WindowInv(v)'
  BY <1>2, <1>3, QueuedWindows
<1>5. Types'
  BY <1>1, <1>2, <1>4 DEF IInv, Types, FinishBootstrap, kernelVars
<1>6. FenceInv'
  BY DEF IInv, FenceInv, FinishBootstrap, kernelVars
<1>7. QED
  BY <1>4, <1>5, <1>6 DEF IInv

LEMMA NotebooksFailStep ==
  ASSUME IInv, NEW w \in Windows, NotebooksFail(w)
  PROVE  IInv'
<1>1. /\ finishing' \in [Windows -> Nat]
      /\ left' \in [{"saves", "refreshes", "faults", "restarts"} -> Nat]
  BY Finishing, Spent DEF NotebooksFail
<1>2. \A v \in Windows : WindowInv(v)'
  BY Undisturbed DEF IInv, NotebooksFail, WindowInv, Asking
<1>3. Types'
  BY <1>1 DEF IInv, Types, NotebooksFail, kernelVars
<1>4. FenceInv'
  BY DEF IInv, FenceInv, NotebooksFail, kernelVars
<1>5. QED
  BY <1>2, <1>3, <1>4 DEF IInv

LEMMA UserStep ==
  ASSUME IInv, NEW w \in Windows, User(w)
  PROVE  IInv'
<1>1. left' \in [{"saves", "refreshes", "faults", "restarts"} -> Nat]
  BY Spent DEF User, Refresh, Save
<1>2. PICK c \in CallType : calls' = [calls EXCEPT ![w] = Append(@, c)]
  <2>1. CASE Refresh(w)
    BY <2>1, CallTyped DEF Refresh, CallKinds
  <2>2. CASE Save(w)
    BY <2>2, CallTyped DEF Save, CallKinds
  <2>3. QED
    BY <2>1, <2>2 DEF User
<1>3. UNCHANGED <<shown, stage, rpc>> /\ report' \in [Windows -> Reports]
  BY DEF IInv, Types, User, Refresh, Save, Reports
<1>4. calls' \in [Windows -> Seq(CallType)] /\ \A v \in Windows : WindowInv(v)'
  BY <1>2, <1>3, QueuedWindows
<1>5. /\ UNCHANGED <<kernelVars, shown, dock, booted, pending, finishing, stage, rpc, mail, missed>>
  BY DEF User, Refresh, Save
<1>6. Types'
  BY <1>1, <1>3, <1>4, <1>5 DEF IInv, Types, kernelVars
<1>7. FenceInv'
  BY <1>5 DEF IInv, FenceInv, kernelVars
<1>8. QED
  BY <1>4, <1>6, <1>7 DEF IInv

LEMMA NextInv == IInv /\ [Next]_vars => IInv'
<1> SUFFICES ASSUME IInv, [Next]_vars PROVE IInv'
  OBVIOUS
<1>1. CASE PutSettles
  BY <1>1, PutSettlesStep
<1>2. CASE Restart
  BY <1>2, RestartStep
<1>3. ASSUME NEW w \in Windows, Kernel(w) PROVE IInv'
  BY <1>3, ReloadStep, SaveStep, SaveLateStep, FailedStep, SaveUnknownStep, RpcFailsStep DEF Kernel
<1>4. ASSUME NEW w \in Windows, Window(w) PROVE IInv'
  <2>1. CASE Finishes(w)
    BY <2>1, ReloadConfirmedStep, ReloadFailedStep, SaveConfirmedStep, SaveFailedStep DEF Finishes
  <2>2. QED
    BY <1>4, <2>1, StartStep, StartBlockedStep, TimeoutStep, OrphanSettlesStep, SaveAppliedStep,
       NotifiedStep, FinishBootstrapStep, NotebooksFailStep DEF Window
<1>5. ASSUME NEW w \in Windows, User(w) PROVE IInv'
  BY <1>5, UserStep
<1>6. CASE UNCHANGED vars
  <2>1. UNCHANGED <<kernelVars, windowVars, rpc, mail, missed, left>>
    BY <1>6 DEF vars
  <2>2. \A v \in Windows : WindowInv(v)'
    BY <2>1 DEF IInv, WindowInv, Asking, AnswerTrue, Applied, Current, windowVars
  <2>3. Types' /\ FenceInv'
    BY <2>1 DEF IInv, Types, FenceInv, kernelVars, windowVars
  <2>4. QED
    BY <2>2, <2>3 DEF IInv
<1>7. QED
  BY <1>1, <1>2, <1>3, <1>4, <1>5, <1>6 DEF Next

(* The inductive invariant of the windows and the kernel's policy. *)
THEOREM Invariance == Spec => []IInv
<1>1. Init => IInv
  BY InitInv
<1>2. IInv /\ [Next]_vars => IInv'
  BY NextInv
<1>3. QED
  BY <1>1, <1>2, PTL DEF Spec

(* Every variable of the windows has its type, and a call that has asked  *)
(* has the RPC it asked through.  (index.ts:86-95)                          *)
THEOREM TypeCorrect == Spec => []SyncTypeOK
<1>1. IInv => SyncTypeOK
  BY TypesHold
<1>2. QED
  BY <1>1, Invariance, PTL

-----------------------------------------------------------------------------

(* What one step may say of window w. *)
ReportTrue(w) ==
  /\ dock'[w] = "confirmed" /\ dock[w] # "confirmed" => shown'[w] \in rpc[w].inForce
  /\ report'[w] = "not_saved" /\ report[w] # "not_saved" => rpc[w].written = "no"
  /\ report'[w] \in {"saved", "unconfirmed"} /\ report[w] # report'[w] => rpc[w].written = "yes"

(* The end of a call is what a window tells its user. *)
LEMMA EndTold ==
  ASSUME IInv, NEW w \in Windows, NEW o, NEW s, Ends(w, o, s)
  PROVE  /\ dock'[w] = o /\ (report'[w] = report[w] \/ report'[w] = s)
         /\ \A v \in Windows \ {w} : dock'[v] = dock[v] /\ report'[v] = report[v]
BY DEF IInv, Types, Ends

(* A step by which no window says anything new of a policy. *)
LEMMA NothingTold ==
  ASSUME NEW v \in Windows, dock'[v] = dock[v] \/ dock'[v] # "confirmed",
         report'[v] = report[v] \/ report'[v] \notin {"not_saved", "saved", "unconfirmed"}
  PROVE  ReportTrue(v)
BY DEF ReportTrue

LEMMA FinishesTold ==
  ASSUME IInv, NEW w \in Windows, Finishes(w)
  PROVE  ReportTrue(w) /\ \A v \in Windows \ {w} : dock'[v] = dock[v] /\ report'[v] = report[v]
<1>1. stage[w] # "waiting" /\ rpc[w].state # "none"
  BY DEF Finishes, ReloadConfirmed, ReloadFailed, SaveConfirmed, SaveFailed, IInv, WindowInv, Asking
<1>2. AnswerTrue(w) /\ Applied(w)
  BY <1>1, Asked
<1>3. CASE ReloadConfirmed(w)
  <2>1. Ends(w, "confirmed", "none") /\ shown'[w] = rpc[w].answer.policy /\ rpc[w].answer.ready
    BY <1>3 DEF ReloadConfirmed, Confirms, IInv, Types
  <2>2. QED
    BY <1>2, <2>1, EndTold DEF ReportTrue, AnswerTrue
<1>4. CASE ReloadFailed(w)
  <2>1. Ends(w, "failed", "none")
    BY <1>4 DEF ReloadFailed
  <2>2. QED
    BY <2>1, EndTold DEF ReportTrue
<1>5. CASE SaveConfirmed(w)
  <2>1. rpc[w].answer.saved = "saved" /\ shown'[w] = Current(w).policy /\ rpc[w].written = "yes"
    BY <1>2, <1>5 DEF SaveConfirmed, Applied, AnswerTrue
  <2>2. CASE Confirms(w, Current(w).policy)
    <3>1. Ends(w, "confirmed", "saved")
      BY <1>5, <2>2 DEF SaveConfirmed
    <3>2. shown'[w] \in rpc[w].inForce
      BY <1>2, <2>1, <2>2 DEF Confirms, AnswerTrue
    <3>3. QED
      BY <2>1, <3>1, <3>2, EndTold DEF ReportTrue
  <2>3. CASE ~Confirms(w, Current(w).policy)
    <3>1. Ends(w, "failed", "unconfirmed")
      BY <1>5, <2>3 DEF SaveConfirmed
    <3>2. QED
      BY <2>1, <3>1, EndTold DEF ReportTrue
  <2>4. QED
    BY <2>2, <2>3
<1>6. CASE SaveFailed(w)
  <2>1. CASE Ends(w, "failed", "unknown")
    BY <2>1, EndTold DEF ReportTrue
  <2>2. CASE rpc[w].answer.saved = "not_saved" /\ Ends(w, "failed", "not_saved")
    BY <1>2, <2>2, EndTold DEF ReportTrue, AnswerTrue
  <2>3. QED
    BY <1>6, <2>1, <2>2 DEF SaveFailed
<1>7. QED
  BY <1>3, <1>4, <1>5, <1>6 DEF Finishes

LEMMA StepTold ==
  ASSUME IInv, [Next]_vars, NEW v \in Windows
  PROVE  ReportTrue(v)
<1>1. CASE UNCHANGED <<dock, report>>
  BY <1>1, NothingTold
<1>2. ASSUME NEW w \in Windows, Finishes(w) PROVE ReportTrue(v)
  <2>1. CASE v = w
    BY <1>2, <2>1, FinishesTold
  <2>2. CASE v # w
    BY <1>2, <2>2, FinishesTold, NothingTold
  <2>3. QED
    BY <2>1, <2>2
<1>3. ASSUME NEW w \in Windows, NEW s \in {"blocked", "unknown", "timeout"}, Ends(w, "failed", s)
      PROVE  ReportTrue(v)
  <2>1. /\ dock'[w] = "failed" /\ (report'[w] = report[w] \/ report'[w] = s)
        /\ \A u \in Windows \ {w} : dock'[u] = dock[u] /\ report'[u] = report[u]
    BY <1>3, EndTold
  <2>2. QED
    BY <2>1, NothingTold
<1>4. ASSUME NEW w \in Windows, Window(w) PROVE ReportTrue(v)
  <2>1. CASE Start(w)
    <3>1. UNCHANGED report /\ (dock'[v] = dock[v] \/ dock'[v] = "syncing")
      BY <2>1 DEF Start, IInv, Types
    <3>2. QED
      BY <3>1, NothingTold
  <2>2. CASE StartBlocked(w) \/ Timeout(w)
    BY <1>3, <2>2 DEF StartBlocked, Timeout
  <2>3. CASE OrphanSettles(w) \/ SaveApplied(w) \/ Notified(w) \/ FinishBootstrap(w) \/ NotebooksFail(w)
    BY <1>1, <2>3 DEF OrphanSettles, SaveApplied, Notified, FinishBootstrap, NotebooksFail, windowVars
  <2>4. QED
    BY <1>2, <1>4, <2>1, <2>2, <2>3 DEF Window
<1>5. ASSUME NEW w \in Windows, Kernel(w) PROVE ReportTrue(v)
  <2>1. UNCHANGED windowVars
    BY <1>5 DEF Kernel, ServeReload, ServeSave, ServeSaveLate, ServeFailed, ServeSaveUnknown, RpcFails
  <2>2. QED
    BY <1>1, <2>1 DEF windowVars
<1>6. ASSUME NEW w \in Windows, User(w) PROVE ReportTrue(v)
  <2>1. UNCHANGED dock /\ (report'[v] = report[v] \/ report'[v] = "none")
    BY <1>6 DEF User, Refresh, Save, IInv, Types
  <2>2. QED
    BY <2>1, NothingTold
<1>7. CASE PutSettles \/ Restart \/ UNCHANGED vars
  BY <1>1, <1>7 DEF PutSettles, Restart, vars, windowVars
<1>8. QED
  BY <1>4, <1>5, <1>6, <1>7 DEF Next

(* What a window tells its user is true: what it shows as confirmed was   *)
(* in force since the call began, what it reports as not saved was not     *)
(* written, what it reports as saved was.                                  *)
(* (index.ts:446-483, policy-storage.ts:57-81)                             *)
THEOREM ReportsAreTrue == Spec => ReportsTrue
<1>1. IInv /\ [Next]_vars =>
        [\A w \in Windows :
           /\ dock'[w] = "confirmed" /\ dock[w] # "confirmed" => shown'[w] \in rpc[w].inForce
           /\ report'[w] = "not_saved" /\ report[w] # "not_saved" => rpc[w].written = "no"
           /\ report'[w] \in {"saved", "unconfirmed"} /\ report[w] # report'[w]
                => rpc[w].written = "yes"]_vars
  BY StepTold DEF ReportTrue
<1>2. QED
  BY <1>1, Invariance, PTL DEF Spec, ReportsTrue

-----------------------------------------------------------------------------

(* The policy in force and the one on disk part only through a late put.  *)
LEMMA StepParts ==
  ASSUME IInv, Next, ready', published' # disk', ready => published = disk
  PROVE  latePut # None /\ ~fenced
<1>1. CASE PutSettles
  BY <1>1 DEF IInv, FenceInv, PutSettles
<1>2. CASE Restart
  BY <1>2 DEF Restart, Publish
<1>3. ASSUME NEW w \in Windows, Kernel(w) PROVE latePut # None /\ ~fenced
  <2>1. CASE RpcFails(w)
    BY <2>1 DEF RpcFails, kernelVars
  <2>2. QED
    BY <1>3, <2>1 DEF Kernel, ServeReload, ServeSave, ServeSaveLate, ServeFailed, ServeSaveUnknown, Publish
<1>4. ASSUME NEW w \in Windows, Window(w) \/ User(w) PROVE latePut # None /\ ~fenced
  <2>1. UNCHANGED kernelVars
    BY <1>4 DEF Window, User, Start, StartBlocked, Timeout, OrphanSettles, SaveApplied, Finishes,
                ReloadConfirmed, ReloadFailed, SaveConfirmed, SaveFailed, Notified,
                FinishBootstrap, NotebooksFail, Refresh, Save
  <2>2. QED
    BY <2>1 DEF kernelVars
<1>5. QED
  BY <1>1, <1>2, <1>3, <1>4 DEF Next

(* The kernel comes to obey another policy than the one on disk only      *)
(* through a put of an instance that was unloaded.                         *)
(* (policy-sync.ts:62, policy-storage.ts:100)                              *)
THEOREM DivergenceHasCause == Spec => DivergenceOutlives
<1>1. IInv /\ [Next]_vars =>
        [ready' /\ published' # disk' /\ (ready => published = disk)
           => latePut # None /\ ~fenced]_vars
  BY StepParts
<1>2. QED
  BY <1>1, Invariance, PTL DEF Spec, DivergenceOutlives

-----------------------------------------------------------------------------
(* A window that no change has passed by (missed) will hear of what is on  *)
(* disk, or knows it: a call of it has not been served yet (Due), the news *)
(* is on its way to it (OnItsWay), or what it shows as confirmed, or would *)
(* by the answer in its hand, is on disk (Convinced).                      *)

Due(v) ==
  \/ Len(calls[v]) > 1
  \/ calls[v] # <<>> /\ (stage[v] = "waiting" \/ (stage[v] = "asked" /\ rpc[v].state = "sent"))

OnItsWay(v) ==
  \/ mail[v] # <<>> /\ mail[v][Len(mail[v])] = disk
  \/ mail[v] = <<>> /\ pending[v] = disk

Convinced(v) ==
  /\ stage[v] = "waiting" /\ dock[v] = "confirmed" => shown[v] = disk
  /\ stage[v] = "asked" /\ rpc[v].state = "answered" /\ rpc[v].answer.ready
       => rpc[v].answer.policy = disk
  /\ stage[v] = "applied" /\ rpc[v].answer.ready => rpc[v].answer.policy = disk

Informed(v) == v \notin missed => Due(v) \/ OnItsWay(v) \/ Convinced(v)

(* A window that has started keeps no fingerprint for later; one whose RPC *)
(* outlives its call shows nothing as confirmed; a save that was answered  *)
(* "saved" and ready was answered with its own policy.                     *)
NewsOf(v) ==
  /\ Informed(v)
  /\ booted[v] => pending[v] = None
  /\ stage[v] = "waiting" /\ rpc[v].state # "none" => dock[v] # "confirmed"
  /\ rpc[v].answer.saved = "saved" /\ rpc[v].answer.ready => rpc[v].answer.policy = rpc[v].policy

(* The kernel obeys what is on disk, unless a change has passed everybody  *)
(* by.                                                                     *)
KernelNews == ready /\ published # disk => missed = Windows

NewsInv == KernelNews /\ \A v \in Windows : NewsOf(v)

LEMMA InitNews == Init => NewsInv
<1> SUFFICES ASSUME Init PROVE NewsInv
  OBVIOUS
<1>1. KernelNews
  BY DEF Init, KernelNews
<1>2. ASSUME NEW v \in Windows PROVE NewsOf(v)
  <2>1. calls[v] = <<Call("bootstrap", None)>> /\ stage[v] = "waiting"
    BY DEF Init
  <2>2. Due(v)
    BY <2>1 DEF Due
  <2>3. QED
    BY <2>2 DEF Init, NewsOf, Informed, NoRpc, Rpc, NoAnswer
<1>3. QED
  BY <1>1, <1>2 DEF NewsInv

(* A step that leaves a window and its news alone. *)
LEMMA NewsStay ==
  ASSUME NEW v \in Windows, NewsOf(v), v \notin missed' => v \notin missed /\ disk' = disk,
         calls'[v] = calls[v], stage'[v] = stage[v], mail'[v] = mail[v], pending'[v] = pending[v],
         booted'[v] = booted[v], shown'[v] = shown[v], dock'[v] = dock[v],
         rpc'[v].state = rpc[v].state, rpc'[v].answer = rpc[v].answer,
         rpc'[v].policy = rpc[v].policy
  PROVE  NewsOf(v)'
BY DEF NewsOf, Informed, Due, OnItsWay, Convinced

(* The kernel answers window w.  A window the news may not have passed by  *)
(* is told, or was answered what is on disk, or nothing was changed.       *)
LEMMA ServedNews ==
  ASSUME IInv, NewsInv, NEW w \in Windows, NEW p, NEW r, NEW s, NEW x,
         rpc[w].state = "sent", GivesAnswer(w, p, r, s, x), UNCHANGED windowVars,
         s = "saved" /\ r => p = rpc[w].policy,
         r => p = disk',
         \A v \in Windows \ {w} : v \notin missed' =>
           \/ mail'[v] # <<>> /\ mail'[v][Len(mail'[v])] = disk'
           \/ v \notin missed /\ disk' = disk /\ mail'[v] = mail[v]
  PROVE  \A v \in Windows : NewsOf(v)'
<1>1. WindowInv(w) /\ NewsOf(w)
  BY DEF IInv, NewsInv
<1>2. NewsOf(w)'
  <2>1. /\ rpc'[w].state = "answered" /\ rpc'[w].policy = rpc[w].policy
        /\ rpc'[w].answer.ready = r /\ rpc'[w].answer.policy = p /\ rpc'[w].answer.saved = s
    BY DEF GivesAnswer
  <2>2. stage[w] # "applied"
    BY <1>1 DEF WindowInv, Applied
  <2>3. Convinced(w)'
    BY <1>1, <2>1, <2>2 DEF Convinced, NewsOf, windowVars
  <2>4. QED
    BY <1>1, <2>1, <2>3 DEF NewsOf, Informed, windowVars
<1>3. ASSUME NEW v \in Windows \ {w} PROVE NewsOf(v)'
  <2>1. /\ rpc'[v].state = rpc[v].state /\ rpc'[v].policy = rpc[v].policy
        /\ rpc'[v].answer = rpc[v].answer
    BY DEF GivesAnswer
  <2>2. /\ UNCHANGED <<calls, stage, pending, booted, shown, dock>> /\ NewsOf(v)
    BY DEF windowVars, NewsInv
  <2>3. CASE v \notin missed' /\ mail'[v] # <<>> /\ mail'[v][Len(mail'[v])] = disk'
    BY <2>1, <2>2, <2>3 DEF NewsOf, Informed, OnItsWay
  <2>4. CASE v \notin missed' /\ v \notin missed /\ disk' = disk /\ mail'[v] = mail[v]
    BY <2>1, <2>2, <2>4, NewsStay
  <2>5. CASE v \in missed'
    BY <2>1, <2>2, <2>5 DEF NewsOf, Informed
  <2>6. QED
    BY <2>3, <2>4, <2>5
<1>4. QED
  BY <1>2, <1>3

(* A policy pushed to every window is the last one on its way to each. *)
LEMMA PushedLast ==
  ASSUME IInv, NEW p \in Policies, mail' = [v \in Windows |-> Append(mail[v], p)], NEW v \in Windows
  PROVE  mail'[v] # <<>> /\ mail'[v][Len(mail'[v])] = p
<1>1. mail[v] \in Seq(Policies)
  BY DEF IInv, Types
<1>2. QED
  BY <1>1, AppendProperties

LEMMA ReloadNews ==
  ASSUME IInv, NewsInv, NEW w \in Windows, ServeReload(w)
  PROVE  NewsInv'
<1>1. /\ disk \in Policies /\ rpc[w].state = "sent" /\ UNCHANGED windowVars
      /\ Answered(w, disk, TRUE, "none", "no")
      /\ UNCHANGED <<disk, mail>> /\ missed' = missed \ {w} /\ published' = disk
  BY DEF IInv, Types, ServeReload, AskedTo, Publish
<1>2. GivesAnswer(w, disk, TRUE, "none", "no")
  BY <1>1, AnsweredTyped
<1>3. \A v \in Windows : NewsOf(v)'
  <2>1. \A v \in Windows \ {w} : v \notin missed' => v \notin missed /\ disk' = disk /\ mail'[v] = mail[v]
    BY <1>1
  <2>2. QED
    BY <1>1, <1>2, <2>1, ServedNews
<1>4. KernelNews'
  BY <1>1 DEF KernelNews
<1>5. QED
  BY <1>3, <1>4 DEF NewsInv

LEMMA SaveNews ==
  ASSUME IInv, NewsInv, NEW w \in Windows, ServeSave(w)
  PROVE  NewsInv'
<1>1. disk' = rpc[w].policy /\ rpc[w].policy \in Policies /\ rpc[w].state = "sent"
  BY SaveAsksPolicy DEF ServeSave
<1>2. /\ UNCHANGED windowVars /\ published' = disk'
      /\ Answered(w, disk', TRUE, "saved", "yes") /\ Push(w, disk')
  BY DEF ServeSave, Publish
<1>3. GivesAnswer(w, disk', TRUE, "saved", "yes")
  BY <1>1, <1>2, AnsweredTyped
<1>4. ASSUME NEW v \in Windows \ {w}, v \notin missed'
      PROVE  mail'[v] # <<>> /\ mail'[v][Len(mail'[v])] = disk'
  <2>1. mail' = [u \in Windows |-> Append(mail[u], disk')]
    BY <1>2, <1>4 DEF Push
  <2>2. QED
    BY <1>1, <2>1, PushedLast
<1>5. \A v \in Windows : NewsOf(v)'
  BY <1>1, <1>2, <1>3, <1>4, ServedNews
<1>6. KernelNews'
  BY <1>2 DEF KernelNews
<1>7. QED
  BY <1>5, <1>6 DEF NewsInv

LEMMA SaveLateNews ==
  ASSUME IInv, NewsInv, NEW w \in Windows, ServeSaveLate(w)
  PROVE  NewsInv'
<1>1. disk' = rpc[w].policy /\ rpc[w].policy \in Policies /\ rpc[w].state = "sent"
  BY SaveAsksPolicy DEF ServeSaveLate
<1>2. /\ UNCHANGED windowVars /\ ready' = FALSE
      /\ Answered(w, Default, FALSE, "saved", "yes")
      /\ mail' = [v \in Windows |-> Append(mail[v], disk')]
  BY DEF ServeSaveLate, Publish
<1>3. GivesAnswer(w, Default, FALSE, "saved", "yes")
  BY <1>1, <1>2, AnsweredTyped, SyncAssumption
<1>4. \A v \in Windows \ {w} : mail'[v] # <<>> /\ mail'[v][Len(mail'[v])] = disk'
  BY <1>1, <1>2, PushedLast
<1>5. \A v \in Windows : NewsOf(v)'
  BY <1>1, <1>2, <1>3, <1>4, ServedNews
<1>6. KernelNews'
  BY <1>2 DEF KernelNews
<1>7. QED
  BY <1>5, <1>6 DEF NewsInv

LEMMA FailedNews ==
  ASSUME IInv, NewsInv, NEW w \in Windows, ServeFailed(w)
  PROVE  NewsInv'
<1> DEFINE s == IF rpc[w].policy = None THEN "none" ELSE "not_saved"
<1>1. /\ rpc[w].state = "sent" /\ UNCHANGED windowVars /\ UNCHANGED <<disk, mail, missed>>
      /\ Answered(w, published', FALSE, s, "no")
      /\ UNCHANGED <<published, ready>> \/ (ready' = FALSE /\ published' = Default)
  BY DEF ServeFailed, Publish
<1>2. published' \in Policies
  BY <1>1, SyncAssumption DEF IInv, Types
<1>3. s \in {"none", "not_saved", "unknown", "saved"} /\ s # "saved"
  OBVIOUS
<1> HIDE DEF s
<1>4. GivesAnswer(w, published', FALSE, s, "no")
  BY <1>1, <1>2, <1>3, AnsweredTyped
<1>5. \A v \in Windows : NewsOf(v)'
  BY <1>1, <1>3, <1>4, ServedNews
<1>6. KernelNews'
  BY <1>1 DEF KernelNews, NewsInv
<1>7. QED
  BY <1>5, <1>6 DEF NewsInv

LEMMA SaveUnknownNews ==
  ASSUME IInv, NewsInv, NEW w \in Windows, ServeSaveUnknown(w)
  PROVE  NewsInv'
<1>1. /\ rpc[w].state = "sent" /\ UNCHANGED windowVars /\ UNCHANGED mail /\ ready' = FALSE
      /\ Answered(w, Default, FALSE, "unknown", "maybe")
      /\ missed' = IF disk' = disk THEN missed ELSE Windows
  BY DEF ServeSaveUnknown, AskedTo, Publish
<1>2. GivesAnswer(w, Default, FALSE, "unknown", "maybe")
  BY <1>1, AnsweredTyped, SyncAssumption
<1>3. \A v \in Windows \ {w} : v \notin missed' => v \notin missed /\ disk' = disk /\ mail'[v] = mail[v]
  BY <1>1
<1>4. \A v \in Windows : NewsOf(v)'
  BY <1>1, <1>2, <1>3, ServedNews
<1>5. KernelNews'
  BY <1>1 DEF KernelNews
<1>6. QED
  BY <1>4, <1>5 DEF NewsInv

LEMMA PutSettlesNews ==
  ASSUME IInv, NewsInv, PutSettles
  PROVE  NewsInv'
<1>1. /\ UNCHANGED <<published, ready, windowVars, rpc, mail>>
      /\ missed' = IF disk' = disk THEN missed ELSE Windows
  BY DEF PutSettles
<1>2. ASSUME NEW v \in Windows PROVE NewsOf(v)'
  <2>1. NewsOf(v) /\ (v \notin missed' => v \notin missed /\ disk' = disk)
    BY <1>1 DEF NewsInv
  <2>2. QED
    BY <1>1, <2>1, NewsStay DEF windowVars
<1>3. KernelNews'
  BY <1>1 DEF KernelNews, NewsInv
<1>4. QED
  BY <1>2, <1>3 DEF NewsInv

LEMMA RestartNews ==
  ASSUME IInv, NewsInv, Restart
  PROVE  NewsInv'
<1>1. /\ UNCHANGED <<disk, windowVars, mail, missed>>
      /\ published' = disk \/ ready' = FALSE
  BY DEF Restart, Publish
<1>2. ASSUME NEW v \in Windows PROVE NewsOf(v)'
  <2>1. rpc[v] \in RpcType
    BY DEF IInv, Types
  <2>2. rpc'[v] = rpc[v] \/ rpc'[v] = [rpc[v] EXCEPT !.inForce = @ \cup {published'}]
    BY DEF Restart
  <2>3. /\ rpc'[v].state = rpc[v].state /\ rpc'[v].answer = rpc[v].answer
        /\ rpc'[v].policy = rpc[v].policy
    BY <2>1, <2>2 DEF RpcType
  <2>4. QED
    BY <1>1, <2>3, NewsStay DEF windowVars, NewsInv
<1>3. KernelNews'
  BY <1>1 DEF KernelNews
<1>4. QED
  BY <1>2, <1>3 DEF NewsInv

LEMMA RpcFailsNews ==
  ASSUME IInv, NewsInv, NEW w \in Windows, RpcFails(w)
  PROVE  NewsInv'
<1>1. /\ UNCHANGED <<kernelVars, windowVars, mail, missed>>
      /\ rpc' = [rpc EXCEPT ![w].state = "error"] /\ rpc[w].state \in {"sent", "answered"}
  BY DEF RpcFails
<1>2. rpc[w] \in RpcType /\ rpc \in [Windows -> RpcType] /\ WindowInv(w)
  BY DEF IInv, Types
<1>3. /\ rpc'[w].state = "error" /\ rpc'[w].answer = rpc[w].answer /\ rpc'[w].policy = rpc[w].policy
      /\ \A v \in Windows \ {w} : rpc'[v] = rpc[v]
  BY <1>1, <1>2 DEF RpcType
<1>4. NewsOf(w)'
  <2>1. NewsOf(w)
    BY DEF NewsInv
  <2>2. CASE stage[w] = "asked"
    <3>1. Convinced(w)'
      BY <1>1, <1>3, <2>2 DEF Convinced, windowVars
    <3>2. QED
      BY <1>1, <1>3, <2>1, <2>2, <3>1 DEF NewsOf, Informed, windowVars
  <2>3. CASE stage[w] # "asked"
    BY <1>1, <1>3, <2>1, <2>3
    DEF NewsOf, Informed, Due, OnItsWay, Convinced, windowVars, kernelVars
  <2>4. QED
    BY <2>2, <2>3
<1>5. ASSUME NEW v \in Windows \ {w} PROVE NewsOf(v)'
  BY <1>1, <1>3, NewsStay DEF windowVars, kernelVars, NewsInv
<1>6. KernelNews'
  BY <1>1 DEF KernelNews, NewsInv, kernelVars
<1>7. QED
  BY <1>4, <1>5, <1>6 DEF NewsInv

(* The windows a step of window w leaves alone. *)
LEMMA OthersNews ==
  ASSUME NewsInv, NEW w \in Windows, NEW v \in Windows \ {w},
         disk' = disk, v \notin missed' => v \notin missed,
         calls'[v] = calls[v], stage'[v] = stage[v], mail'[v] = mail[v], pending'[v] = pending[v],
         booted'[v] = booted[v], shown'[v] = shown[v], dock'[v] = dock[v], rpc'[v] = rpc[v]
  PROVE  NewsOf(v)'
BY NewsStay DEF NewsInv

LEMMA StartNews ==
  ASSUME IInv, NewsInv, NEW w \in Windows, Start(w)
  PROVE  NewsInv'
<1> DEFINE r == Rpc("sent", Current(w).policy, IF ready THEN {published} ELSE {})
<1>1. /\ UNCHANGED <<kernelVars, shown, booted, pending, finishing, calls, report, mail, missed, left>>
      /\ calls[w] # <<>> /\ stage' = [stage EXCEPT ![w] = "asked"]
      /\ dock' = [dock EXCEPT ![w] = "syncing"] /\ rpc' = [rpc EXCEPT ![w] = r]
  BY DEF Start
<1>2. /\ r.state = "sent" /\ ~r.answer.ready
  BY DEF Rpc, NoAnswer
<1> HIDE DEF r
<1>3. /\ stage'[w] = "asked" /\ rpc'[w] = r
      /\ \A v \in Windows \ {w} : stage'[v] = stage[v] /\ dock'[v] = dock[v] /\ rpc'[v] = rpc[v]
  BY <1>1 DEF IInv, Types
<1>4. NewsOf(w)'
  BY <1>1, <1>2, <1>3 DEF NewsOf, Informed, Due, NewsInv
<1>5. ASSUME NEW v \in Windows \ {w} PROVE NewsOf(v)'
  BY <1>1, <1>3, OthersNews DEF kernelVars
<1>6. KernelNews'
  BY <1>1 DEF KernelNews, NewsInv, kernelVars
<1>7. QED
  BY <1>4, <1>5, <1>6 DEF NewsInv

(* The running call of a window ends.  It shows a policy as confirmed only *)
(* if that was the answer in its hand.                                     *)
LEMMA EndingNews ==
  ASSUME IInv, NewsInv, NEW w \in Windows, calls[w] # <<>>,
         NEW o \in {"confirmed", "failed"}, NEW s, Ends(w, o, s),
         rpc' = rpc \/ rpc' = [rpc EXCEPT ![w] = NoRpc],
         \A v \in Windows \ {w} : shown'[v] = shown[v],
         UNCHANGED <<kernelVars, booted, pending, mail, missed>>,
         o = "confirmed" =>
           /\ rpc' = [rpc EXCEPT ![w] = NoRpc]
           /\ rpc[w].answer.ready /\ shown'[w] = rpc[w].answer.policy
           /\ stage[w] = "applied" \/ (stage[w] = "asked" /\ rpc[w].state = "answered")
  PROVE  NewsInv'
<1>1. /\ calls \in [Windows -> Seq(CallType)] /\ stage \in [Windows -> {"waiting", "asked", "applied"}]
      /\ dock \in [Windows -> {"syncing", "confirmed", "failed"}] /\ rpc \in [Windows -> RpcType]
  BY DEF IInv, Types
<1>2. /\ calls'[w] = Tail(calls[w]) /\ stage'[w] = "waiting" /\ dock'[w] = o
      /\ rpc'[w] = rpc[w] \/ rpc'[w] = NoRpc
      /\ o = "confirmed" => rpc'[w] = NoRpc
      /\ \A v \in Windows \ {w} : /\ calls'[v] = calls[v] /\ stage'[v] = stage[v]
                                  /\ dock'[v] = dock[v] /\ rpc'[v] = rpc[v]
  BY <1>1 DEF Ends
<1>3. Informed(w)'
  <2>1. CASE o = "failed"
    BY <1>2, <2>1 DEF Informed, Convinced
  <2>2. CASE o = "confirmed"
    <3>1. Informed(w)
      BY DEF NewsInv, NewsOf
    <3>2. OnItsWay(w) => OnItsWay(w)'
      BY DEF OnItsWay, kernelVars
    <3>3. Convinced(w) => Convinced(w)'
      BY <1>2, <2>2 DEF Convinced, kernelVars
    <3>4. Due(w) => Due(w)'
      <4>1. Len(calls[w]) > 1 => Tail(calls[w]) # <<>>
        <5>1. calls[w] \in Seq(CallType) /\ Len(Tail(calls[w])) = Len(calls[w]) - 1
          BY <1>1, HeadTailProperties
        <5>2. QED
          BY <5>1
      <4>2. QED
        BY <1>2, <2>2, <4>1 DEF Due
    <3>5. QED
      BY <3>1, <3>2, <3>3, <3>4 DEF Informed
  <2>3. QED
    BY <2>1, <2>2
<1>4. NewsOf(w)'
  <2>1. NewsOf(w)
    BY DEF NewsInv
  <2>2. QED
    BY <1>2, <1>3, <2>1, NoRpcTyped DEF NewsOf
<1>5. ASSUME NEW v \in Windows \ {w} PROVE NewsOf(v)'
  BY <1>2, OthersNews DEF kernelVars
<1>6. KernelNews'
  BY DEF KernelNews, NewsInv, kernelVars
<1>7. QED
  BY <1>4, <1>5, <1>6 DEF NewsInv

LEMMA EndsNews ==
  ASSUME IInv, NewsInv, NEW w \in Windows, StartBlocked(w) \/ Timeout(w) \/ Finishes(w)
  PROVE  NewsInv'
<1>1. CASE StartBlocked(w)
  BY <1>1, EndingNews DEF StartBlocked
<1>2. CASE Timeout(w)
  <2> DEFINE s == IF stage[w] = "asked" THEN "unknown" ELSE "timeout"
  <2>1. /\ calls[w] # <<>> /\ Ends(w, "failed", s)
        /\ UNCHANGED <<kernelVars, shown, booted, pending, finishing, mail, missed, left>>
        /\ rpc' = rpc \/ rpc' = [rpc EXCEPT ![w] = NoRpc]
    BY <1>2 DEF Timeout
  <2> HIDE DEF s
  <2>2. QED
    BY <2>1, EndingNews
<1>3. CASE ReloadConfirmed(w)
  <2>1. /\ calls[w] # <<>> /\ Ends(w, "confirmed", "none")
        /\ UNCHANGED <<kernelVars, booted, pending, mail, missed, left>>
        /\ rpc' = [rpc EXCEPT ![w] = NoRpc]
        /\ rpc[w].answer.ready /\ stage[w] = "asked" /\ rpc[w].state = "answered"
        /\ shown' = [shown EXCEPT ![w] = rpc[w].answer.policy]
    BY <1>3, Asked DEF ReloadConfirmed, Confirms
  <2>2. shown'[w] = rpc[w].answer.policy /\ \A v \in Windows \ {w} : shown'[v] = shown[v]
    BY <2>1 DEF IInv, Types
  <2>3. QED
    BY <2>1, <2>2, EndingNews
<1>4. CASE ReloadFailed(w)
  <2>1. calls[w] # <<>>
    BY <1>4, Asked DEF ReloadFailed
  <2>2. QED
    BY <1>4, <2>1, EndingNews DEF ReloadFailed
<1>5. CASE SaveConfirmed(w)
  <2>1. /\ calls[w] # <<>> /\ stage[w] = "applied" /\ shown[w] = Current(w).policy
        /\ UNCHANGED <<kernelVars, shown, booted, pending, finishing, mail, missed, left>>
        /\ rpc' = [rpc EXCEPT ![w] = NoRpc]
    BY <1>5, Asked DEF SaveConfirmed, Applied
  <2>2. CASE Confirms(w, Current(w).policy)
    <3>1. Ends(w, "confirmed", "saved")
      BY <1>5, <2>2 DEF SaveConfirmed
    <3>2. rpc[w].answer.ready /\ rpc[w].answer.policy = shown[w]
      BY <2>1, <2>2 DEF Confirms
    <3>3. QED
      BY <2>1, <3>1, <3>2, EndingNews
  <2>3. CASE ~Confirms(w, Current(w).policy)
    BY <1>5, <2>1, <2>3, EndingNews DEF SaveConfirmed
  <2>4. QED
    BY <2>2, <2>3
<1>6. CASE SaveFailed(w)
  <2>1. /\ calls[w] # <<>>
        /\ UNCHANGED <<kernelVars, shown, booted, pending, finishing, mail, missed, left>>
        /\ rpc' = [rpc EXCEPT ![w] = NoRpc]
    BY <1>6, Asked DEF SaveFailed
  <2>2. PICK s \in {"unknown", "not_saved"} : Ends(w, "failed", s)
    BY <1>6 DEF SaveFailed
  <2>3. QED
    BY <2>1, <2>2, EndingNews
<1>7. QED
  BY <1>1, <1>2, <1>3, <1>4, <1>5, <1>6 DEF Finishes

LEMMA OrphanSettlesNews ==
  ASSUME IInv, NewsInv, NEW w \in Windows, OrphanSettles(w)
  PROVE  NewsInv'
<1>1. /\ UNCHANGED <<kernelVars, windowVars, mail, missed, left>>
      /\ rpc' = [rpc EXCEPT ![w] = NoRpc] /\ stage[w] = "waiting"
  BY DEF OrphanSettles
<1>2. rpc'[w] = NoRpc /\ \A v \in Windows \ {w} : rpc'[v] = rpc[v]
  BY <1>1 DEF IInv, Types
<1>3. NewsOf(w)'
  <2>1. NewsOf(w)
    BY DEF NewsInv
  <2>2. QED
    BY <1>1, <1>2, <2>1, NoRpcTyped
    DEF NewsOf, Informed, Due, OnItsWay, Convinced, windowVars, kernelVars
<1>4. ASSUME NEW v \in Windows \ {w} PROVE NewsOf(v)'
  BY <1>1, <1>2, OthersNews DEF windowVars, kernelVars
<1>5. KernelNews'
  BY <1>1 DEF KernelNews, NewsInv, kernelVars
<1>6. QED
  BY <1>3, <1>4, <1>5 DEF NewsInv

LEMMA SaveAppliedNews ==
  ASSUME IInv, NewsInv, NEW w \in Windows, SaveApplied(w)
  PROVE  NewsInv'
<1>1. /\ UNCHANGED <<kernelVars, dock, booted, pending, finishing, calls, report, rpc, mail, missed, left>>
      /\ stage[w] = "asked" /\ rpc[w].state = "answered"
      /\ stage' = [stage EXCEPT ![w] = "applied"]
      /\ shown' = [shown EXCEPT ![w] = Current(w).policy]
  BY DEF SaveApplied
<1>2. /\ stage'[w] = "applied"
      /\ \A v \in Windows \ {w} : stage'[v] = stage[v] /\ shown'[v] = shown[v]
  BY <1>1 DEF IInv, Types
<1>3. NewsOf(w)'
  <2>1. NewsOf(w)
    BY DEF NewsInv
  <2>2. QED
    BY <1>1, <1>2, <2>1 DEF NewsOf, Informed, Due, OnItsWay, Convinced, kernelVars
<1>4. ASSUME NEW v \in Windows \ {w} PROVE NewsOf(v)'
  BY <1>1, <1>2, OthersNews DEF kernelVars
<1>5. KernelNews'
  BY <1>1 DEF KernelNews, NewsInv, kernelVars
<1>6. QED
  BY <1>3, <1>4, <1>5 DEF NewsInv

(* A call that joins the queue of a window has not been served yet. *)
LEMMA QueuedDue ==
  ASSUME IInv, NEW w \in Windows, NEW c \in CallType, calls' = [calls EXCEPT ![w] = Append(@, c)],
         UNCHANGED <<stage, rpc>>
  PROVE  Due(w)' /\ \A v \in Windows \ {w} : calls'[v] = calls[v]
<1>1. calls \in [Windows -> Seq(CallType)] /\ stage[w] \in {"waiting", "asked", "applied"} /\ Asking(w)
  BY DEF IInv, Types, WindowInv
<1>2. /\ calls'[w] = Append(calls[w], c) /\ calls'[w] # <<>>
      /\ Len(calls'[w]) = Len(calls[w]) + 1
  BY <1>1, AppendProperties
<1>3. CASE calls[w] = <<>>
  BY <1>1, <1>2, <1>3 DEF Asking, Due
<1>4. CASE calls[w] # <<>>
  <2>1. Len(calls[w]) > 0
    BY <1>1, <1>4, EmptySeq
  <2>2. Len(calls'[w]) > 1
    BY <1>1, <1>2, <2>1
  <2>3. QED
    BY <2>2 DEF Due
<1>5. QED
  BY <1>1, <1>3, <1>4

(* A window looks at a fingerprint.  If that is not of its copy it will    *)
(* reload; if it is what is on disk and it holds no other answer, it is    *)
(* convinced already.                                                      *)
LEMMA DriftNews ==
  ASSUME IInv, NewsInv, NEW w \in Windows, NEW p, ReloadOnDrift(w, p),
         UNCHANGED <<kernelVars, shown, dock, stage, rpc>>,
         w \notin missed => Due(w) \/ p = disk \/ Convinced(w) \/ OnItsWay(w)'
  PROVE  /\ Informed(w)' /\ KernelNews'
         /\ \A v \in Windows \ {w} : calls'[v] = calls[v] /\ (v \notin missed' => v \notin missed)
<1>1. WindowInv(w) /\ NewsOf(w) /\ rpc[w] \in RpcType /\ stage[w] \in {"waiting", "asked", "applied"}
  BY DEF IInv, Types, NewsInv
<1>2. CASE p # shown[w]
  <2>1. calls' = [calls EXCEPT ![w] = Append(@, Call("changed", None))] /\ missed' = missed
    BY <1>2 DEF ReloadOnDrift
  <2>2. Call("changed", None) \in CallType
    BY CallTyped DEF CallKinds
  <2>3. Due(w)' /\ \A v \in Windows \ {w} : calls'[v] = calls[v]
    BY <2>1, <2>2, QueuedDue
  <2>4. QED
    BY <2>1, <2>3 DEF Informed, KernelNews, NewsInv, kernelVars
<1>3. CASE p = shown[w] /\ AnswerInHand(w)
  <2>1. missed' = missed \cup {w} /\ calls' = calls
    BY <1>3 DEF ReloadOnDrift
  <2>2. missed = Windows => missed' = Windows
    BY <2>1
  <2>3. QED
    BY <2>1, <2>2 DEF Informed, KernelNews, NewsInv, kernelVars
<1>4. CASE p = shown[w] /\ ~AnswerInHand(w)
  <2>1. missed' = missed /\ calls' = calls
    BY <1>4 DEF ReloadOnDrift
  <2>2. p = disk => Convinced(w)
    BY <1>1, <1>4 DEF Convinced, AnswerInHand, NewsOf, WindowInv, Asking, Applied
  <2>3. (Convinced(w) => Convinced(w)') /\ (Due(w) => Due(w)')
    BY <2>1 DEF Convinced, Due, kernelVars
  <2>4. QED
    BY <2>1, <2>2, <2>3 DEF Informed, KernelNews, NewsInv, kernelVars
<1>5. QED
  BY <1>2, <1>3, <1>4

LEMMA NotifiedNews ==
  ASSUME IInv, NewsInv, NEW w \in Windows, Notified(w)
  PROVE  NewsInv'
<1>1. /\ UNCHANGED <<kernelVars, shown, dock, booted, finishing, stage, report, rpc, left>>
      /\ mail[w] # <<>> /\ mail' = [mail EXCEPT ![w] = Tail(@)]
  BY DEF Notified
<1>2. /\ mail'[w] = Tail(mail[w]) /\ \A v \in Windows \ {w} : mail'[v] = mail[v]
      /\ mail[w] \in Seq(Policies)
  BY <1>1 DEF IInv, Types
<1>3. /\ Tail(mail[w]) = <<>> => mail[w][Len(mail[w])] = Head(mail[w])
      /\ Tail(mail[w]) # <<>> => Tail(mail[w])[Len(Tail(mail[w]))] = mail[w][Len(mail[w])]
  <2>1. /\ Len(Tail(mail[w])) = Len(mail[w]) - 1 /\ Len(mail[w]) \in Nat
        /\ \A i \in 1..Len(Tail(mail[w])) : Tail(mail[w])[i] = mail[w][i + 1]
        /\ Tail(mail[w]) \in Seq(Policies) /\ Head(mail[w]) = mail[w][1]
    BY <1>1, <1>2, HeadTailProperties
  <2>2. CASE Tail(mail[w]) = <<>>
    BY <2>1, <2>2
  <2>3. CASE Tail(mail[w]) # <<>>
    <3>1. Len(Tail(mail[w])) > 0
      BY <2>1, <2>3, EmptySeq
    <3>2. QED
      BY <2>1, <2>3, <3>1
  <2>4. QED
    BY <2>2, <2>3
<1>4. NewsOf(w)
  BY DEF NewsInv
<1>5. CASE booted[w]
  <2>1. ReloadOnDrift(w, Head(mail[w])) /\ UNCHANGED pending
    BY <1>5 DEF Notified
  <2>2. w \notin missed => Due(w) \/ Head(mail[w]) = disk \/ Convinced(w) \/ OnItsWay(w)'
    BY <1>1, <1>2, <1>3, <1>4 DEF NewsOf, Informed, OnItsWay, kernelVars
  <2>3. /\ Informed(w)' /\ KernelNews'
        /\ \A v \in Windows \ {w} : calls'[v] = calls[v] /\ (v \notin missed' => v \notin missed)
    BY <1>1, <2>1, <2>2, DriftNews
  <2>4. NewsOf(w)'
    BY <1>1, <1>4, <2>1, <2>3 DEF NewsOf
  <2>5. ASSUME NEW v \in Windows \ {w} PROVE NewsOf(v)'
    BY <1>1, <1>2, <2>1, <2>3, OthersNews DEF kernelVars
  <2>6. QED
    BY <2>3, <2>4, <2>5 DEF NewsInv
<1>6. CASE ~booted[w]
  <2>1. pending' = [pending EXCEPT ![w] = Head(mail[w])] /\ UNCHANGED <<calls, missed>>
    BY <1>6 DEF Notified
  <2>2. pending'[w] = Head(mail[w]) /\ \A v \in Windows \ {w} : pending'[v] = pending[v]
    BY <2>1 DEF IInv, Types
  <2>3. Informed(w)'
    BY <1>1, <1>2, <1>3, <1>4, <2>1, <2>2
    DEF NewsOf, Informed, Due, OnItsWay, Convinced, kernelVars
  <2>4. NewsOf(w)'
    BY <1>1, <1>4, <1>6, <2>3 DEF NewsOf
  <2>5. ASSUME NEW v \in Windows \ {w} PROVE NewsOf(v)'
    BY <1>1, <1>2, <2>1, <2>2, OthersNews DEF kernelVars
  <2>6. KernelNews'
    BY <1>1, <2>1 DEF KernelNews, NewsInv, kernelVars
  <2>7. QED
    BY <2>4, <2>5, <2>6 DEF NewsInv
<1>7. QED
  BY <1>5, <1>6

LEMMA FinishBootstrapNews ==
  ASSUME IInv, NewsInv, NEW w \in Windows, FinishBootstrap(w)
  PROVE  NewsInv'
<1>1. /\ UNCHANGED <<kernelVars, shown, dock, stage, report, rpc, mail, left>>
      /\ booted' = [booted EXCEPT ![w] = TRUE] /\ pending' = [pending EXCEPT ![w] = None]
  BY DEF FinishBootstrap
<1>2. /\ booted'[w] /\ pending'[w] = None
      /\ \A v \in Windows \ {w} : booted'[v] = booted[v] /\ pending'[v] = pending[v]
  BY <1>1 DEF IInv, Types
<1>3. NewsOf(w)
  BY DEF NewsInv
<1>4. None # disk
  BY SyncAssumption DEF IInv, Types
<1>5. /\ Informed(w)' /\ KernelNews'
      /\ \A v \in Windows \ {w} : calls'[v] = calls[v] /\ (v \notin missed' => v \notin missed)
  <2>1. CASE pending[w] = None
    <3>1. UNCHANGED <<calls, missed>>
      BY <2>1 DEF FinishBootstrap
    <3>2. QED
      BY <1>1, <1>2, <1>3, <2>1, <3>1
      DEF NewsOf, Informed, Due, OnItsWay, Convinced, KernelNews, NewsInv, kernelVars
  <2>2. CASE pending[w] # None
    <3>1. ReloadOnDrift(w, pending[w])
      BY <2>2 DEF FinishBootstrap
    <3>2. w \notin missed => Due(w) \/ pending[w] = disk \/ Convinced(w) \/ OnItsWay(w)'
      BY <1>1, <1>3 DEF NewsOf, Informed, OnItsWay, kernelVars
    <3>3. QED
      BY <1>1, <3>1, <3>2, DriftNews
  <2>3. QED
    BY <2>1, <2>2
<1>6. NewsOf(w)'
  BY <1>1, <1>2, <1>3, <1>5 DEF NewsOf
<1>7. ASSUME NEW v \in Windows \ {w} PROVE NewsOf(v)'
  BY <1>1, <1>2, <1>5, OthersNews DEF kernelVars
<1>8. QED
  BY <1>5, <1>6, <1>7 DEF NewsInv

LEMMA UserNews ==
  ASSUME IInv, NewsInv, NEW w \in Windows, User(w)
  PROVE  NewsInv'
<1>1. UNCHANGED <<kernelVars, shown, dock, booted, pending, finishing, stage, rpc, mail, missed>>
  BY DEF User, Refresh, Save
<1>2. PICK c \in CallType : calls' = [calls EXCEPT ![w] = Append(@, c)]
  <2>1. CASE Refresh(w)
    BY <2>1, CallTyped DEF Refresh, CallKinds
  <2>2. CASE Save(w)
    BY <2>2, CallTyped DEF Save, CallKinds
  <2>3. QED
    BY <2>1, <2>2 DEF User
<1>3. Due(w)' /\ \A v \in Windows \ {w} : calls'[v] = calls[v]
  BY <1>1, <1>2, QueuedDue
<1>4. NewsOf(w)'
  BY <1>1, <1>3 DEF NewsOf, Informed, NewsInv
<1>5. ASSUME NEW v \in Windows \ {w} PROVE NewsOf(v)'
  BY <1>1, <1>3, OthersNews DEF kernelVars
<1>6. KernelNews'
  BY <1>1 DEF KernelNews, NewsInv, kernelVars
<1>7. QED
  BY <1>4, <1>5, <1>6 DEF NewsInv

LEMMA NextNews == IInv /\ NewsInv /\ [Next]_vars => NewsInv'
<1> SUFFICES ASSUME IInv, NewsInv, [Next]_vars PROVE NewsInv'
  OBVIOUS
<1>1. CASE PutSettles
  BY <1>1, PutSettlesNews
<1>2. CASE Restart
  BY <1>2, RestartNews
<1>3. ASSUME NEW w \in Windows, Kernel(w) PROVE NewsInv'
  BY <1>3, ReloadNews, SaveNews, SaveLateNews, FailedNews, SaveUnknownNews, RpcFailsNews DEF Kernel
<1>4. ASSUME NEW w \in Windows, Window(w) PROVE NewsInv'
  <2>1. CASE NotebooksFail(w)
    <3>1. UNCHANGED <<kernelVars, shown, dock, booted, pending, calls, stage, report, rpc, mail, missed>>
      BY <2>1 DEF NotebooksFail
    <3>2. QED
      BY <3>1, NewsStay DEF NewsInv, KernelNews, kernelVars
  <2>2. QED
    BY <1>4, <2>1, StartNews, EndsNews, OrphanSettlesNews, SaveAppliedNews, NotifiedNews,
       FinishBootstrapNews DEF Window
<1>5. ASSUME NEW w \in Windows, User(w) PROVE NewsInv'
  BY <1>5, UserNews
<1>6. CASE UNCHANGED vars
  <2>1. UNCHANGED <<kernelVars, windowVars, rpc, mail, missed, left>>
    BY <1>6 DEF vars
  <2>2. QED
    BY <2>1, NewsStay DEF NewsInv, KernelNews, kernelVars, windowVars
<1>7. QED
  BY <1>1, <1>2, <1>3, <1>4, <1>5, <1>6 DEF Next

LEMMA NewsExplain == IInv /\ NewsInv => StaleHasCause
<1> SUFFICES ASSUME IInv, NewsInv, NEW w \in Windows, Stale(w), w \notin missed
             PROVE  ~booted[w] /\ pending[w] # None
  BY DEF StaleHasCause
<1>1. /\ calls[w] = <<>> /\ mail[w] = <<>> /\ ready /\ dock[w] = "confirmed" /\ shown[w] # published
  BY DEF Stale, AtRest
<1>2. WindowInv(w) /\ NewsOf(w) /\ stage[w] \in {"waiting", "asked", "applied"} /\ disk \in Policies
  BY DEF IInv, Types, NewsInv
<1>3. stage[w] = "waiting" /\ ~Due(w)
  BY <1>1, <1>2 DEF WindowInv, Asking, Due
<1>4. published = disk
  BY <1>1 DEF NewsInv, KernelNews
<1>5. pending[w] = disk
  BY <1>1, <1>2, <1>3, <1>4 DEF NewsOf, Informed, OnItsWay, Convinced
<1>6. QED
  BY <1>2, <1>5, SyncAssumption DEF NewsOf

(* A window at rest shows as confirmed a policy that the kernel does not  *)
(* obey only if the change never was pushed to it, or if it came while the *)
(* window held an answer it had not applied or was starting.               *)
(* (index.ts:96-107 and 131-145, policy-storage.ts:76-80)                  *)
THEOREM StalenessHasCause == Spec => []StaleHasCause
<1>1. Init => NewsInv
  BY InitNews
<1>2. IInv /\ NewsInv /\ [Next]_vars => NewsInv'
  BY NextNews
<1>3. IInv /\ NewsInv => StaleHasCause
  BY NewsExplain
<1>4. QED
  BY <1>1, <1>2, <1>3, Invariance, PTL DEF Spec

=============================================================================
