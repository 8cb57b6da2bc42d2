----------------------------- MODULE DecideOnce -----------------------------
(***************************************************************************)
(* What a transaction service promises its clients.  A client names a hash *)
(* of the target once, as it saw it.  A transaction is offered on the hash *)
(* its client named.  It is decided at most once, by one request, and that *)
(* is told to go ahead exactly if it named the hash of the offer; nobody   *)
(* else is told of a decision.                                             *)
(***************************************************************************)
CONSTANTS Ids, Clients, Targets, Nobody

VARIABLES
  asked,     \* the target as each client named it, or Nobody
  offered,   \* each transaction: its target and verdict, or Nobody
  decider,   \* the request that decided it, or Nobody
  told       \* what each request was told, if anything

Init ==
  /\ asked = [c \in Clients |-> Nobody]
  /\ offered = [i \in Ids |-> Nobody]
  /\ decider = [i \in Ids |-> Nobody]
  /\ told = [c \in Clients |-> "nothing"]

Ask(c, target) ==
  /\ asked[c] = Nobody
  /\ asked' = [asked EXCEPT ![c] = target]
  /\ UNCHANGED <<offered, decider, told>>

Offer(i, c) ==
  /\ offered[i] = Nobody /\ asked[c] # Nobody
  /\ offered' = [offered EXCEPT ![i] = [target |-> asked[c], verdict |-> "open"]]
  /\ UNCHANGED <<asked, decider, told>>

(* A transaction is decided once, by comparing the two hashes. *)
Settle(i, c) ==
  /\ offered[i] # Nobody /\ decider[i] = Nobody /\ asked[c] # Nobody
  /\ \A j \in Ids : decider[j] # c
  /\ decider' = [decider EXCEPT ![i] = c]
  /\ offered' = [offered EXCEPT ![i].verdict =
                   IF asked[c] = offered[i].target THEN "confirmed" ELSE "state_changed"]
  /\ UNCHANGED <<asked, told>>

(* Who decided a transaction is told the verdict, anybody else is not. *)
Tell(c, answer) ==
  /\ told[c] = "nothing" /\ answer # "nothing"
  /\ answer \in {"confirmed", "state_changed"} =>
       \E i \in Ids : decider[i] = c /\ offered[i].verdict = answer
  /\ told' = [told EXCEPT ![c] = answer]
  /\ UNCHANGED <<asked, offered, decider>>

Next ==
  \/ \E c \in Clients, t \in Targets : Ask(c, t)
  \/ \E i \in Ids, c \in Clients : Offer(i, c) \/ Settle(i, c)
  \/ \E c \in Clients, a \in {"confirmed", "state_changed", "other"} : Tell(c, a)

Spec == Init /\ [][Next]_<<asked, offered, decider, told>>
=============================================================================
