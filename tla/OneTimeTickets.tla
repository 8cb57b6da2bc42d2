---------------------------- MODULE OneTimeTickets ----------------------------
(***************************************************************************)
(* What the preview tokens of rename_note and move_note promise, whatever  *)
(* the number of calls made with them: a token is issued once, is spent by *)
(* at most one execution or lapses, and only the execution that spent it   *)
(* writes, once (README.md, "a two-step, one-time `previewToken`").        *)
(***************************************************************************)
CONSTANTS Ticket, Execution

VARIABLES
  open,     \* the tickets issued and not yet spent or lapsed
  issued,   \* the tickets issued so far
  spender,  \* the executions that spent a ticket, each with its ticket
  written   \* the executions whose write was sent

vars == <<open, issued, spender, written>>

Init == open = {} /\ issued = {} /\ spender = {} /\ written = {}

Issue(t) ==
  /\ t \notin issued
  /\ open' = open \cup {t}
  /\ issued' = issued \cup {t}
  /\ UNCHANGED <<spender, written>>

Spend(t, e) ==
  /\ t \in open
  /\ \A s \in spender : s[1] # e
  /\ open' = open \ {t}
  /\ spender' = spender \cup {<<e, t>>}
  /\ UNCHANGED <<issued, written>>

Lapse(t) ==
  /\ t \in open
  /\ open' = open \ {t}
  /\ UNCHANGED <<issued, spender, written>>

Write(e) ==
  /\ \E t \in Ticket : <<e, t>> \in spender
  /\ e \notin written
  /\ written' = written \cup {e}
  /\ UNCHANGED <<open, issued, spender>>

Next ==
  \/ \E t \in Ticket : Issue(t) \/ Lapse(t) \/ \E e \in Execution : Spend(t, e)
  \/ \E e \in Execution : Write(e)

Spec == Init /\ [][Next]_vars
=============================================================================
