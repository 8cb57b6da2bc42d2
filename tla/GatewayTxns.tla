----------------------------- MODULE GatewayTxns -----------------------------
(***************************************************************************)
(* The transactions of the gateway, crates/siyuanmasterd/src/main.rs.      *)
(* Every connection has a thread of its own; the threads share a table of  *)
(* transactions and an audit log, each behind a mutex of its own.  What a  *)
(* thread does while it holds one is one step here.  Both live in memory,  *)
(* so a restart of the process empties them and cuts the connections.      *)
(*                                                                         *)
(* Tokens are opaque: a request's token is good for its endpoint or not.   *)
(***************************************************************************)
EXTENDS TxnMachine, Naturals, Sequences, FiniteSets

CONSTANTS
  Previews,     \* requests POST /v1/txn/preview
  Confirms,     \* requests POST /v1/txn/confirm
  Others,       \* requests GET /v1/audit or POST /v1/token/verify
  AuditCap,     \* the audit log keeps 2000 entries
  ReadLimit,    \* a reader gets at most 200 of them
  MaxRestarts   \* bound: restarts of the process in a behaviour

Requests == Previews \cup Confirms \cup Others

ASSUME GatewayAssumption ==
  /\ IsFiniteSet(Previews)
  /\ Previews \cap (Confirms \cup Others) = {}
  /\ Confirms \cap Others = {}
  /\ None \notin Requests
  /\ None \notin [target : Hashes, verdict : {"open", "confirmed", "state_changed"}]
  /\ AuditCap \in Nat \ {0} /\ ReadLimit \in 1..AuditCap
  /\ MaxRestarts \in Nat

(* generate_txn_id: unique in a process, and later than those of an       *)
(* earlier one.                                                            *)
Ids == 1..Cardinality(Previews)

VARIABLES
  table,      \* the transactions in memory: a record per id, or None
  issued,     \* how many ids have been generated
  log,        \* the audit log, oldest entry first
  req,        \* how far each connection is
  heard,      \* history: requests of this process answered after an audit entry
  restarts    \* restarts so far

gatewayVars == <<table, issued, log, req, heard, restarts>>

GatewayStages == {"idle", "read", "acted", "audited", "answered", "gone"}

(* A connection: what was asked, the id and answer found, what was listed. *)
Connection(stage, id, hash, answer, list) ==
  [stage |-> stage, id |-> id, hash |-> hash, answer |-> answer, list |-> list]

GatewayInit ==
  /\ table = [i \in Ids |-> None]
  /\ issued = 0
  /\ log = <<>>
  /\ req = [r \in Requests |-> Connection("idle", 0, None, "none", <<>>)]
  /\ heard = {}
  /\ restarts = 0

At(r, stage) == req[r].stage = stage

(* The thread reads the request; a confirmation names some transaction. *)
Arrive(r) ==
  /\ At(r, "idle")
  /\ \E h \in Hashes \cup {None}, i \in Ids \cup {0} :
       /\ r \in Confirms <=> i # 0
       /\ r \notin Confirms => (h = None \/ r \in Previews)
       /\ r \in Confirms => h # None
       /\ req' = [req EXCEPT ![r] = Connection("read", i, h, "none", <<>>)]
  /\ UNCHANGED <<table, issued, log, heard, restarts>>

(* A request that is malformed, of no endpoint or without a token is      *)
(* denied on the spot, and no entry tells of it.                           *)
Deny(r) ==
  /\ At(r, "read")
  /\ req' = [req EXCEPT ![r].stage = "answered", ![r].answer = "denied"]
  /\ UNCHANGED <<table, issued, log, heard, restarts>>

(* The token is not good for the endpoint, or, when a verification was    *)
(* asked for, it is what the audit entry and the answer are about.         *)
CheckToken(r) ==
  /\ At(r, "read")
  /\ \/ req' = [req EXCEPT ![r].stage = "acted", ![r].answer = "forbidden"]
     \/ /\ r \in Others
        /\ req' = [req EXCEPT ![r].stage = "acted", ![r].answer = "valid"]
  /\ UNCHANGED <<table, issued, log, heard, restarts>>

(* txn_preview without a hash inserts nothing. *)
PreviewFails(r) ==
  /\ r \in Previews /\ At(r, "read") /\ req[r].hash = None
  /\ req' = [req EXCEPT ![r].stage = "acted", ![r].answer = "snapshot_failed"]
  /\ UNCHANGED <<table, issued, log, heard, restarts>>

Preview(r) ==
  /\ r \in Previews /\ At(r, "read") /\ req[r].hash # None
  /\ issued' = issued + 1
  /\ table' = [table EXCEPT ![issued'] = Previewed(req[r].hash)]
  /\ req' = [req EXCEPT ![r].stage = "acted", ![r].id = issued', ![r].answer = "awaiting_confirmation"]
  /\ UNCHANGED <<log, heard, restarts>>

(* txn_confirm: an unknown transaction is denied, without an entry. *)
ConfirmUnknown(r) ==
  /\ r \in Confirms /\ At(r, "read") /\ table[req[r].id] = None
  /\ req' = [req EXCEPT ![r].stage = "answered", ![r].answer = "txn_not_found"]
  /\ UNCHANGED <<table, issued, log, heard, restarts>>

Confirm(r) ==
  /\ r \in Confirms /\ At(r, "read") /\ table[req[r].id] # None
  /\ \E confirmed \in BOOLEAN :
       LET d == Decide(table[req[r].id], confirmed, req[r].hash)
       IN  /\ table' = [table EXCEPT ![req[r].id] = d.rec]
           /\ req' = [req EXCEPT ![r].stage = "acted", ![r].answer = d.answer]
  /\ UNCHANGED <<issued, log, heard, restarts>>

(* audit_entries: the newest entries first. *)
Newest(entries) ==
  LET n == Len(entries)
      m == IF n < ReadLimit THEN n ELSE ReadLimit
  IN  [k \in 1..m |-> entries[n + 1 - k]]

List(r) ==
  /\ r \in Others /\ At(r, "read")
  /\ req' = [req EXCEPT ![r].stage = "acted", ![r].answer = "list", ![r].list = Newest(log)]
  /\ UNCHANGED <<table, issued, log, heard, restarts>>

(* audit: the entry is pushed, and the oldest ones beyond the cap drained. *)
Pushed(entry) ==
  LET longer == Append(log, entry)
      excess == IF Len(longer) > AuditCap THEN Len(longer) - AuditCap ELSE 0
  IN  SubSeq(longer, excess + 1, Len(longer))

Outcome(answer) ==
  IF answer \in {"awaiting_confirmation", "confirmed", "list", "valid"} THEN "allowed"
  ELSE IF answer = "forbidden" THEN "denied" ELSE "failed"

Audit(r) ==
  /\ At(r, "acted")
  /\ log' = Pushed([from |-> r, outcome |-> Outcome(req[r].answer)])
  /\ req' = [req EXCEPT ![r].stage = "audited"]
  /\ UNCHANGED <<table, issued, heard, restarts>>

(* Faulty: the answer is sent before the entry is written. *)
RespondFirst(r) ==
  /\ At(r, "acted")
  /\ req' = [req EXCEPT ![r].stage = "answered"]
  /\ heard' = heard \cup {r}
  /\ UNCHANGED <<table, issued, log, restarts>>

(* The answer is sent, after the entry.  A client that hung up misses it; *)
(* the thread then stays here for ever, which is the same to the others.   *)
Respond(r) ==
  /\ At(r, "audited")
  /\ req' = [req EXCEPT ![r].stage = "answered"]
  /\ heard' = heard \cup {r}
  /\ UNCHANGED <<table, issued, log, restarts>>

(* The process is restarted. *)
RestartGateway ==
  /\ restarts < MaxRestarts
  /\ restarts' = restarts + 1
  /\ table' = [i \in Ids |-> None]
  /\ log' = <<>>
  /\ heard' = {}
  /\ req' = [r \in Requests |->
               IF req[r].stage \in {"read", "acted", "audited"}
               THEN [req[r] EXCEPT !.stage = "gone"] ELSE req[r]]
  /\ UNCHANGED issued

Serve(r) ==
  \/ Arrive(r) \/ Deny(r) \/ CheckToken(r)
  \/ PreviewFails(r) \/ Preview(r) \/ ConfirmUnknown(r) \/ Confirm(r) \/ List(r)
  \/ Audit(r) \/ Respond(r)

GatewayNext == RestartGateway \/ \E r \in Requests : Serve(r)

GatewaySpec == GatewayInit /\ [][GatewayNext]_gatewayVars

-----------------------------------------------------------------------------

Entries == [from : Requests, outcome : {"allowed", "denied", "failed"}]

(* The table holds transactions on offer or decided and nothing else; the *)
(* log stays within its cap.  (crates/siyuanmasterd/src/main.rs:504-712)   *)
GatewayTypeOK ==
  /\ \A i \in Ids : table[i] # None =>
       /\ table[i] \in Records /\ table[i].snapshot # None
       /\ table[i].state \in {"awaiting_confirmation", "confirmed", "failed"}
       /\ table[i].state = "confirmed" => table[i].current = table[i].snapshot
       /\ table[i].state = "failed" =>
            table[i].failure = "state_changed" /\ table[i].current # table[i].snapshot
  /\ issued \in 0..Cardinality(Previews)
  /\ log \in Seq(Entries) /\ Len(log) <= AuditCap
  /\ \A r \in Requests : req[r].stage \in GatewayStages /\ req[r].list \in Seq(Entries)
  /\ heard \in SUBSET Requests

(* Who reads the log misses no request that was answered before, except   *)
(* for newer ones that fill the list: the entry precedes the answer, and   *)
(* neither the cap nor the order of the threads hides it.                  *)
(* (crates/siyuanmasterd/src/main.rs:459-465, 690-711)                     *)
ReadsSeeAnswered ==
  [][\A r \in Others :
       req'[r].answer = "list" /\ req[r].answer # "list" =>
         LET listed == req'[r].list
         IN  \A q \in heard :
               \/ \E k \in DOMAIN listed : listed[k].from = q
               \/ Len(listed) = ReadLimit
                  /\ \A k \in DOMAIN listed : \E m \in DOMAIN log :
                       /\ log[m] = listed[k]
                       /\ \A n \in DOMAIN log : log[n].from = q => n < m]_gatewayVars

(* The requests that decided a transaction. *)
Deciders(i) ==
  {r \in Confirms : req[r].id = i /\ req[r].answer \in {"confirmed", "state_changed"}}

Nobody == None

Decider(i) == IF Deciders(i) = {} THEN Nobody ELSE CHOOSE r \in Deciders(i) : TRUE

Offered(i) ==
  IF i > issued THEN Nobody
  ELSE [target  |-> req[CHOOSE p \in Previews : req[p].id = i].hash,
        verdict |-> IF Deciders(i) = {} THEN "open" ELSE req[Decider(i)].answer]

Told(r) ==
  IF ~At(r, "answered") THEN "nothing"
  ELSE IF req[r].answer \in {"confirmed", "state_changed"} THEN req[r].answer ELSE "other"

Promise == INSTANCE DecideOnce WITH
  Clients <- Requests, Targets <- Hashes,
  asked <- [r \in Requests |-> req[r].hash],
  offered <- [i \in Ids |-> Offered(i)],
  decider <- [i \in Ids |-> Decider(i)],
  told <- [r \in Requests |-> Told(r)]

(* The gateway decides a transaction at most once, for one request, and   *)
(* confirms it exactly if that request named the hash that the preview     *)
(* named, whatever its threads interleave and however often it restarts.   *)
(* (txn.rs:8-17, "exactly_once"; siyuanmasterd/src/main.rs:658-676)        *)
ImplementsDecideOnce == Promise!Spec
=============================================================================
