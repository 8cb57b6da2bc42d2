-------------------------- MODULE TransactionsProofs --------------------------
(***************************************************************************)
(* Proofs about the two drivers of the transaction machine, for every set  *)
(* of hashes, connections and processes, any cap of the audit log, any     *)
(* clock and any number of restarts.                                       *)
(***************************************************************************)
EXTENDS MCTransactions, FiniteSetTheorems, SequenceTheorems, TLAPS

-----------------------------------------------------------------------------
(* The machine. *)

Offerable == {"awaiting_confirmation", "confirmed", "failed"}

(* The table's rows for a record that is being confirmed. *)
LEMMA ConfirmRows ==
  /\ \A t \in Table : t[1] = "awaiting_confirmation" /\ t[2] = "confirm"
                        <=> t = <<"awaiting_confirmation", "confirm", "confirmed", "none">>
  /\ \A t \in Table : t[1] = "confirmed" /\ t[2] = "state_mismatch"
                        <=> t = <<"confirmed", "state_mismatch", "failed", "state_changed">>
  /\ <<"awaiting_confirmation", "confirm", "confirmed", "none">> \in Table
  /\ <<"confirmed", "state_mismatch", "failed", "state_changed">> \in Table
  /\ \A t \in Table : t[2] = "confirm" => t[1] = "awaiting_confirmation"
BY DEF Table

(* The record after an event whose row in the table is known. *)
LEMMA AfterRow ==
  ASSUME NEW rec, NEW event, NEW t \in Table,
         \A u \in Table : u[1] = rec.state /\ u[2] = event <=> u = t
  PROVE  After(rec, event) = Record(t[3], rec.snapshot, rec.current,
                                    IF t[4] = "none" THEN rec.failure ELSE t[4])
<1>1. (CHOOSE u \in Table : u[1] = rec.state /\ u[2] = event) = t
  OBVIOUS
<1>2. QED
  BY <1>1, Zenon DEF After

LEMMA Confirmed ==
  ASSUME NEW rec \in Records, rec.state = "awaiting_confirmation"
  PROVE  After(rec, "confirm") = Record("confirmed", rec.snapshot, rec.current, rec.failure)
<1> DEFINE t == <<"awaiting_confirmation", "confirm", "confirmed", "none">>
<1>1. t \in Table /\ \A u \in Table : u[1] = rec.state /\ u[2] = "confirm" <=> u = t
  BY ConfirmRows
<1>2. t[3] = "confirmed" /\ t[4] = "none"
  OBVIOUS
<1> HIDE DEF t
<1>3. After(rec, "confirm") = Record(t[3], rec.snapshot, rec.current,
                                     IF t[4] = "none" THEN rec.failure ELSE t[4])
  BY <1>1, AfterRow
<1>4. QED
  BY <1>2, <1>3

LEMMA Mismatched ==
  ASSUME NEW s, NEW c, NEW f
  PROVE  After(Record("confirmed", s, c, f), "state_mismatch")
           = Record("failed", s, c, "state_changed")
<1> DEFINE t == <<"confirmed", "state_mismatch", "failed", "state_changed">>
           rec == Record("confirmed", s, c, f)
<1>1. rec.state = "confirmed" /\ rec.snapshot = s /\ rec.current = c
  BY DEF Record
<1>2. t \in Table /\ \A u \in Table : u[1] = rec.state /\ u[2] = "state_mismatch" <=> u = t
  BY <1>1, ConfirmRows
<1>3. t[3] = "failed" /\ t[4] = "state_changed"
  OBVIOUS
<1> HIDE DEF t, rec
<1>4. After(rec, "state_mismatch") = Record(t[3], rec.snapshot, rec.current,
                                            IF t[4] = "none" THEN rec.failure ELSE t[4])
  BY <1>2, AfterRow
<1>5. After(rec, "state_mismatch") = Record("failed", s, c, "state_changed")
  BY <1>1, <1>3, <1>4
<1>6. QED
  BY <1>5 DEF rec

(* The three ways a request to confirm a transaction can end. *)
LEMMA DecideCases ==
  ASSUME NEW rec \in Records, NEW sure \in BOOLEAN, NEW hash
  PROVE  LET d == Decide(rec, sure, hash)
         IN  \/ d.rec = rec /\ d.answer \in {"confirmation_required", "already_finalized"}
             \/ /\ rec.state = "awaiting_confirmation" /\ hash = rec.snapshot
                /\ d.answer = "confirmed"
                /\ d.rec = Record("confirmed", rec.snapshot, hash, rec.failure)
             \/ /\ rec.state = "awaiting_confirmation" /\ hash # rec.snapshot
                /\ d.answer = "state_changed"
                /\ d.rec = Record("failed", rec.snapshot, hash, "state_changed")
<1> DEFINE sured == After(rec, "confirm")
           noted == Record(sured.state, sured.snapshot, hash, sured.failure)
<1>1. CASE ~sure
  BY <1>1 DEF Decide
<1>2. CASE sure /\ ~Accepts(rec, "confirm")
  BY <1>2 DEF Decide
<1>3. CASE sure /\ Accepts(rec, "confirm")
  <2>1. rec.state = "awaiting_confirmation"
    BY <1>3, ConfirmRows DEF Accepts
  <2>2. noted = Record("confirmed", rec.snapshot, hash, rec.failure)
    BY <2>1, Confirmed DEF Record
  <2>3. CASE rec.snapshot = hash
    <3>1. Decide(rec, sure, hash) = [rec |-> noted, answer |-> "confirmed"]
      BY <1>3, <2>3 DEF Decide
    <3>2. QED
      BY <2>1, <2>2, <2>3, <3>1
  <2>4. CASE rec.snapshot # hash
    <3>1. Decide(rec, sure, hash)
            = [rec |-> After(noted, "state_mismatch"), answer |-> "state_changed"]
      BY <1>3, <2>4 DEF Decide
    <3>2. QED
      BY <2>1, <2>2, <2>4, <3>1, Mismatched
  <2>5. QED
    BY <2>3, <2>4
<1>4. QED
  BY <1>1, <1>2, <1>3

(* A preview with a hash offers the transaction on that hash. *)
LEMMA PreviewedOffers ==
  ASSUME NEW hash \in Hashes
  PROVE  Previewed(hash) = Record("awaiting_confirmation", hash, None, "none")
<1> DEFINE t == <<"previewed", "snapshot_ok", "awaiting_confirmation", "none">>
           rec == Record("previewed", hash, None, "none")
<1>1. rec.state = "previewed" /\ rec.snapshot = hash /\ rec.current = None /\ rec.failure = "none"
  BY DEF Record
<1>2. t \in Table /\ \A u \in Table : u[1] = rec.state /\ u[2] = "snapshot_ok" <=> u = t
  BY <1>1 DEF Table
<1>3. t[3] = "awaiting_confirmation" /\ t[4] = "none"
  OBVIOUS
<1> HIDE DEF t, rec
<1>4. After(rec, "snapshot_ok") = Record(t[3], rec.snapshot, rec.current,
                                         IF t[4] = "none" THEN rec.failure ELSE t[4])
  BY <1>2, AfterRow
<1>5. After(rec, "snapshot_ok") = Record("awaiting_confirmation", hash, None, "none")
  BY <1>1, <1>3, <1>4
<1>6. QED
  BY <1>5, MachineAssumption DEF Previewed, rec

LEMMA RecordTyped ==
  ASSUME NEW s \in States, NEW h \in Hashes, NEW c \in Hashes \cup {None}, NEW f \in Failures
  PROVE  /\ Record(s, h, c, f) \in Records /\ Record(s, h, c, f) # None
         /\ Record(s, h, c, f).state = s /\ Record(s, h, c, f).snapshot = h
         /\ Record(s, h, c, f).current = c /\ Record(s, h, c, f).failure = f
BY MachineAssumption DEF Record, Records

-----------------------------------------------------------------------------
(* The gateway.                                                            *)
(*                                                                         *)
(* The argument: an id belongs to one preview and is never issued again,   *)
(* not even by a later process (Numbering); who decided a transaction is   *)
(* one request, and the machine takes no second decision while the record  *)
(* is there (Deciding); once a restart has emptied the table nobody finds  *)
(* the record again.                                                       *)

Verdicts == {"confirmed", "state_changed"}

GatewayAnswers ==
  Verdicts \cup {"none", "denied", "forbidden", "valid", "snapshot_failed", "txn_not_found", "list",
                 "awaiting_confirmation", "confirmation_required", "already_finalized"}

Connections == [stage : GatewayStages, id : Ids \cup {0}, hash : Hashes \cup {None},
                answer : GatewayAnswers, list : Seq(Entries)]

Numbered == {p \in Previews : req[p].id # 0}

GatewayTypes ==
  /\ table \in [Ids -> Records \cup {None}]
  /\ issued = Cardinality(Numbered)
  /\ log \in Seq(Entries) /\ Len(log) <= AuditCap
  /\ req \in [Requests -> Connections]
  /\ heard \in SUBSET Requests

(* What a request knows of its transaction. *)
Knows(r) ==
  /\ req[r].stage = "idle" => req[r].hash = None
  /\ req[r].stage \in {"idle", "read"} => req[r].answer = "none"
  /\ r \in Previews /\ req[r].stage \in {"idle", "read"} => req[r].id = 0
  /\ r \in Previews /\ req[r].id # 0 => req[r].id <= issued /\ req[r].hash \in Hashes
  /\ r \in Confirms /\ req[r].stage # "idle" => req[r].id \in Ids /\ req[r].hash \in Hashes

(* Every id that was issued belongs to one preview. *)
Numbering ==
  /\ \A i \in Ids : i <= issued => \E p \in Previews : req[p].id = i
  /\ \A p, q \in Previews : req[p].id = req[q].id /\ req[p].id # 0 => p = q

(* A request that decided a transaction is the only one, and it is over.  *)
Deciding(r) ==
  req[r].answer \in Verdicts =>
    /\ r \in Confirms /\ req[r].id \in Ids /\ req[r].id <= issued
    /\ table[req[r].id] # None => table[req[r].id].state # "awaiting_confirmation"
    /\ \A q \in Requests : req[q].answer \in Verdicts /\ req[q].id = req[r].id => q = r
    /\ \A p \in Previews : req[p].id = req[r].id =>
         req[r].answer = IF req[r].hash = req[p].hash THEN "confirmed" ELSE "state_changed"

(* A record in the table is on offer, or decided, on its preview's hash.   *)
Offering(i) ==
  table[i] # None =>
    /\ i <= issued
    /\ table[i].state \in Offerable /\ table[i].snapshot # None
    /\ table[i].state = "confirmed" => table[i].current = table[i].snapshot
    /\ table[i].state = "failed" =>
         table[i].failure = "state_changed" /\ table[i].current # table[i].snapshot
    /\ \A p \in Previews : req[p].id = i => req[p].hash = table[i].snapshot

(* A request that was audited is in the log, or the log is full.           *)
Logged(r) ==
  r \in heard \/ req[r].stage = "audited" =>
    Len(log) = AuditCap \/ \E n \in DOMAIN log : log[n].from = r

TransactionsInv ==
  /\ \A r \in Requests : Knows(r) /\ Deciding(r)
  /\ Numbering
  /\ \A i \in Ids : Offering(i)

GatewayInv == GatewayTypes /\ TransactionsInv /\ \A r \in Requests : Logged(r)

LEMMA IdsFinite ==
  /\ Cardinality(Previews) \in Nat /\ Ids \subseteq Nat /\ 0 \notin Ids
  /\ \A S \in SUBSET Previews : IsFiniteSet(S) /\ Cardinality(S) \in 0..Cardinality(Previews)
<1>1. Cardinality(Previews) \in Nat
  BY GatewayAssumption, FS_CardinalityType
<1>2. ASSUME NEW S \in SUBSET Previews
      PROVE  IsFiniteSet(S) /\ Cardinality(S) \in 0..Cardinality(Previews)
  <2>1. IsFiniteSet(S) /\ Cardinality(S) <= Cardinality(Previews)
    BY <1>2, GatewayAssumption, FS_Subset
  <2>2. Cardinality(S) \in Nat
    BY <2>1, FS_CardinalityType
  <2>3. QED
    BY <1>1, <2>1, <2>2
<1>3. QED
  BY <1>1, <1>2 DEF Ids

LEMMA IssuedTyped == ASSUME GatewayTypes PROVE issued \in 0..Cardinality(Previews)
BY IdsFinite DEF GatewayTypes, Numbered

LEMMA GatewayTypesHold == GatewayInv => GatewayTypeOK
<1> SUFFICES ASSUME GatewayInv PROVE GatewayTypeOK
  OBVIOUS
<1>1. issued \in 0..Cardinality(Previews)
  BY IssuedTyped DEF GatewayInv
<1>2. ASSUME NEW i \in Ids, table[i] # None
      PROVE  /\ table[i] \in Records /\ table[i].snapshot # None
             /\ table[i].state \in {"awaiting_confirmation", "confirmed", "failed"}
             /\ table[i].state = "confirmed" => table[i].current = table[i].snapshot
             /\ table[i].state = "failed" =>
                  table[i].failure = "state_changed" /\ table[i].current # table[i].snapshot
  BY <1>2 DEF GatewayInv, GatewayTypes, TransactionsInv, Offering, Offerable
<1>3. \A r \in Requests : req[r].stage \in GatewayStages /\ req[r].list \in Seq(Entries)
  BY DEF GatewayInv, GatewayTypes, Connections
<1>4. QED
  BY <1>1, <1>2, <1>3 DEF GatewayTypeOK, GatewayInv, GatewayTypes

LEMMA GatewayInitInv == GatewayInit => GatewayInv
<1> SUFFICES ASSUME GatewayInit PROVE GatewayInv
  OBVIOUS
<1>1. \A r \in Requests : req[r] = Connection("idle", 0, None, "none", <<>>)
  BY DEF GatewayInit
<1>2. /\ Connection("idle", 0, None, "none", <<>>) \in Connections
      /\ Connection("idle", 0, None, "none", <<>>).id = 0
      /\ Connection("idle", 0, None, "none", <<>>).stage = "idle"
      /\ Connection("idle", 0, None, "none", <<>>).answer = "none"
      /\ Connection("idle", 0, None, "none", <<>>).hash = None
  BY DEF Connection, Connections, GatewayStages, GatewayAnswers
<1>3. Numbered = {}
  BY <1>1, <1>2 DEF Numbered, Requests
<1>4. GatewayTypes
  <2>1. issued = Cardinality(Numbered)
    BY <1>3, FS_EmptySet DEF GatewayInit
  <2>2. log \in Seq(Entries) /\ Len(log) <= AuditCap
    BY GatewayAssumption DEF GatewayInit
  <2>3. QED
    BY <1>1, <1>2, <2>1, <2>2 DEF GatewayInit, GatewayTypes
<1>5. TransactionsInv
  <2>1. \A i \in Ids : ~(i <= issued)
    BY DEF GatewayInit, Ids
  <2>2. QED
    BY <1>1, <1>2, <2>1 DEF GatewayInit, TransactionsInv, Knows, Deciding, Numbering, Offering,
                            Verdicts, Requests
<1>6. \A r \in Requests : Logged(r)
  BY <1>1, <1>2 DEF GatewayInit, Logged
<1>7. QED
  BY <1>4, <1>5, <1>6 DEF GatewayInv

(* The step is one of request r alone. *)
Moves(r) ==
  /\ req' \in [Requests -> Connections]
  /\ \A q \in Requests : q # r => req'[q] = req[q]

LEMMA MovesTo ==
  ASSUME GatewayTypes, NEW r \in Requests, NEW c \in Connections, req' = [req EXCEPT ![r] = c]
  PROVE  Moves(r) /\ req'[r] = c
BY DEF GatewayTypes, Moves

(* A step that neither offers nor decides a transaction.                   *)
Quiet(r) ==
  /\ Moves(r)
  /\ UNCHANGED <<table, issued>>
  /\ req'[r].stage # "idle"
  /\ \/ req'[r].answer = req[r].answer /\ req[r].stage \notin {"idle", "read"}
     \/ req'[r].answer \notin Verdicts /\ req[r].stage \in {"idle", "read"}
  /\ req'[r].stage = "read" => req'[r].answer = "none"
  /\ \/ /\ req[r].stage = "idle" /\ (r \in Previews => req'[r].id = 0)
        /\ r \in Confirms => req'[r].id \in Ids /\ req'[r].hash \in Hashes
     \/ /\ req[r].stage # "idle" /\ req'[r].id = req[r].id /\ req'[r].hash = req[r].hash
        /\ req'[r].stage # "read"

LEMMA QuietKeeps ==
  ASSUME GatewayTypes, TransactionsInv, NEW r \in Requests, Quiet(r)
  PROVE  TransactionsInv' /\ Numbered' = Numbered
<1>1. \A q \in Requests : q # r => req'[q] = req[q]
  BY DEF Quiet, Moves
<1>2. Knows(r) /\ Deciding(r)
  BY DEF TransactionsInv
<1>3. \A p \in Previews : req'[p].id = req[p].id /\ (req[p].id # 0 => req'[p].hash = req[p].hash)
  <2>1. r \in Previews => req'[r].id = req[r].id /\ (req[r].id # 0 => req'[r].hash = req[r].hash)
    BY <1>2 DEF Quiet, Knows
  <2>2. QED
    BY <1>1, <2>1 DEF Requests
<1>4. \A q \in Requests : req'[q].answer \in Verdicts =>
        /\ req[q].answer \in Verdicts /\ req'[q].answer = req[q].answer
        /\ req'[q].id = req[q].id /\ req'[q].hash = req[q].hash
  <2>1. req'[r].answer \in Verdicts =>
          /\ req[r].answer \in Verdicts /\ req'[r].answer = req[r].answer
          /\ req'[r].id = req[r].id /\ req'[r].hash = req[r].hash
    BY DEF Quiet
  <2>2. QED
    BY <1>1, <2>1
<1>5. ASSUME NEW q \in Requests PROVE Knows(q)'
  <2>1. Knows(q)
    BY DEF TransactionsInv
  <2>2. CASE q = r
    BY <1>2, <2>2 DEF Quiet, Knows
  <2>3. CASE q # r
    BY <1>1, <2>1, <2>3 DEF Quiet, Knows
  <2>4. QED
    BY <2>2, <2>3
<1>6. ASSUME NEW q \in Requests PROVE Deciding(q)'
  <2>1. Deciding(q)
    BY DEF TransactionsInv
  <2>2. \A i \in Ids : i # 0
    BY IdsFinite
  <2>3. QED
    BY <1>3, <1>4, <2>1, <2>2 DEF Quiet, Deciding
<1>7. Numbering'
  BY <1>3 DEF TransactionsInv, Quiet, Numbering
<1>8. ASSUME NEW i \in Ids PROVE Offering(i)'
  <2>1. Offering(i) /\ i # 0
    BY IdsFinite DEF TransactionsInv
  <2>2. QED
    BY <1>3, <2>1 DEF Quiet, Offering
<1>9. Numbered' = Numbered
  BY <1>3 DEF Numbered
<1>10. QED
  BY <1>5, <1>6, <1>7, <1>8, <1>9 DEF TransactionsInv

(* A thread goes on, and has perhaps found its answer and a list.          *)
LEMMA Restaged ==
  ASSUME GatewayTypes, NEW r \in Requests, NEW s \in GatewayStages, NEW a \in GatewayAnswers,
         NEW l \in Seq(Entries),
         req' = [req EXCEPT ![r] = [req[r] EXCEPT !.stage = s, !.answer = a, !.list = l]]
  PROVE  /\ Moves(r) /\ req'[r].stage = s /\ req'[r].answer = a
         /\ req'[r].id = req[r].id /\ req'[r].hash = req[r].hash
<1> DEFINE c == [req[r] EXCEPT !.stage = s, !.answer = a, !.list = l]
<1>1. req[r] \in Connections
  BY DEF GatewayTypes
<1>2. /\ c \in Connections /\ c.stage = s /\ c.answer = a
      /\ c.id = req[r].id /\ c.hash = req[r].hash
  BY <1>1 DEF Connections
<1> HIDE DEF c
<1>3. Moves(r) /\ req'[r] = c
  <2>1. req' = [req EXCEPT ![r] = c]
    BY DEF c
  <2>2. QED
    BY <1>2, <2>1, MovesTo
<1>4. QED
  BY <1>2, <1>3

LEMMA ConnectionParts ==
  ASSUME GatewayTypes, NEW r \in Requests
  PROVE  /\ req[r] = [req[r] EXCEPT !.list = req[r].list]
         /\ req[r].list \in Seq(Entries) /\ req[r].answer \in GatewayAnswers
         /\ req[r].stage \in GatewayStages
BY DEF GatewayTypes, Connections

LEMMA SameList ==
  ASSUME GatewayTypes, NEW r \in Requests, NEW s, NEW a,
         req' = [req EXCEPT ![r].stage = s, ![r].answer = a]
  PROVE  req' = [req EXCEPT ![r] = [req[r] EXCEPT !.stage = s, !.answer = a, !.list = req[r].list]]
<1>1. req[r] \in Connections /\ req \in [Requests -> Connections]
  BY DEF GatewayTypes
<1>2. [req[r] EXCEPT !.stage = s, !.answer = a]
        = [req[r] EXCEPT !.stage = s, !.answer = a, !.list = req[r].list]
  BY <1>1 DEF Connections
<1>3. QED
  BY <1>1, <1>2

LEMMA SameAnswer ==
  ASSUME GatewayTypes, NEW r \in Requests, NEW s,
         req' = [req EXCEPT ![r].stage = s]
  PROVE  req' = [req EXCEPT ![r] = [req[r] EXCEPT !.stage = s, !.answer = req[r].answer,
                                                  !.list = req[r].list]]
<1>1. req[r] \in Connections /\ req \in [Requests -> Connections]
  BY DEF GatewayTypes
<1>2. [req[r] EXCEPT !.stage = s]
        = [req[r] EXCEPT !.stage = s, !.answer = req[r].answer, !.list = req[r].list]
  BY <1>1 DEF Connections
<1>3. QED
  BY <1>1, <1>2

(* The newest entries, and where they stand in the log.                    *)
LEMMA NewestOf ==
  ASSUME GatewayTypes
  PROVE  /\ Newest(log) \in Seq(Entries)
         /\ Len(Newest(log)) = IF Len(log) < ReadLimit THEN Len(log) ELSE ReadLimit
         /\ \A k \in 1..Len(Newest(log)) : Newest(log)[k] = log[Len(log) + 1 - k]
<1> DEFINE n == Len(log)
           m == IF n < ReadLimit THEN n ELSE ReadLimit
<1>1. n \in Nat /\ m \in Nat /\ m <= n
  BY GatewayAssumption DEF GatewayTypes
<1>2. \A k \in 1..m : log[n + 1 - k] \in Entries
  BY <1>1 DEF GatewayTypes
<1>3. Newest(log) = [k \in 1..m |-> log[n + 1 - k]]
  BY DEF Newest
<1> HIDE DEF n, m
<1>4. [k \in 1..m |-> log[n + 1 - k]] \in [1..m -> Entries]
  BY <1>2
<1>5. Newest(log) \in Seq(Entries)
  BY <1>1, <1>3, <1>4, SeqDef
<1>6. Len(Newest(log)) = m
  BY <1>1, <1>3, <1>5
<1>7. QED
  BY <1>3, <1>5, <1>6 DEF m, n

QuietSteps(r) ==
  \/ Arrive(r) \/ Deny(r) \/ CheckToken(r) \/ PreviewFails(r) \/ ConfirmUnknown(r)
  \/ List(r) \/ Audit(r) \/ Respond(r)

LEMMA QuietOnes ==
  ASSUME GatewayTypes, TransactionsInv, NEW r \in Requests, QuietSteps(r)
  PROVE  Quiet(r)
<1> USE DEF GatewayStages, GatewayAnswers, Verdicts
<1>1. CASE Arrive(r)
  <2>1. PICK h \in Hashes \cup {None}, i \in Ids \cup {0} :
          /\ r \in Confirms <=> i # 0
          /\ r \in Confirms => h # None
          /\ req' = [req EXCEPT ![r] = Connection("read", i, h, "none", <<>>)]
    BY <1>1 DEF Arrive
  <2>2. /\ Connection("read", i, h, "none", <<>>) \in Connections
        /\ Connection("read", i, h, "none", <<>>).id = i
        /\ Connection("read", i, h, "none", <<>>).hash = h
        /\ Connection("read", i, h, "none", <<>>).stage = "read"
        /\ Connection("read", i, h, "none", <<>>).answer = "none"
    BY DEF Connection, Connections
  <2>3. Moves(r) /\ req'[r] = Connection("read", i, h, "none", <<>>)
    BY <2>1, <2>2, MovesTo
  <2>4. r \in Previews => i = 0
    BY <2>1, GatewayAssumption
  <2>5. QED
    BY <1>1, <2>1, <2>2, <2>3, <2>4 DEF Arrive, At, Quiet
<1>2. ASSUME NEW s \in {"answered", "acted"}, NEW a \in GatewayAnswers \ Verdicts,
             At(r, "read"), req' = [req EXCEPT ![r].stage = s, ![r].answer = a],
             UNCHANGED <<table, issued>>
      PROVE  Quiet(r)
  <2>1. /\ Moves(r) /\ req'[r].stage = s /\ req'[r].answer = a
        /\ req'[r].id = req[r].id /\ req'[r].hash = req[r].hash
    <3>1. req' = [req EXCEPT ![r] = [req[r] EXCEPT !.stage = s, !.answer = a, !.list = req[r].list]]
      BY <1>2, SameList
    <3>2. req[r].list \in Seq(Entries) /\ s \in GatewayStages /\ a \in GatewayAnswers
      BY <1>2, ConnectionParts
    <3>3. QED
      BY <3>1, <3>2, Restaged
  <2>2. QED
    BY <1>2, <2>1 DEF At, Quiet
<1>3. CASE Deny(r) \/ CheckToken(r) \/ PreviewFails(r) \/ ConfirmUnknown(r)
  BY <1>2, <1>3 DEF Deny, CheckToken, PreviewFails, ConfirmUnknown
<1>4. CASE List(r)
  <2>1. Newest(log) \in Seq(Entries)
    BY NewestOf
  <2>2. req' = [req EXCEPT ![r] = [req[r] EXCEPT !.stage = "acted", !.answer = "list",
                                                !.list = Newest(log)]]
    BY <1>4 DEF List, GatewayTypes
  <2>3. /\ Moves(r) /\ req'[r].stage = "acted" /\ req'[r].answer = "list"
        /\ req'[r].id = req[r].id /\ req'[r].hash = req[r].hash
    BY <2>1, <2>2, Restaged
  <2>4. QED
    BY <1>4, <2>3 DEF List, At, Quiet
<1>5. ASSUME NEW s \in {"audited", "answered"}, req[r].stage \in {"acted", "audited"},
             req' = [req EXCEPT ![r].stage = s], UNCHANGED <<table, issued>>
      PROVE  Quiet(r)
  <2>1. /\ Moves(r) /\ req'[r].stage = s /\ req'[r].answer = req[r].answer
        /\ req'[r].id = req[r].id /\ req'[r].hash = req[r].hash
    <3>1. req' = [req EXCEPT ![r] = [req[r] EXCEPT !.stage = s, !.answer = req[r].answer,
                                                    !.list = req[r].list]]
      BY <1>5, SameAnswer
    <3>2. /\ req[r].list \in Seq(Entries) /\ s \in GatewayStages
          /\ req[r].answer \in GatewayAnswers
      BY <1>5, ConnectionParts
    <3>3. QED
      BY <3>1, <3>2, Restaged
  <2>2. QED
    BY <1>5, <2>1 DEF Quiet
<1>6. CASE Audit(r) \/ Respond(r)
  BY <1>5, <1>6 DEF Audit, Respond, At
<1>7. QED
  BY <1>1, <1>3, <1>4, <1>6 DEF QuietSteps

(* A sequence without its first x entries.                                 *)
LEMMA Drained ==
  ASSUME NEW E, NEW q \in Seq(E), NEW x \in Nat, x < Len(q)
  PROVE  /\ SubSeq(q, x + 1, Len(q)) \in Seq(E)
         /\ Len(SubSeq(q, x + 1, Len(q))) = Len(q) - x
         /\ \A i \in 1..(Len(q) - x) : SubSeq(q, x + 1, Len(q))[i] = q[x + i]
<1> DEFINE lo == x + 1
           hi == Len(q)
<1>1. lo \in Int /\ hi \in Int /\ hi \in Nat /\ lo <= hi
  OBVIOUS
<1>2. \A i \in lo..hi : q[i] \in E
  OBVIOUS
<1> HIDE DEF lo, hi
<1>3. /\ SubSeq(q, lo, hi) \in Seq(E)
      /\ Len(SubSeq(q, lo, hi)) = IF lo <= hi THEN hi - lo + 1 ELSE 0
      /\ \A i \in 1..hi - lo + 1 : SubSeq(q, lo, hi)[i] = q[lo + i - 1]
  BY <1>1, <1>2, SubSeqProperties
<1>4. lo = x + 1 /\ hi = Len(q)
  BY DEF lo, hi
<1>5. hi - lo + 1 = hi - x /\ \A i \in 1..(hi - x) : lo + i - 1 = x + i
  BY <1>1, <1>4
<1>6. QED
  BY <1>1, <1>3, <1>5 DEF lo, hi

(* The log after an entry.                                                 *)
LEMMA PushedLog ==
  ASSUME GatewayTypes, NEW e \in Entries
  PROVE  /\ Pushed(e) \in Seq(Entries) /\ Len(Pushed(e)) <= AuditCap
         /\ \E n \in DOMAIN Pushed(e) : Pushed(e)[n] = e
         /\ Len(log) = AuditCap => Len(Pushed(e)) = AuditCap
         /\ Len(log) # AuditCap => \A n \in DOMAIN log : n \in DOMAIN Pushed(e) /\ Pushed(e)[n] = log[n]
<1> DEFINE longer == Append(log, e)
<1>1. /\ log \in Seq(Entries) /\ Len(log) \in Nat /\ Len(log) <= AuditCap
      /\ AuditCap \in Nat /\ AuditCap >= 1
  BY GatewayAssumption DEF GatewayTypes
<1>2. /\ longer \in Seq(Entries) /\ Len(longer) = Len(log) + 1 /\ longer[Len(log) + 1] = e
      /\ \A k \in 1..Len(log) : longer[k] = log[k]
  BY <1>1, AppendProperties
<1>3. Pushed(e) = SubSeq(longer, (IF Len(longer) > AuditCap THEN Len(longer) - AuditCap ELSE 0) + 1,
                         Len(longer))
  BY DEF Pushed
<1> HIDE DEF longer
<1>4. CASE Len(log) = AuditCap
  <2>1. Len(longer) - AuditCap = 1 /\ Len(longer) > AuditCap /\ 1 < Len(longer)
    BY <1>1, <1>2, <1>4
  <2>2. Pushed(e) = SubSeq(longer, 1 + 1, Len(longer))
    BY <1>3, <2>1
  <2>3. /\ Pushed(e) \in Seq(Entries) /\ Len(Pushed(e)) = Len(longer) - 1
        /\ \A i \in 1..(Len(longer) - 1) : Pushed(e)[i] = longer[1 + i]
    BY <1>2, <2>1, <2>2, Drained
  <2>4. Len(Pushed(e)) = AuditCap /\ AuditCap \in DOMAIN Pushed(e)
    BY <1>1, <2>1, <2>3
  <2>5. Pushed(e)[AuditCap] = e
    BY <1>1, <1>2, <1>4, <2>1, <2>3
  <2>6. QED
    BY <1>1, <1>4, <2>3, <2>4, <2>5
<1>5. CASE Len(log) # AuditCap
  <2>1. ~(Len(longer) > AuditCap) /\ 0 < Len(longer)
    BY <1>1, <1>2, <1>5
  <2>2. Pushed(e) = SubSeq(longer, 1, Len(longer))
    BY <1>3, <2>1
  <2>3. Pushed(e) = longer
    BY <1>2, <2>2, SubSeqFull
  <2>4. QED
    BY <1>1, <1>2, <1>5, <2>3
<1>6. QED
  BY <1>4, <1>5

(* A step of request r that leaves the log and who was heard alone.        *)
LEMMA LoggedStays ==
  ASSUME \A q \in Requests : Logged(q), NEW r \in Requests, Moves(r),
         UNCHANGED <<log, heard>>, req'[r].stage # "audited"
  PROVE  \A q \in Requests : Logged(q)'
BY DEF Logged, Moves

LEMMA QuietInv ==
  ASSUME GatewayInv, NEW r \in Requests, QuietSteps(r)
  PROVE  GatewayInv'
<1>1. GatewayTypes /\ TransactionsInv /\ \A q \in Requests : Logged(q)
  BY DEF GatewayInv
<1>2. Quiet(r)
  BY <1>1, QuietOnes
<1>3. TransactionsInv' /\ Numbered' = Numbered
  BY <1>1, <1>2, QuietKeeps
<1>4. Moves(r) /\ UNCHANGED <<table, issued>> /\ req'[r].stage # "idle"
  BY <1>2 DEF Quiet
<1>5. /\ log' \in Seq(Entries) /\ Len(log') <= AuditCap /\ heard' \in SUBSET Requests
      /\ \A q \in Requests : Logged(q)'
  <2>1. CASE Audit(r)
    <3> DEFINE e == [from |-> r, outcome |-> Outcome(req[r].answer)]
    <3>1. e \in Entries
      BY DEF Entries, Outcome
    <3>2. log' = Pushed(e) /\ heard' = heard
      BY <2>1 DEF Audit
    <3> HIDE DEF e
    <3>3. /\ Pushed(e) \in Seq(Entries) /\ Len(Pushed(e)) <= AuditCap
          /\ \E n \in DOMAIN Pushed(e) : Pushed(e)[n] = e
          /\ Len(log) = AuditCap => Len(Pushed(e)) = AuditCap
          /\ Len(log) # AuditCap =>
               \A n \in DOMAIN log : n \in DOMAIN Pushed(e) /\ Pushed(e)[n] = log[n]
      BY <1>1, <3>1, PushedLog
    <3>4. Logged(r)'
      BY <3>2, <3>3 DEF Logged, e
    <3>5. ASSUME NEW q \in Requests, q # r PROVE Logged(q)'
      <4>1. Logged(q) /\ req'[q] = req[q]
        BY <1>1, <1>4, <3>5 DEF Moves
      <4>2. QED
        BY <3>2, <3>3, <4>1 DEF Logged
    <3>6. QED
      BY <1>1, <3>2, <3>3, <3>4, <3>5 DEF GatewayTypes
  <2>2. CASE Respond(r)
    <3>1. UNCHANGED log /\ heard' = heard \cup {r} /\ req[r].stage = "audited"
      BY <2>2 DEF Respond, At
    <3>2. \A q \in Requests : Logged(q)'
      BY <1>1, <1>4, <3>1 DEF Logged, Moves
    <3>3. QED
      BY <1>1, <3>1, <3>2 DEF GatewayTypes
  <2>3. CASE ~Audit(r) /\ ~Respond(r)
    <3>1. UNCHANGED <<log, heard>>
      BY <2>3 DEF QuietSteps, Arrive, Deny, CheckToken, PreviewFails, ConfirmUnknown, List
    <3>2. req'[r].stage # "audited"
      BY <1>1, <2>3 DEF QuietSteps, Arrive, Deny, CheckToken, PreviewFails, ConfirmUnknown, List,
                       Connection, GatewayTypes, Connections
    <3>3. QED
      BY <1>1, <1>4, <3>1, <3>2, LoggedStays DEF GatewayTypes
  <2>4. QED
    BY <2>1, <2>2, <2>3
<1>6. GatewayTypes'
  BY <1>1, <1>3, <1>4, <1>5 DEF GatewayTypes, Moves
<1>7. QED
  BY <1>3, <1>5, <1>6 DEF GatewayInv

(* What a preview offers, under the next id.                               *)
LEMMA PreviewOffers ==
  ASSUME GatewayTypes, TransactionsInv, NEW r \in Requests, Preview(r)
  PROVE  /\ r \in Previews /\ req[r].hash \in Hashes /\ req[r].id = 0
         /\ issued \in Nat /\ issued' = issued + 1 /\ issued' \in Ids
         /\ table[issued'] = None
         /\ table' = [table EXCEPT ![issued'] =
                        Record("awaiting_confirmation", req[r].hash, None, "none")]
         /\ Moves(r) /\ req'[r].stage = "acted" /\ req'[r].answer = "awaiting_confirmation"
         /\ req'[r].id = issued' /\ req'[r].hash = req[r].hash
         /\ Numbered' = Numbered \cup {r} /\ issued' = Cardinality(Numbered')
<1>1. /\ r \in Previews /\ req[r] \in Connections /\ req[r].hash \in Hashes /\ req[r].id = 0
      /\ req \in [Requests -> Connections]
  BY DEF Preview, At, GatewayTypes, Connections, TransactionsInv, Knows
<1>2. issued \in Nat /\ issued' = issued + 1 /\ issued = Cardinality(Numbered)
  BY IssuedTyped DEF Preview, GatewayTypes
<1>3. IsFiniteSet(Numbered) /\ r \notin Numbered
  BY <1>1, IdsFinite DEF Numbered
<1>4. issued' = Cardinality(Numbered \cup {r}) /\ Numbered \cup {r} \in SUBSET Previews
  BY <1>1, <1>2, <1>3, FS_AddElement DEF Numbered
<1>5. issued' \in Ids
  BY <1>2, <1>4, IdsFinite DEF Ids
<1>6. table[issued'] = None
  BY <1>2, <1>5 DEF TransactionsInv, Offering
<1> DEFINE c == [req[r] EXCEPT !.stage = "acted", !.id = issued', !.answer = "awaiting_confirmation"]
<1>7. /\ c \in Connections /\ c.stage = "acted" /\ c.answer = "awaiting_confirmation"
      /\ c.id = issued' /\ c.hash = req[r].hash
  BY <1>1, <1>5 DEF Connections, GatewayStages, GatewayAnswers
<1>8. req' = [req EXCEPT ![r] = c]
  BY <1>1 DEF Preview
<1> HIDE DEF c
<1>9. Moves(r) /\ req'[r] = c
  BY <1>7, <1>8, MovesTo
<1>10. Numbered' = Numbered \cup {r}
  <2>1. issued' # 0
    BY <1>2
  <2>2. QED
    BY <1>1, <1>7, <1>9, <2>1 DEF Numbered, Moves, Requests
<1>11. table' = [table EXCEPT ![issued'] = Record("awaiting_confirmation", req[r].hash, None, "none")]
  BY <1>1, PreviewedOffers DEF Preview
<1>12. QED
  BY <1>1, <1>2, <1>4, <1>5, <1>6, <1>7, <1>9, <1>10, <1>11

LEMMA PreviewStep ==
  ASSUME GatewayInv, NEW r \in Requests, Preview(r)
  PROVE  GatewayInv'
<1> DEFINE rec == Record("awaiting_confirmation", req[r].hash, None, "none")
<1>1. GatewayTypes /\ TransactionsInv /\ \A q \in Requests : Logged(q)
  BY DEF GatewayInv
<1>2. /\ r \in Previews /\ req[r].hash \in Hashes /\ req[r].id = 0
      /\ issued \in Nat /\ issued' = issued + 1 /\ issued' \in Ids
      /\ table[issued'] = None /\ table' = [table EXCEPT ![issued'] = rec]
      /\ Moves(r) /\ req'[r].stage = "acted" /\ req'[r].answer = "awaiting_confirmation"
      /\ req'[r].id = issued' /\ req'[r].hash = req[r].hash
      /\ issued' = Cardinality(Numbered')
  BY <1>1, PreviewOffers
<1>3. /\ rec \in Records /\ rec # None /\ rec.state = "awaiting_confirmation"
      /\ rec.snapshot = req[r].hash
  BY <1>2, RecordTyped DEF States, Failures
<1> HIDE DEF rec
<1>4. /\ \A q \in Requests : q # r => req'[q] = req[q]
      /\ table'[issued'] = rec /\ \A i \in Ids : i # issued' => table'[i] = table[i]
  BY <1>1, <1>2 DEF Moves, GatewayTypes
<1>5. /\ \A p \in Previews : req[p].id # issued'
      /\ \A p \in Previews : p # r => req'[p].id # issued'
      /\ issued' # 0
  BY <1>1, <1>2, <1>4 DEF TransactionsInv, Knows, Requests
<1>6. ASSUME NEW q \in Requests PROVE Knows(q)'
  <2>1. Knows(q) /\ req[q] \in Connections
    BY <1>1 DEF TransactionsInv, GatewayTypes
  <2>2. r \notin Confirms
    BY <1>2, GatewayAssumption
  <2>3. CASE q = r
    BY <1>2, <2>2, <2>3 DEF Knows
  <2>4. CASE q # r
    <3>1. req'[q] = req[q] /\ (req[q].id \in Nat)
      BY <1>4, <2>1, <2>4, IdsFinite DEF Connections
    <3>2. req[q].id <= issued => req[q].id <= issued'
      BY <1>2, <3>1
    <3>3. QED
      BY <2>1, <3>1, <3>2 DEF Knows
  <2>5. QED
    BY <2>3, <2>4
<1>7. ASSUME NEW q \in Requests PROVE Deciding(q)'
  <2>1. SUFFICES ASSUME req'[q].answer \in Verdicts PROVE Deciding(q)'
    BY DEF Deciding
  <2>2. q # r /\ req'[q] = req[q]
    BY <1>2, <1>4, <2>1 DEF Verdicts
  <2>3. /\ q \in Confirms /\ req[q].id \in Ids /\ req[q].id <= issued
        /\ table[req[q].id] # None => table[req[q].id].state # "awaiting_confirmation"
        /\ \A s \in Requests : req[s].answer \in Verdicts /\ req[s].id = req[q].id => s = q
        /\ \A p \in Previews : req[p].id = req[q].id =>
             req[q].answer = IF req[q].hash = req[p].hash THEN "confirmed" ELSE "state_changed"
    BY <1>1, <2>1, <2>2 DEF TransactionsInv, Deciding
  <2>4. req[q].id \in Nat /\ req[q].id # issued' /\ req[q].id <= issued'
    BY <1>2, <2>3, IdsFinite
  <2>5. table'[req[q].id] = table[req[q].id]
    BY <1>4, <2>3, <2>4
  <2>6. \A s \in Requests : req'[s].answer \in Verdicts /\ req'[s].id = req[q].id => s = q
    BY <1>2, <1>4, <2>3, <2>4
  <2>7. \A p \in Previews : req'[p].id = req[q].id =>
          req[q].answer = IF req[q].hash = req'[p].hash THEN "confirmed" ELSE "state_changed"
    <3>1. \A p \in Previews : p # r => req'[p] = req[p]
      BY <1>4 DEF Requests
    <3>2. QED
      BY <1>2, <2>3, <2>4, <3>1
  <2>8. QED
    BY <2>2, <2>3, <2>4, <2>5, <2>6, <2>7 DEF Deciding
<1>8. Numbering'
  <2>1. ASSUME NEW i \in Ids, i <= issued' PROVE \E p \in Previews : req'[p].id = i
    <3>1. CASE i = issued'
      BY <1>2, <3>1
    <3>2. CASE i # issued'
      <4>1. i \in Nat /\ i # 0 /\ i <= issued
        BY <1>2, <2>1, <3>2, IdsFinite
      <4>2. PICK p \in Previews : req[p].id = i
        BY <1>1, <4>1 DEF TransactionsInv, Numbering
      <4>3. p # r /\ req'[p] = req[p]
        BY <1>2, <1>4, <4>1, <4>2 DEF Requests
      <4>4. QED
        BY <4>2, <4>3
    <3>3. QED
      BY <3>1, <3>2
  <2>2. ASSUME NEW p \in Previews, NEW q \in Previews, req'[p].id = req'[q].id, req'[p].id # 0
        PROVE  p = q
    <3>1. (p # r => req'[p] = req[p]) /\ (q # r => req'[q] = req[q])
      BY <1>4 DEF Requests
    <3>2. QED
      BY <1>1, <1>2, <1>5, <2>2, <3>1 DEF TransactionsInv, Numbering
  <2>3. QED
    BY <2>1, <2>2 DEF Numbering
<1>9. ASSUME NEW i \in Ids PROVE Offering(i)'
  <2>1. CASE i = issued'
    <3>1. rec.snapshot # None
      BY <1>2, <1>3, MachineAssumption
    <3>2. i <= issued'
      BY <1>2, <2>1
    <3>3. \A p \in Previews : req'[p].id = i => p = r
      BY <1>5, <2>1
    <3>4. QED
      BY <1>2, <1>3, <1>4, <2>1, <3>1, <3>2, <3>3 DEF Offering, Offerable
  <2>2. CASE i # issued'
    <3>1. Offering(i) /\ table'[i] = table[i] /\ i \in Nat /\ i # 0
      BY <1>1, <1>4, <2>2, IdsFinite DEF TransactionsInv
    <3>2. i <= issued => i <= issued'
      BY <1>2, <3>1
    <3>3. \A p \in Previews : req'[p].id = i => req'[p] = req[p]
      BY <1>2, <1>4, <2>2 DEF Requests
    <3>4. QED
      BY <3>1, <3>2, <3>3 DEF Offering
  <2>3. QED
    BY <2>1, <2>2
<1>10. GatewayTypes'
  <2>1. table' \in [Ids -> Records \cup {None}]
    BY <1>1, <1>2, <1>3 DEF GatewayTypes
  <2>2. UNCHANGED <<log, heard>>
    BY DEF Preview
  <2>3. QED
    BY <1>1, <1>2, <2>1, <2>2 DEF GatewayTypes, Moves
<1>11. \A q \in Requests : Logged(q)'
  BY <1>1, <1>2, LoggedStays DEF Preview
<1>12. QED
  BY <1>6, <1>7, <1>8, <1>9, <1>10, <1>11 DEF GatewayInv, TransactionsInv

(* What a confirmation does: nothing, or it decides.                       *)
Decides(r) ==
  LET i == req[r].id
  IN  /\ i \in Ids /\ i <= issued /\ req[r].hash \in Hashes /\ r \in Confirms
      /\ table[i] # None /\ table[i].state = "awaiting_confirmation"
      /\ \A q \in Requests : req[q].id = i => req[q].answer \notin Verdicts
      /\ \A p \in Previews : req[p].id = i => req[p].hash = table[i].snapshot
      /\ \/ /\ req[r].hash = table[i].snapshot /\ req'[r].answer = "confirmed"
            /\ table' = [table EXCEPT ![i] = Record("confirmed", table[i].snapshot, req[r].hash,
                                                    table[i].failure)]
         \/ /\ req[r].hash # table[i].snapshot /\ req'[r].answer = "state_changed"
            /\ table' = [table EXCEPT ![i] = Record("failed", table[i].snapshot, req[r].hash,
                                                    "state_changed")]

LEMMA ConfirmDecides ==
  ASSUME GatewayTypes, TransactionsInv, NEW r \in Requests, Confirm(r)
  PROVE  /\ Moves(r) /\ req'[r].stage = "acted" /\ req[r].stage = "read" /\ req[r].answer = "none"
         /\ req'[r].id = req[r].id /\ req'[r].hash = req[r].hash
         /\ UNCHANGED issued
         /\ Quiet(r) \/ Decides(r)
<1> DEFINE i == req[r].id
<1>1. /\ req \in [Requests -> Connections] /\ req[r] \in Connections /\ req[r].stage = "read"
      /\ r \in Confirms /\ i \in Ids /\ req[r].hash \in Hashes /\ req[r].answer = "none"
      /\ table[i] # None /\ table \in [Ids -> Records \cup {None}]
  BY DEF Confirm, At, GatewayTypes, TransactionsInv, Knows
<1>2. PICK sure \in BOOLEAN :
        LET d == Decide(table[i], sure, req[r].hash)
        IN  /\ table' = [table EXCEPT ![i] = d.rec]
            /\ req' = [req EXCEPT ![r].stage = "acted", ![r].answer = d.answer]
  BY DEF Confirm
<1> DEFINE d == Decide(table[i], sure, req[r].hash)
<1>3. table' = [table EXCEPT ![i] = d.rec] /\ req' = [req EXCEPT ![r].stage = "acted", ![r].answer = d.answer]
  BY <1>2
<1>4. \/ d.rec = table[i] /\ d.answer \in {"confirmation_required", "already_finalized"}
      \/ /\ table[i].state = "awaiting_confirmation" /\ req[r].hash = table[i].snapshot
         /\ d.answer = "confirmed"
         /\ d.rec = Record("confirmed", table[i].snapshot, req[r].hash, table[i].failure)
      \/ /\ table[i].state = "awaiting_confirmation" /\ req[r].hash # table[i].snapshot
         /\ d.answer = "state_changed"
         /\ d.rec = Record("failed", table[i].snapshot, req[r].hash, "state_changed")
  <2>1. table[i] \in Records
    BY <1>1
  <2> HIDE DEF i
  <2>2. QED
    BY <2>1, DecideCases
<1> HIDE DEF d
<1>5. d.answer \in GatewayAnswers
  BY <1>4 DEF GatewayAnswers, Verdicts
<1>6. /\ Moves(r) /\ req'[r].stage = "acted" /\ req'[r].answer = d.answer
      /\ req'[r].id = req[r].id /\ req'[r].hash = req[r].hash
  <2>1. req' = [req EXCEPT ![r] = [req[r] EXCEPT !.stage = "acted", !.answer = d.answer,
                                                 !.list = req[r].list]]
    BY <1>3, SameList
  <2>2. req[r].list \in Seq(Entries) /\ "acted" \in GatewayStages
    BY ConnectionParts DEF GatewayStages
  <2>3. QED
    BY <1>5, <2>1, <2>2, Restaged
<1>7. UNCHANGED issued
  BY DEF Confirm
<1>8. CASE d.rec = table[i] /\ d.answer \in {"confirmation_required", "already_finalized"}
  <2>1. UNCHANGED table
    BY <1>1, <1>3, <1>8
  <2>2. QED
    BY <1>1, <1>6, <1>7, <1>8, <2>1 DEF Quiet, Verdicts
<1>9. CASE table[i].state = "awaiting_confirmation" /\ d.answer \in Verdicts
  <2>1. i <= issued /\ \A p \in Previews : req[p].id = i => req[p].hash = table[i].snapshot
    BY <1>1 DEF TransactionsInv, Offering
  <2>2. \A q \in Requests : req[q].id = i => req[q].answer \notin Verdicts
    BY <1>1, <1>9 DEF TransactionsInv, Deciding
  <2>3. QED
    BY <1>1, <1>3, <1>4, <1>6, <1>7, <1>9, <2>1, <2>2 DEF Decides, Verdicts
<1>10. QED
  BY <1>1, <1>4, <1>6, <1>7, <1>8, <1>9 DEF Verdicts

LEMMA DecidesKeeps ==
  ASSUME GatewayTypes, TransactionsInv, NEW r \in Requests, Decides(r), Moves(r), UNCHANGED issued,
         req[r].stage = "read", req'[r].stage = "acted",
         req'[r].id = req[r].id, req'[r].hash = req[r].hash
  PROVE  TransactionsInv' /\ Numbered' = Numbered /\ table' \in [Ids -> Records \cup {None}]
<1> DEFINE i == req[r].id
<1>1. /\ i \in Ids /\ i <= issued /\ r \in Confirms /\ req[r].hash \in Hashes
      /\ table[i] \in Records /\ table[i].state = "awaiting_confirmation"
      /\ \A q \in Requests : req[q].id = i => req[q].answer \notin Verdicts
      /\ \A p \in Previews : req[p].id = i => req[p].hash = table[i].snapshot
      /\ r \notin Previews /\ req'[r].answer \in Verdicts
      /\ table[i].snapshot \in Hashes /\ table[i].snapshot # None
  <2>1. /\ i \in Ids /\ i <= issued /\ r \in Confirms /\ req[r].hash \in Hashes
        /\ table[i] # None /\ table[i].state = "awaiting_confirmation"
        /\ \A q \in Requests : req[q].id = i => req[q].answer \notin Verdicts
        /\ \A p \in Previews : req[p].id = i => req[p].hash = table[i].snapshot
        /\ req'[r].answer \in Verdicts
    BY DEF Decides, Verdicts
  <2>2. table[i] \in Records /\ r \notin Previews
    BY <2>1, GatewayAssumption DEF GatewayTypes
  <2>3. table[i].snapshot # None
    BY <2>1 DEF TransactionsInv, Offering
  <2>4. QED
    BY <2>1, <2>2, <2>3 DEF Records
<1>2. /\ table' = [table EXCEPT ![i] = table'[i]] /\ table'[i] \in Records /\ table'[i] # None
      /\ table'[i].snapshot = table[i].snapshot /\ table'[i].current = req[r].hash
      /\ \/ /\ table'[i].state = "confirmed" /\ req[r].hash = table[i].snapshot
            /\ req'[r].answer = "confirmed"
         \/ /\ table'[i].state = "failed" /\ req[r].hash # table[i].snapshot
            /\ req'[r].answer = "state_changed" /\ table'[i].failure = "state_changed"
  <2> DEFINE s == table[i].snapshot
             h == req[r].hash
             f == table[i].failure
  <2>1. s \in Hashes /\ h \in Hashes /\ f \in Failures /\ table \in [Ids -> Records \cup {None}]
    BY <1>1 DEF Records, GatewayTypes
  <2>2. \/ h = s /\ req'[r].answer = "confirmed" /\ table' = [table EXCEPT ![i] = Record("confirmed", s, h, f)]
        \/ /\ h # s /\ req'[r].answer = "state_changed"
           /\ table' = [table EXCEPT ![i] = Record("failed", s, h, "state_changed")]
    BY DEF Decides
  <2> HIDE DEF s, h, f, i
  <2>3. /\ Record("confirmed", s, h, f) \in Records /\ Record("confirmed", s, h, f) # None
        /\ Record("confirmed", s, h, f).state = "confirmed" /\ Record("confirmed", s, h, f).snapshot = s
        /\ Record("confirmed", s, h, f).current = h
    BY <2>1, RecordTyped DEF States
  <2>4. /\ Record("failed", s, h, "state_changed") \in Records
        /\ Record("failed", s, h, "state_changed") # None
        /\ Record("failed", s, h, "state_changed").state = "failed"
        /\ Record("failed", s, h, "state_changed").snapshot = s
        /\ Record("failed", s, h, "state_changed").current = h
        /\ Record("failed", s, h, "state_changed").failure = "state_changed"
    BY <2>1, RecordTyped DEF States, Failures
  <2>5. CASE h = s /\ req'[r].answer = "confirmed" /\ table' = [table EXCEPT ![i] = Record("confirmed", s, h, f)]
    <3>1. table'[i] = Record("confirmed", s, h, f)
      BY <1>1, <2>1, <2>5
    <3>2. QED
      BY <2>3, <2>5, <3>1 DEF s, h
  <2>6. CASE /\ h # s /\ req'[r].answer = "state_changed"
             /\ table' = [table EXCEPT ![i] = Record("failed", s, h, "state_changed")]
    <3>1. table'[i] = Record("failed", s, h, "state_changed")
      BY <1>1, <2>1, <2>6
    <3>2. QED
      BY <2>4, <2>6, <3>1 DEF s, h
  <2>7. QED
    BY <2>2, <2>5, <2>6
<1>3. /\ \A q \in Requests : q # r => req'[q] = req[q]
      /\ \A p \in Previews : req'[p] = req[p]
  BY <1>1 DEF Moves, Requests
<1>4. /\ table' \in [Ids -> Records \cup {None}]
      /\ \A j \in Ids : j # i => table'[j] = table[j]
  BY <1>1, <1>2 DEF GatewayTypes
<1>5. ASSUME NEW q \in Requests PROVE Knows(q)'
  <2>1. Knows(q)
    BY DEF TransactionsInv
  <2>2. CASE q = r
    BY <1>1, <2>2 DEF Knows
  <2>3. CASE q # r
    BY <1>3, <2>1, <2>3 DEF Knows
  <2>4. QED
    BY <2>2, <2>3
<1>6. ASSUME NEW q \in Requests PROVE Deciding(q)'
  <2>1. Deciding(q)
    BY DEF TransactionsInv
  <2>2. CASE q = r
    <3>1. \A s \in Requests : req'[s].answer \in Verdicts /\ req'[s].id = i => s = r
      BY <1>1, <1>3
    <3>2. \A p \in Previews : req'[p].id = i =>
            req'[r].answer = IF req[r].hash = req'[p].hash THEN "confirmed" ELSE "state_changed"
      BY <1>1, <1>2, <1>3
    <3>3. QED
      BY <1>1, <1>2, <2>2, <3>1, <3>2 DEF Deciding
  <2>3. CASE q # r /\ req[q].answer \in Verdicts
    <3>1. req'[q] = req[q] /\ req[q].id # i
      BY <1>1, <1>3, <2>3
    <3>2. \A s \in Requests : req'[s].id = req[q].id /\ req'[s].answer \in Verdicts =>
            req[s].id = req[q].id /\ req[s].answer \in Verdicts
      BY <1>3, <3>1
    <3>3. QED
      BY <1>3, <1>4, <2>1, <2>3, <3>1, <3>2 DEF Deciding
  <2>4. CASE q # r /\ req[q].answer \notin Verdicts
    BY <1>3, <2>4 DEF Deciding
  <2>5. QED
    BY <2>2, <2>3, <2>4
<1>7. Numbering' /\ Numbered' = Numbered
  BY <1>3 DEF TransactionsInv, Numbering, Numbered
<1>8. ASSUME NEW j \in Ids PROVE Offering(j)'
  <2>1. Offering(j)
    BY DEF TransactionsInv
  <2>2. CASE j = i
    BY <1>1, <1>2, <1>3, <2>2 DEF Offering, Offerable
  <2>3. CASE j # i
    BY <1>3, <1>4, <2>1, <2>3 DEF Offering
  <2>4. QED
    BY <2>2, <2>3
<1>9. QED
  BY <1>4, <1>5, <1>6, <1>7, <1>8 DEF TransactionsInv

LEMMA ConfirmStep ==
  ASSUME GatewayInv, NEW r \in Requests, Confirm(r)
  PROVE  GatewayInv'
<1>1. GatewayTypes /\ TransactionsInv /\ \A q \in Requests : Logged(q)
  BY DEF GatewayInv
<1>2. /\ Moves(r) /\ req'[r].stage = "acted" /\ req[r].stage = "read"
      /\ req'[r].id = req[r].id /\ req'[r].hash = req[r].hash /\ UNCHANGED issued
      /\ Quiet(r) \/ Decides(r)
  BY <1>1, ConfirmDecides
<1>3. TransactionsInv' /\ Numbered' = Numbered /\ table' \in [Ids -> Records \cup {None}]
  <2>1. CASE Quiet(r)
    <3>1. TransactionsInv' /\ Numbered' = Numbered
      BY <1>1, <2>1, QuietKeeps
    <3>2. QED
      BY <1>1, <2>1, <3>1 DEF Quiet, GatewayTypes
  <2>2. CASE Decides(r)
    BY <1>1, <1>2, <2>2, DecidesKeeps
  <2>3. QED
    BY <1>2, <2>1, <2>2
<1>4. UNCHANGED <<log, heard>>
  BY DEF Confirm
<1>5. GatewayTypes'
  BY <1>1, <1>2, <1>3, <1>4 DEF GatewayTypes, Moves
<1>6. \A q \in Requests : Logged(q)'
  BY <1>1, <1>2, <1>4, LoggedStays
<1>7. QED
  BY <1>3, <1>5, <1>6 DEF GatewayInv

(* A restart cuts the connections; nobody's answer or id changes.          *)
LEMMA RestartCuts ==
  ASSUME GatewayTypes, RestartGateway
  PROVE  /\ req' \in [Requests -> Connections]
         /\ \A q \in Requests :
              /\ req'[q].id = req[q].id /\ req'[q].hash = req[q].hash
              /\ req'[q].answer = req[q].answer
              /\ req'[q].stage = IF req[q].stage \in {"read", "acted", "audited"} THEN "gone"
                                 ELSE req[q].stage
<1>1. req \in [Requests -> Connections]
  BY DEF GatewayTypes
<1>2. req' = [q \in Requests |-> IF req[q].stage \in {"read", "acted", "audited"}
                                 THEN [req[q] EXCEPT !.stage = "gone"] ELSE req[q]]
  BY DEF RestartGateway
<1>3. ASSUME NEW q \in Requests
      PROVE  /\ req'[q] \in Connections
             /\ req'[q].id = req[q].id /\ req'[q].hash = req[q].hash
             /\ req'[q].answer = req[q].answer
             /\ req'[q].stage = IF req[q].stage \in {"read", "acted", "audited"} THEN "gone"
                                ELSE req[q].stage
  <2>1. req[q] \in Connections
    BY <1>1
  <2>2. [req[q] EXCEPT !.stage = "gone"] \in Connections
    BY <2>1 DEF Connections, GatewayStages
  <2>3. req'[q] = IF req[q].stage \in {"read", "acted", "audited"}
                  THEN [req[q] EXCEPT !.stage = "gone"] ELSE req[q]
    BY <1>2
  <2>4. QED
    BY <2>1, <2>2, <2>3 DEF Connections
<1>4. req' \in [Requests -> Connections]
  BY <1>2, <1>3
<1>5. QED
  BY <1>3, <1>4

LEMMA RestartGatewayStep ==
  ASSUME GatewayInv, RestartGateway
  PROVE  GatewayInv'
<1>1. GatewayTypes /\ TransactionsInv
  BY DEF GatewayInv
<1>2. /\ req' \in [Requests -> Connections]
      /\ \A q \in Requests :
           /\ req'[q].id = req[q].id /\ req'[q].hash = req[q].hash
           /\ req'[q].answer = req[q].answer
           /\ req'[q].stage = IF req[q].stage \in {"read", "acted", "audited"} THEN "gone"
                              ELSE req[q].stage
  BY <1>1, RestartCuts
<1>3. /\ UNCHANGED issued /\ log' = <<>> /\ heard' = {}
      /\ table' = [i \in Ids |-> None] /\ \A i \in Ids : table'[i] = None
  BY DEF RestartGateway
<1>4. ASSUME NEW q \in Requests PROVE Knows(q)' /\ Deciding(q)' /\ Logged(q)'
  <2>1. Knows(q) /\ Deciding(q)
    BY <1>1 DEF TransactionsInv
  <2>2. Knows(q)'
    BY <1>2, <1>3, <2>1 DEF Knows, Requests
  <2>3. Deciding(q)'
    BY <1>2, <1>3, <2>1 DEF Deciding, Requests
  <2>4. Logged(q)'
    BY <1>2, <1>3 DEF Logged
  <2>5. QED
    BY <2>2, <2>3, <2>4
<1>5. Numbering' /\ Numbered' = Numbered
  BY <1>1, <1>2, <1>3 DEF TransactionsInv, Numbering, Numbered, Requests
<1>6. \A i \in Ids : Offering(i)'
  BY <1>3 DEF Offering
<1>7. GatewayTypes'
  BY <1>1, <1>2, <1>3, <1>5, GatewayAssumption DEF GatewayTypes
<1>8. QED
  BY <1>4, <1>5, <1>6, <1>7 DEF GatewayInv, TransactionsInv

LEMMA GatewayNextInv == GatewayInv /\ [GatewayNext]_gatewayVars => GatewayInv'
<1> SUFFICES ASSUME GatewayInv, [GatewayNext]_gatewayVars PROVE GatewayInv'
  OBVIOUS
<1>1. CASE RestartGateway
  BY <1>1, RestartGatewayStep
<1>2. ASSUME NEW r \in Requests, Serve(r) PROVE GatewayInv'
  BY <1>2, QuietInv, PreviewStep, ConfirmStep DEF Serve, QuietSteps
<1>3. CASE UNCHANGED gatewayVars
  <2>1. UNCHANGED <<table, issued, log, req, heard>>
    BY <1>3 DEF gatewayVars
  <2>2. Numbered' = Numbered
    BY <2>1 DEF Numbered
  <2>3. GatewayTypes'
    BY <2>1, <2>2 DEF GatewayInv, GatewayTypes
  <2>4. \A q \in Requests : Knows(q)' /\ Logged(q)'
    BY <2>1 DEF GatewayInv, TransactionsInv, Knows, Logged
  <2>5. \A q \in Requests : Deciding(q)'
    BY <2>1 DEF GatewayInv, TransactionsInv, Deciding
  <2>6. Numbering' /\ \A i \in Ids : Offering(i)'
    BY <2>1 DEF GatewayInv, TransactionsInv, Numbering, Offering
  <2>7. QED
    BY <2>3, <2>4, <2>5, <2>6 DEF GatewayInv, TransactionsInv
<1>4. QED
  BY <1>1, <1>2, <1>3 DEF GatewayNext

(* The inductive invariant of the gateway. *)
THEOREM GatewayInvariance == GatewaySpec => []GatewayInv
<1>1. GatewayInit => GatewayInv
  BY GatewayInitInv
<1>2. GatewayInv /\ [GatewayNext]_gatewayVars => GatewayInv'
  BY GatewayNextInv
<1>3. QED
  BY <1>1, <1>2, PTL DEF GatewaySpec

(* The gateway's table holds transactions on offer or decided ones, each  *)
(* decided as its hashes say, and the log stays within its cap.            *)
(* (crates/siyuanmasterd/src/main.rs:504-712)                              *)
THEOREM GatewayTypeCorrect == GatewaySpec => []GatewayTypeOK
<1>1. GatewayInv => GatewayTypeOK
  BY GatewayTypesHold
<1>2. QED
  BY <1>1, GatewayInvariance, PTL

-----------------------------------------------------------------------------
(* The gateway implements the promise: a step that inserts a record is an *)
(* Offer, one that decides it a Settle, and the end of a connection a Tell. *)

(* The decision of a transaction, if there is one, is that of its decider; *)
(* its target is the hash that its preview was given.                      *)
DecidersKnown ==
  \A i \in Ids :
    /\ Deciders(i) = {} => Decider(i) = None
    /\ \A r \in Deciders(i) : Decider(i) = r

OffersKnown ==
  \A i \in Ids :
    /\ ~(i <= issued) => Offered(i) = None
    /\ i <= issued =>
         \A p \in Previews : req[p].id = i =>
           Offered(i) = [target  |-> req[p].hash,
                         verdict |-> IF Deciders(i) = {} THEN "open" ELSE req[Decider(i)].answer]

LEMMA Known == GatewayInv => DecidersKnown /\ OffersKnown
<1> SUFFICES ASSUME GatewayInv, NEW i \in Ids
             PROVE  /\ Deciders(i) = {} => Decider(i) = None
                    /\ \A r \in Deciders(i) : Decider(i) = r
                    /\ ~(i <= issued) => Offered(i) = None
                    /\ i <= issued =>
                         \A p \in Previews : req[p].id = i =>
                           Offered(i) = [target  |-> req[p].hash,
                                         verdict |-> IF Deciders(i) = {} THEN "open"
                                                     ELSE req[Decider(i)].answer]
  BY DEF DecidersKnown, OffersKnown
<1>1. \A q, r \in Deciders(i) : q = r
  BY DEF GatewayInv, TransactionsInv, Deciding, Deciders, Verdicts, Requests
<1>2. /\ Deciders(i) = {} => Decider(i) = None
      /\ \A r \in Deciders(i) : Decider(i) = r
  BY <1>1 DEF Decider, Nobody
<1>3. i \in Nat /\ i # 0 /\ issued \in Nat
  BY IdsFinite, IssuedTyped DEF GatewayInv
<1>4. ~(i <= issued) <=> i > issued
  BY <1>3
<1>5. ASSUME NEW p \in Previews, req[p].id = i
      PROVE  (CHOOSE q \in Previews : req[q].id = i) = p
  BY <1>3, <1>5 DEF GatewayInv, TransactionsInv, Numbering
<1>6. /\ ~(i <= issued) => Offered(i) = None
      /\ i <= issued =>
           \A p \in Previews : req[p].id = i =>
             Offered(i) = [target  |-> req[p].hash,
                           verdict |-> IF Deciders(i) = {} THEN "open" ELSE req[Decider(i)].answer]
  BY <1>4, <1>5 DEF Offered, Nobody
<1>7. QED
  BY <1>2, <1>6

LEMMA KnownAfter == GatewayInv' => DecidersKnown' /\ OffersKnown'
BY Known, PTL

(* A step that neither offers nor decides, seen from outside.              *)
Same ==
  /\ issued' = issued
  /\ \A p \in Previews : req'[p].id = req[p].id /\ (req[p].id # 0 => req'[p].hash = req[p].hash)
  /\ \A q \in Requests :
       /\ req'[q].answer \in Verdicts <=> req[q].answer \in Verdicts
       /\ req[q].answer \in Verdicts => req'[q].answer = req[q].answer /\ req'[q].id = req[q].id

LEMMA QuietSame ==
  ASSUME GatewayInv, NEW r \in Requests, Quiet(r)
  PROVE  Same
<1>1. Knows(r) /\ \A q \in Requests : q # r => req'[q] = req[q]
  BY DEF Quiet, Moves, GatewayInv, TransactionsInv
<1>2. r \in Previews => req'[r].id = req[r].id /\ (req[r].id # 0 => req'[r].hash = req[r].hash)
  BY <1>1 DEF Quiet, Knows
<1>3. /\ req'[r].answer \in Verdicts <=> req[r].answer \in Verdicts
      /\ req[r].answer \in Verdicts => req'[r].answer = req[r].answer /\ req'[r].id = req[r].id
  BY <1>1 DEF Quiet, Knows, Verdicts
<1>4. QED
  BY <1>1, <1>2, <1>3 DEF Same, Quiet, Requests

LEMMA SameOutside ==
  ASSUME GatewayInv, GatewayInv', Same, NEW i \in Ids
  PROVE  Offered(i)' = Offered(i) /\ Decider(i)' = Decider(i)
<1>1. Deciders(i)' = Deciders(i)
  BY DEF Same, Deciders, Verdicts, Requests
<1>2. DecidersKnown /\ OffersKnown /\ DecidersKnown' /\ OffersKnown'
  BY Known, KnownAfter
<1>3. Decider(i)' = Decider(i)
  <2>1. CASE Deciders(i) = {}
    BY <1>1, <1>2, <2>1 DEF DecidersKnown
  <2>2. CASE Deciders(i) # {}
    <3>1. PICK r \in Deciders(i) : TRUE
      BY <2>2
    <3>2. Decider(i) = r /\ Decider(i)' = r
      BY <1>1, <1>2, <3>1 DEF DecidersKnown
    <3>3. QED
      BY <3>2
  <2>3. QED
    BY <2>1, <2>2
<1>4. Deciders(i) # {} => req'[Decider(i)].answer = req[Decider(i)].answer
  BY <1>2 DEF DecidersKnown, Same, Deciders, Verdicts, Requests
<1>5. CASE ~(i <= issued)
  BY <1>2, <1>3, <1>5 DEF OffersKnown, Same
<1>6. CASE i <= issued
  <2>1. PICK p \in Previews : req[p].id = i
    BY <1>6 DEF GatewayInv, TransactionsInv, Numbering
  <2>2. req'[p].id = i /\ req'[p].hash = req[p].hash /\ issued' = issued
    BY <2>1, IdsFinite DEF Same
  <2>3. Offered(i) = [target  |-> req[p].hash,
                      verdict |-> IF Deciders(i) = {} THEN "open" ELSE req[Decider(i)].answer]
    BY <1>2, <1>6, <2>1 DEF OffersKnown
  <2>4. Offered(i)' = [target  |-> req'[p].hash,
                       verdict |-> IF Deciders(i)' = {} THEN "open" ELSE req'[Decider(i)'].answer]
    BY <1>2, <1>6, <2>2 DEF OffersKnown
  <2>5. QED
    BY <1>1, <1>3, <1>4, <2>2, <2>3, <2>4
<1>7. QED
  BY <1>3, <1>5, <1>6

(* Who has the verdict of a transaction keeps it.                          *)
LEMMA DeciderStays ==
  ASSUME GatewayInv, GatewayInv', NEW i \in Ids, Deciders(i)' = Deciders(i)
  PROVE  Decider(i)' = Decider(i)
<1>1. DecidersKnown /\ DecidersKnown'
  BY Known, KnownAfter
<1>2. CASE Deciders(i) = {}
  BY <1>1, <1>2 DEF DecidersKnown
<1>3. CASE Deciders(i) # {}
  <2>1. PICK r \in Deciders(i) : TRUE
    BY <1>3
  <2>2. Decider(i) = r /\ Decider(i)' = r
    BY <1>1, <2>1 DEF DecidersKnown
  <2>3. QED
    BY <2>2
<1>4. QED
  BY <1>2, <1>3

LEMMA ToldStays ==
  ASSUME NEW r \in Requests, req[r].stage # "answered", req'[r].stage # "answered",
         \A q \in Requests : q # r => req'[q] = req[q]
  PROVE  \A q \in Requests : Told(q)' = Told(q)
BY DEF Told, At

(* What clients see of the gateway. *)
Seen == <<[r \in Requests |-> req[r].hash], [i \in Ids |-> Offered(i)], [i \in Ids |-> Decider(i)],
          [r \in Requests |-> Told(r)]>>

LEMMA PromiseInit == GatewayInit => Promise!Init
<1> SUFFICES ASSUME GatewayInit PROVE Promise!Init
  OBVIOUS
<1>1. GatewayInv
  BY GatewayInitInv
<1>2. \A r \in Requests : req[r].answer = "none" /\ req[r].stage = "idle" /\ req[r].hash = Nobody
  BY DEF GatewayInit, Connection, Nobody
<1>3. ASSUME NEW i \in Ids PROVE Offered(i) = Nobody /\ Decider(i) = Nobody
  <2>1. ~(i <= issued)
    BY DEF GatewayInit, Ids
  <2>2. Deciders(i) = {}
    BY <1>2 DEF Deciders, Requests
  <2>3. QED
    BY <1>1, <2>1, <2>2, Known DEF DecidersKnown, OffersKnown, Nobody
<1>4. \A r \in Requests : Told(r) = "nothing"
  BY <1>2 DEF Told, At
<1>5. QED
  BY <1>2, <1>3, <1>4 DEF Promise!Init

LEMMA OfferStep ==
  ASSUME GatewayInv, GatewayInv', NEW r \in Requests, Preview(r)
  PROVE  \E n \in Ids : Promise!Offer(n, r)
<1>1. GatewayTypes /\ TransactionsInv /\ DecidersKnown /\ OffersKnown /\ OffersKnown'
  BY Known, KnownAfter DEF GatewayInv
<1>id. PICK n \in Ids : n = issued'
  BY <1>1, PreviewOffers
<1>2. /\ r \in Previews /\ req[r].hash \in Hashes /\ req[r].id = 0
      /\ issued \in Nat /\ issued' = issued + 1 /\ n = issued'
      /\ Moves(r) /\ req'[r].stage = "acted" /\ req'[r].answer = "awaiting_confirmation"
      /\ req'[r].id = n /\ req'[r].hash = req[r].hash /\ req[r].stage = "read"
  BY <1>id, <1>1, PreviewOffers DEF Preview, At
<1>3. (\A q \in Requests : q # r => req'[q] = req[q]) /\ r \notin Confirms
  BY <1>2, GatewayAssumption DEF Moves
<1>4. ASSUME NEW i \in Ids PROVE Deciders(i)' = Deciders(i) /\ Decider(i)' = Decider(i)
  <2>1. Deciders(i)' = Deciders(i)
    BY <1>3 DEF Deciders, Requests
  <2>2. QED
    BY <2>1, DeciderStays
<1>5. Deciders(n) = {}
  <2>1. ~(n <= issued)
    BY <1>2
  <2>2. QED
    BY <1>1, <2>1 DEF TransactionsInv, Deciding, Deciders, Verdicts, Requests
<1>6. Offered(n) = Nobody
  BY <1>1, <1>2 DEF OffersKnown, Nobody
<1>7. Offered(n)' = [target |-> req[r].hash, verdict |-> "open"]
  <2>1. Offered(n)' = [target |-> req'[r].hash,
                       verdict |-> IF Deciders(n)' = {} THEN "open" ELSE req'[Decider(n)'].answer]
    BY <1>1, <1>2 DEF OffersKnown
  <2>2. QED
    BY <1>2, <1>4, <1>5, <2>1
<1>8. ASSUME NEW i \in Ids, i # n PROVE Offered(i)' = Offered(i)
  <2>1. i \in Nat /\ i # 0
    BY IdsFinite
  <2>2. CASE i <= issued
    <3>1. PICK p \in Previews : req[p].id = i
      BY <1>1, <2>2 DEF TransactionsInv, Numbering
    <3>2. req'[p] = req[p] /\ i <= issued'
      BY <1>2, <1>3, <2>1, <2>2, <3>1 DEF Requests
    <3>3. ASSUME Deciders(i) # {} PROVE req'[Decider(i)].answer = req[Decider(i)].answer
      <4>1. Decider(i) \in Confirms
        BY <1>1, <3>3 DEF DecidersKnown, Deciders
      <4>2. QED
        BY <1>3, <4>1 DEF Requests
    <3>4. QED
      BY <1>1, <1>4, <2>2, <3>1, <3>2, <3>3 DEF OffersKnown
  <2>3. CASE ~(i <= issued)
    <3>1. ~(i <= issued')
      BY <1>2, <1>8, <2>1, <2>3
    <3>2. QED
      BY <1>1, <2>3, <3>1 DEF OffersKnown
  <2>4. QED
    BY <2>2, <2>3
<1>9. \A q \in Requests : Told(q)' = Told(q)
  BY <1>2, <1>3, ToldStays
<1>10. [i \in Ids |-> Offered(i)'] =
         [[i \in Ids |-> Offered(i)] EXCEPT ![n] = [target |-> req[r].hash, verdict |-> "open"]]
  BY <1>7, <1>8
<1>11. /\ [i \in Ids |-> Decider(i)'] = [i \in Ids |-> Decider(i)]
       /\ [q \in Requests |-> Told(q)'] = [q \in Requests |-> Told(q)]
       /\ [q \in Requests |-> req'[q].hash] = [q \in Requests |-> req[q].hash]
  BY <1>2, <1>3, <1>4, <1>9
<1>12. Promise!Offer(n, r)
  <2>1. [q \in Requests |-> req[q].hash][r] = req[r].hash /\ req[r].hash # Nobody
    BY <1>2, MachineAssumption DEF Nobody
  <2>2. QED
    BY <1>6, <1>10, <1>11, <2>1 DEF Promise!Offer
<1>13. QED
  BY <1>12

LEMMA SettleStep ==
  ASSUME GatewayInv, GatewayInv', NEW r \in Requests, Confirm(r), Decides(r)
  PROVE  \E i \in Ids : Promise!Settle(i, r)
<1>1. GatewayTypes /\ TransactionsInv /\ DecidersKnown /\ OffersKnown /\ DecidersKnown' /\ OffersKnown'
  BY Known, KnownAfter DEF GatewayInv
<1>2. /\ Moves(r) /\ req'[r].stage = "acted" /\ req[r].stage = "read" /\ req[r].answer = "none"
      /\ req'[r].id = req[r].id /\ req'[r].hash = req[r].hash /\ UNCHANGED issued
  BY <1>1, ConfirmDecides
<1>3. PICK i \in Ids : i = req[r].id
  BY DEF Decides
<1>4. /\ i <= issued /\ req[r].hash \in Hashes /\ r \in Confirms /\ r \notin Previews
      /\ \A q \in Requests : req[q].id = i => req[q].answer \notin Verdicts
      /\ \A p \in Previews : req[p].id = i =>
           req'[r].answer = IF req[r].hash = req[p].hash THEN "confirmed" ELSE "state_changed"
  BY <1>3, GatewayAssumption DEF Decides
<1>5. (\A q \in Requests : q # r => req'[q] = req[q]) /\ \A p \in Previews : req'[p] = req[p]
  BY <1>2, <1>4 DEF Moves, Requests
<1>6. PICK p \in Previews : req[p].id = i
  BY <1>1, <1>4 DEF TransactionsInv, Numbering
<1>7. req'[r].answer \in Verdicts
  BY <1>4, <1>6 DEF Verdicts
<1>8. Deciders(i) = {} /\ r \in Deciders(i)'
  BY <1>2, <1>3, <1>4, <1>7 DEF Deciders, Verdicts, Requests
<1>9. Decider(i) = Nobody /\ Decider(i)' = r
  BY <1>1, <1>8 DEF DecidersKnown, Nobody
<1>10. Offered(i) = [target |-> req[p].hash, verdict |-> "open"]
  BY <1>1, <1>4, <1>6, <1>8 DEF OffersKnown
<1>11. Offered(i)' = [target |-> req[p].hash, verdict |-> req'[r].answer]
  <2>1. i <= issued' /\ req'[p].id = i /\ req'[p].hash = req[p].hash
    BY <1>2, <1>4, <1>5, <1>6
  <2>2. Offered(i)' = [target  |-> req'[p].hash,
                       verdict |-> IF Deciders(i)' = {} THEN "open" ELSE req'[Decider(i)'].answer]
    BY <1>1, <2>1 DEF OffersKnown
  <2>3. QED
    BY <1>8, <1>9, <2>1, <2>2
<1>12. ASSUME NEW j \in Ids, j # i
       PROVE  Offered(j)' = Offered(j) /\ Decider(j)' = Decider(j)
  <2>1. Deciders(j)' = Deciders(j)
    BY <1>2, <1>3, <1>5, <1>12 DEF Deciders, Requests
  <2>2. Decider(j)' = Decider(j)
    BY <2>1, DeciderStays
  <2>3. ASSUME Deciders(j) # {} PROVE req'[Decider(j)].answer = req[Decider(j)].answer
    <3>1. PICK q \in Deciders(j) : TRUE
      BY <2>3
    <3>2. Decider(j) = q /\ q \in Requests /\ q # r
      BY <1>1, <1>3, <1>12, <3>1 DEF DecidersKnown, Deciders, Requests
    <3>3. QED
      BY <1>5, <3>2
  <2>4. CASE ~(j <= issued)
    BY <1>1, <1>2, <2>2, <2>4 DEF OffersKnown
  <2>5. CASE j <= issued
    <3>1. PICK u \in Previews : req[u].id = j
      BY <1>1, <2>5 DEF TransactionsInv, Numbering
    <3>2. req'[u] = req[u] /\ j <= issued'
      BY <1>2, <1>5, <2>5
    <3>3. Offered(j) = [target  |-> req[u].hash,
                        verdict |-> IF Deciders(j) = {} THEN "open" ELSE req[Decider(j)].answer]
      BY <1>1, <2>5, <3>1 DEF OffersKnown
    <3>4. Offered(j)' = [target  |-> req'[u].hash,
                         verdict |-> IF Deciders(j)' = {} THEN "open" ELSE req'[Decider(j)'].answer]
      BY <1>1, <3>1, <3>2 DEF OffersKnown
    <3>5. QED
      BY <2>1, <2>2, <2>3, <3>2, <3>3, <3>4
  <2>6. QED
    BY <2>2, <2>4, <2>5
<1>13. \A j \in Ids : Decider(j) # r
  <2>1. \A j \in Ids : r \notin Deciders(j)
    BY <1>2 DEF Deciders
  <2>2. r # None
    BY GatewayAssumption
  <2>3. ASSUME NEW j \in Ids, Decider(j) = r PROVE FALSE
    <3>1. CASE Deciders(j) = {}
      BY <1>1, <2>2, <2>3, <3>1 DEF DecidersKnown
    <3>2. CASE Deciders(j) # {}
      <4>1. PICK q \in Deciders(j) : TRUE
        BY <3>2
      <4>2. QED
        BY <1>1, <2>1, <2>3, <4>1 DEF DecidersKnown
    <3>3. QED
      BY <3>1, <3>2
  <2>4. QED
    BY <2>3
<1>14. \A q \in Requests : Told(q)' = Told(q)
  BY <1>2, <1>5, ToldStays
<1>15. Offered(i) # Nobody
  <2>1. req[p].hash \in Hashes
    <3>1. p \in Requests /\ req[p].id # 0
      BY <1>6, IdsFinite DEF Requests
    <3>2. QED
      BY <1>1, <3>1 DEF TransactionsInv, Knows
  <2>2. QED
    BY <1>10, <2>1, GatewayAssumption DEF Nobody
<1>16. [j \in Ids |-> Offered(j)'] =
         [[j \in Ids |-> Offered(j)] EXCEPT ![i].verdict =
            IF req[r].hash = [j \in Ids |-> Offered(j)][i].target THEN "confirmed" ELSE "state_changed"]
  <2>1. Offered(i)' = [Offered(i) EXCEPT !.verdict =
                         IF req[r].hash = Offered(i).target THEN "confirmed" ELSE "state_changed"]
    BY <1>4, <1>6, <1>10, <1>11
  <2>2. QED
    BY <1>12, <2>1
<1>17. [j \in Ids |-> Decider(j)'] = [[j \in Ids |-> Decider(j)] EXCEPT ![i] = r]
  BY <1>9, <1>12
<1>18. /\ [q \in Requests |-> Told(q)'] = [q \in Requests |-> Told(q)]
       /\ [q \in Requests |-> req'[q].hash] = [q \in Requests |-> req[q].hash]
  BY <1>2, <1>5, <1>14
<1>19. Promise!Settle(i, r)
  <2>1. [j \in Ids |-> Offered(j)][i] # Nobody /\ [j \in Ids |-> Decider(j)][i] = Nobody
        /\ \A j \in Ids : [k \in Ids |-> Decider(k)][j] # r
    BY <1>9, <1>13, <1>15
  <2>2. [q \in Requests |-> req[q].hash][r] = req[r].hash /\ req[r].hash # Nobody
    BY <1>4, MachineAssumption DEF Nobody
  <2>3. QED
    BY <1>16, <1>17, <1>18, <2>1, <2>2 DEF Promise!Settle
<1>20. QED
  BY <1>19

(* The end of a connection is told, and it is told the decision it took.   *)
LEMMA TellStep ==
  ASSUME GatewayInv, GatewayInv', NEW r \in Requests, Quiet(r),
         req[r].stage \notin {"idle", "answered"}, req'[r].stage = "answered"
  PROVE  \E a \in {"confirmed", "state_changed", "other"} : Promise!Tell(r, a)
<1>1. Same
  BY QuietSame
<1>2. /\ [i \in Ids |-> Offered(i)'] = [i \in Ids |-> Offered(i)]
      /\ [i \in Ids |-> Decider(i)'] = [i \in Ids |-> Decider(i)]
      /\ [q \in Requests |-> req'[q].hash] = [q \in Requests |-> req[q].hash]
  BY <1>1, SameOutside DEF Quiet, Moves
<1>3. /\ Told(r) = "nothing"
      /\ Told(r)' = IF req'[r].answer \in Verdicts THEN req'[r].answer ELSE "other"
  BY DEF Told, At, Verdicts
<1>4. \A q \in Requests : q # r => Told(q)' = Told(q)
  BY DEF Quiet, Moves, Told, At
<1>5. PICK a \in {"confirmed", "state_changed", "other"} : a = Told(r)'
  BY <1>3 DEF Verdicts
<1>6. [q \in Requests |-> Told(q)'] = [[q \in Requests |-> Told(q)] EXCEPT ![r] = a]
  BY <1>4, <1>5
<1>7. ASSUME a \in {"confirmed", "state_changed"}
      PROVE  \E i \in Ids : Decider(i) = r /\ Offered(i).verdict = a
  <2>1. req'[r].answer = a /\ req[r].answer = a
    BY <1>1, <1>3, <1>5, <1>7 DEF Same, Verdicts
  <2>2. /\ r \in Confirms /\ req[r].id \in Ids /\ req[r].id <= issued /\ r \in Deciders(req[r].id)
        /\ DecidersKnown /\ OffersKnown
    BY <1>7, <2>1, Known DEF GatewayInv, TransactionsInv, Deciding, Deciders, Verdicts
  <2>3. PICK p \in Previews : req[p].id = req[r].id
    BY <2>2 DEF GatewayInv, TransactionsInv, Numbering
  <2>4. Decider(req[r].id) = r
    BY <2>2 DEF DecidersKnown
  <2>5. Offered(req[r].id)
          = [target |-> req[p].hash,
             verdict |-> IF Deciders(req[r].id) = {} THEN "open" ELSE req[Decider(req[r].id)].answer]
    BY <2>2, <2>3 DEF OffersKnown
  <2>6. QED
    BY <2>1, <2>2, <2>4, <2>5
<1>8. Promise!Tell(r, a)
  <2>1. [q \in Requests |-> Told(q)][r] = "nothing" /\ a # "nothing"
    BY <1>3, <1>5
  <2>2. a \in {"confirmed", "state_changed"} =>
          \E i \in Ids : [j \in Ids |-> Decider(j)][i] = r /\ [j \in Ids |-> Offered(j)][i].verdict = a
    BY <1>7
  <2>3. QED
    BY <1>2, <1>6, <2>1, <2>2 DEF Promise!Tell
<1>9. QED
  BY <1>8

(* A connection that names a hash asks with it, and else nothing is seen.  *)
LEMMA AskStep ==
  ASSUME GatewayInv, GatewayInv', NEW r \in Requests, Arrive(r)
  PROVE  (\E t \in Hashes : Promise!Ask(r, t)) \/ UNCHANGED Seen
<1>1. GatewayTypes /\ TransactionsInv /\ Knows(r)
  BY DEF GatewayInv, TransactionsInv
<1>2. Quiet(r) /\ Same
  BY <1>1, QuietOnes, QuietSame DEF QuietSteps
<1>3. PICK h \in Hashes \cup {None} :
        req'[r].stage = "read" /\ req'[r].hash = h /\ req[r].stage = "idle" /\ req[r].hash = None
  BY <1>1 DEF Arrive, At, GatewayTypes, Connection, Knows
<1>4. (\A q \in Requests : q # r => req'[q] = req[q]) /\ \A q \in Requests : Told(q)' = Told(q)
  BY <1>2, <1>3, ToldStays DEF Quiet, Moves
<1>5. /\ [i \in Ids |-> Offered(i)'] = [i \in Ids |-> Offered(i)]
      /\ [i \in Ids |-> Decider(i)'] = [i \in Ids |-> Decider(i)]
      /\ [q \in Requests |-> Told(q)'] = [q \in Requests |-> Told(q)]
  BY <1>2, <1>4, SameOutside
<1>6. [q \in Requests |-> req'[q].hash] = [[q \in Requests |-> req[q].hash] EXCEPT ![r] = h]
  BY <1>3, <1>4
<1>7. CASE h = None
  <2>1. [q \in Requests |-> req'[q].hash] = [q \in Requests |-> req[q].hash]
    BY <1>3, <1>4, <1>7
  <2>2. QED
    BY <1>5, <2>1 DEF Seen
<1>8. CASE h \in Hashes
  <2>1. [q \in Requests |-> req[q].hash][r] = Nobody
    BY <1>3 DEF Nobody
  <2>2. QED
    BY <1>5, <1>6, <1>8, <2>1 DEF Promise!Ask
<1>9. QED
  BY <1>7, <1>8

(* A step that asks nothing, ends no connection and does not offer or      *)
(* decide.                                                                 *)
LEMMA Stutters ==
  ASSUME GatewayInv, GatewayInv', Same,
         \A q \in Requests : Told(q)' = Told(q) /\ req'[q].hash = req[q].hash
  PROVE  UNCHANGED Seen
BY SameOutside DEF Seen

LEMMA GatewayPromise ==
  ASSUME GatewayInv, GatewayInv', [GatewayNext]_gatewayVars
  PROVE  Promise!Next \/ UNCHANGED Seen
<1>1. GatewayTypes /\ TransactionsInv
  BY DEF GatewayInv
<1>2. ASSUME NEW c \in Requests, Quiet(c), req[c].stage \notin {"idle", "answered"}
      PROVE  Promise!Next \/ UNCHANGED Seen
  <2>1. CASE req'[c].stage = "answered"
    BY <1>2, <2>1, TellStep DEF Promise!Next
  <2>2. CASE req'[c].stage # "answered"
    <3>1. \A q \in Requests : Told(q)' = Told(q)
      BY <1>2, <2>2, ToldStays DEF Quiet, Moves
    <3>2. \A q \in Requests : req'[q].hash = req[q].hash
      BY <1>2 DEF Quiet, Moves
    <3>3. QED
      BY <1>2, <3>1, <3>2, QuietSame, Stutters
  <2>3. QED
    BY <2>1, <2>2
<1>3. ASSUME NEW c \in Requests, Serve(c)
      PROVE  Promise!Next \/ UNCHANGED Seen
  <2>1. CASE Arrive(c)
    BY <2>1, AskStep DEF Promise!Next
  <2>2. CASE QuietSteps(c) /\ ~Arrive(c)
    <3>1. req[c].stage \notin {"idle", "answered"}
      BY <2>2 DEF QuietSteps, Deny, CheckToken, PreviewFails, ConfirmUnknown, List, Audit,
                  Respond, At
    <3>2. QED
      BY <1>1, <1>2, <2>2, <3>1, QuietOnes
  <2>3. CASE Preview(c)
    BY <2>3, OfferStep DEF Promise!Next
  <2>4. CASE Confirm(c)
    <3>1. req[c].stage = "read" /\ (Quiet(c) \/ Decides(c))
      BY <1>1, <2>4, ConfirmDecides
    <3>2. CASE Decides(c)
      BY <2>4, <3>2, SettleStep DEF Promise!Next
    <3>3. QED
      BY <1>2, <3>1, <3>2
  <2>5. QED
    BY <1>3, <2>1, <2>2, <2>3, <2>4 DEF Serve, QuietSteps
<1>4. CASE RestartGateway
  <2>1. /\ \A q \in Requests :
             /\ req'[q].id = req[q].id /\ req'[q].hash = req[q].hash
             /\ req'[q].answer = req[q].answer
             /\ req'[q].stage = IF req[q].stage \in {"read", "acted", "audited"} THEN "gone"
                                ELSE req[q].stage
        /\ UNCHANGED issued
    BY <1>1, <1>4, RestartCuts DEF RestartGateway
  <2>2. Same
    BY <2>1 DEF Same, Requests
  <2>3. \A q \in Requests : Told(q)' = Told(q)
    BY <2>1 DEF Told, At
  <2>4. QED
    BY <2>1, <2>2, <2>3, Stutters
<1>5. CASE UNCHANGED gatewayVars
  <2>1. UNCHANGED <<req, issued>>
    BY <1>5 DEF gatewayVars
  <2>2. Same /\ \A q \in Requests : Told(q)' = Told(q) /\ req'[q].hash = req[q].hash
    BY <2>1 DEF Same, Told, At
  <2>3. QED
    BY <2>2, Stutters
<1>6. QED
  BY <1>3, <1>4, <1>5 DEF GatewayNext

(* The gateway decides a transaction at most once, for one request, it    *)
(* confirms it exactly if that request named the hash of the preview, and  *)
(* it tells nobody else of the decision.  (txn.rs:8-17; main.rs:658-676)   *)
THEOREM GatewayDecidesOnce == GatewaySpec => ImplementsDecideOnce
<1>1. GatewayInit => Promise!Init
  BY PromiseInit
<1>2. GatewayInv /\ [GatewayNext]_gatewayVars => [Promise!Next]_Seen
  BY GatewayNextInv, GatewayPromise
<1>3. QED
  BY <1>1, <1>2, GatewayInvariance, PTL DEF GatewaySpec, ImplementsDecideOnce, Promise!Spec, Seen

-----------------------------------------------------------------------------
(* What a reader of the audit log is shown.                                *)

LEMMA ListedBy ==
  ASSUME GatewayInv, [GatewayNext]_gatewayVars, NEW r \in Others,
         req'[r].answer = "list", req[r].answer # "list"
  PROVE  List(r)
<1>1. GatewayTypes /\ TransactionsInv /\ r \in Requests /\ r \notin Previews /\ r \notin Confirms
  BY GatewayAssumption DEF GatewayInv, Requests
<1>2. ASSUME NEW q \in Requests, Moves(q), q # r PROVE FALSE
  BY <1>1, <1>2 DEF Moves
<1>3. ASSUME NEW q \in Requests, QuietSteps(q) PROVE List(r)
  <2>1. q = r
    BY <1>1, <1>2, <1>3, QuietOnes DEF Quiet
  <2>2. req[r] \in Connections /\ req \in [Requests -> Connections]
    BY <1>1 DEF GatewayTypes
  <2>3. QED
    BY <1>1, <1>3, <2>1, <2>2
    DEF QuietSteps, Arrive, Deny, CheckToken, PreviewFails, ConfirmUnknown, Audit, Respond,
        Connection, Connections
<1>4. ASSUME NEW q \in Requests, Preview(q) PROVE List(r)
  <2>1. q # r /\ Moves(q)
    BY <1>1, <1>4, PreviewOffers DEF Preview
  <2>2. QED
    BY <1>2, <2>1
<1>5. ASSUME NEW q \in Requests, Confirm(q) PROVE List(r)
  <2>1. q # r /\ Moves(q)
    BY <1>1, <1>5, ConfirmDecides DEF Confirm
  <2>2. QED
    BY <1>2, <2>1
<1>6. CASE RestartGateway
  BY <1>1, <1>6, RestartCuts
<1>7. CASE UNCHANGED gatewayVars
  BY <1>7 DEF gatewayVars
<1>8. QED
  BY <1>3, <1>4, <1>5, <1>6, <1>7 DEF GatewayNext, Serve, QuietSteps

LEMMA ListShows ==
  ASSUME GatewayInv, NEW q \in heard
  PROVE  \/ \E k \in DOMAIN Newest(log) : Newest(log)[k].from = q
         \/ Len(Newest(log)) = ReadLimit
            /\ \A k \in DOMAIN Newest(log) : \E m \in DOMAIN log :
                 /\ log[m] = Newest(log)[k]
                 /\ \A n \in DOMAIN log : log[n].from = q => n < m
<1> DEFINE l == Newest(log)
           z == Len(log)
           y == Len(l)
<1>1. /\ l \in Seq(Entries) /\ y = (IF z < ReadLimit THEN z ELSE ReadLimit)
      /\ \A k \in 1..y : l[k] = log[z + 1 - k]
  BY NewestOf DEF GatewayInv
<1>2. /\ z \in Nat /\ ReadLimit \in Nat /\ AuditCap \in Nat /\ ReadLimit <= AuditCap
      /\ DOMAIN log = 1..z /\ DOMAIN l = 1..y /\ y \in Nat
  BY <1>1, GatewayAssumption DEF GatewayInv, GatewayTypes
<1>3. z = AuditCap \/ \E n \in 1..z : log[n].from = q
  BY <1>2 DEF GatewayInv, GatewayTypes, Logged
<1> HIDE DEF l, z, y
<1>4. SUFFICES ASSUME \A k \in 1..y : l[k].from # q
               PROVE  y = ReadLimit /\ \A k \in 1..y : \E m \in 1..z :
                        log[m] = l[k] /\ \A n \in 1..z : log[n].from = q => n < m
  BY <1>2 DEF l, z, y
<1>5. \A n \in 1..z : log[n].from = q => n < z + 1 - y
  <2>1. SUFFICES ASSUME NEW n \in 1..z, ~(n < z + 1 - y) PROVE log[n].from # q
    OBVIOUS
  <2>2. z + 1 - n \in 1..y /\ z + 1 - (z + 1 - n) = n
    BY <1>2, <2>1
  <2>3. l[z + 1 - n] = log[n]
    BY <1>1, <2>2
  <2>4. QED
    BY <1>4, <2>2, <2>3
<1>6. y = ReadLimit
  <2>1. SUFFICES ASSUME z < ReadLimit PROVE FALSE
    BY <1>1
  <2>2. y = z /\ z # AuditCap
    BY <1>1, <1>2, <2>1
  <2>3. PICK n \in 1..z : log[n].from = q
    BY <1>3, <2>2
  <2>4. n < z + 1 - y
    BY <1>5, <2>3
  <2>5. QED
    BY <1>2, <2>2, <2>4
<1>7. ASSUME NEW k \in 1..y
      PROVE  \E m \in 1..z : log[m] = l[k] /\ \A n \in 1..z : log[n].from = q => n < m
  <2>1. z + 1 - k \in 1..z /\ z + 1 - y <= z + 1 - k
    BY <1>1, <1>2, <1>6, <1>7
  <2>2. \A n \in 1..z : log[n].from = q => n < z + 1 - k
    BY <1>2, <1>5, <2>1
  <2>3. QED
    BY <1>1, <2>1, <2>2
<1>8. QED
  BY <1>6, <1>7

LEMMA ReadStep ==
  ASSUME GatewayInv, [GatewayNext]_gatewayVars, NEW r \in Others,
         req'[r].answer = "list", req[r].answer # "list", NEW q \in heard
  PROVE  \/ \E k \in DOMAIN req'[r].list : req'[r].list[k].from = q
         \/ Len(req'[r].list) = ReadLimit
            /\ \A k \in DOMAIN req'[r].list : \E m \in DOMAIN log :
                 /\ log[m] = req'[r].list[k]
                 /\ \A n \in DOMAIN log : log[n].from = q => n < m
<1>1. List(r) /\ r \in Requests
  BY ListedBy DEF Requests
<1>2. req'[r].list = Newest(log)
  <2>1. req[r] \in Connections /\ req \in [Requests -> Connections]
    BY <1>1 DEF GatewayInv, GatewayTypes
  <2>2. QED
    BY <1>1, <2>1 DEF List, Connections
<1>3. QED
  BY <1>2, ListShows

(* Who reads the log misses no request that was answered before, except   *)
(* for newer ones that fill the list.                                      *)
(* (crates/siyuanmasterd/src/main.rs:459-465, 690-711)                     *)
THEOREM ReadersSeeAnswered == GatewaySpec => ReadsSeeAnswered
<1>1. GatewayInv /\ [GatewayNext]_gatewayVars =>
        [\A r \in Others :
           req'[r].answer = "list" /\ req[r].answer # "list" =>
             LET listed == req'[r].list
             IN  \A q \in heard :
                   \/ \E k \in DOMAIN listed : listed[k].from = q
                   \/ Len(listed) = ReadLimit
                      /\ \A k \in DOMAIN listed : \E m \in DOMAIN log :
                           /\ log[m] = listed[k]
                           /\ \A n \in DOMAIN log : log[n].from = q => n < m]_gatewayVars
  BY ReadStep
<1>2. QED
  BY <1>1, GatewayInvariance, PTL DEF GatewaySpec, ReadsSeeAnswered

-----------------------------------------------------------------------------
(* The command line.                                                       *)
(*                                                                         *)
(* The argument: as long as nobody else has written since a process loaded *)
(* the store, its copy is the last table the file held with one record     *)
(* replaced (Fresh), and the file it has opened is still empty (Alone); so *)
(* what it writes is whole, and loses nothing that was there.              *)

Commands == {"none", "preview", "confirm", "status"}

Processes == [stage : CliStages, cmd : Commands, id : Clock \cup {0}, table : Tables, said : Answers]

CliTypes ==
  /\ file \in [state : {"absent", "table", "empty", "garbled"}, table : Tables]
  /\ now \in Clock
  /\ proc \in [Runs -> Processes]
  /\ since \in [Runs -> SUBSET Runs]
  /\ last \in Tables

(* The records of a store are on offer, or confirmed on their own hash.    *)
Sound(t) ==
  \A i \in Clock : t[i] # None =>
    /\ t[i].state \in {"awaiting_confirmation", "confirmed"}
    /\ t[i].state = "confirmed" => t[i].current = t[i].snapshot

(* The table t with one record offered, or confirmed.                      *)
OneMore(t, cmd, i, later) ==
  \E rec \in Records :
    /\ i \in Clock /\ later = [t EXCEPT ![i] = rec]
    /\ \/ cmd = "preview"
       \/ /\ cmd = "confirm" /\ t[i] # None /\ t[i].state = "awaiting_confirmation"
          /\ rec.state = "confirmed" /\ rec.snapshot = t[i].snapshot

Fresh(p) ==
  since[p] = {} =>
    /\ proc[p].stage = "loaded" => proc[p].table = last
    /\ proc[p].stage \in {"saving", "writing"} =>
         OneMore(last, proc[p].cmd, proc[p].id, proc[p].table)

Alone(p) == since[p] = {} /\ proc[p].stage = "writing" => file.state = "empty"

Says(p) ==
  /\ proc[p].stage \in {"saving", "writing"} => proc[p].said \in {"nothing", "confirmed"}
  /\ proc[p].stage = "done" /\ proc[p].said \in {"awaiting_confirmation", "confirmed"} =>
       p \in stored \/ since[p] # {}

ProcessInv(p) ==
  /\ Fresh(p) /\ Alone(p) /\ Says(p)
  /\ proc[p].stage = "idle" => since[p] = {}
  /\ Alive(p) => Sound(proc[p].table)

FileInv ==
  /\ Sound(file.table)
  /\ file.state \in {"absent", "table"} => file.table = last

CliInv == CliTypes /\ FileInv /\ \A p \in Runs : ProcessInv(p)

LEMMA EmptySound == EmptyTable \in Tables /\ Sound(EmptyTable)
BY DEF EmptyTable, Tables, Sound

LEMMA CliTypesHold == CliInv => CliTypeOK /\ SuccessIsStored
<1> SUFFICES ASSUME CliInv PROVE CliTypeOK /\ SuccessIsStored
  OBVIOUS
<1>1. \A p \in Runs : proc[p].stage \in CliStages /\ proc[p].said \in Answers
  BY DEF CliInv, CliTypes, Processes
<1>2. file.state \in {"absent", "table", "empty", "garbled"} /\ file.table \in Tables
  BY DEF CliInv, CliTypes
<1>3. ASSUME NEW i \in Clock, file.table[i] # None
      PROVE  /\ file.table[i] \in Records
             /\ file.table[i].state \in {"awaiting_confirmation", "confirmed"}
             /\ file.table[i].state = "confirmed" => file.table[i].current = file.table[i].snapshot
  BY <1>2, <1>3 DEF CliInv, FileInv, Sound, Tables
<1>4. SuccessIsStored
  BY DEF CliInv, ProcessInv, Says, SuccessIsStored
<1>5. QED
  BY <1>1, <1>2, <1>3, <1>4 DEF CliTypeOK, CliInv, CliTypes, Unreadable

LEMMA CliInitInv == CliInit => CliInv
<1> SUFFICES ASSUME CliInit PROVE CliInv
  OBVIOUS
<1>1. Process("idle", "none", 0, EmptyTable, "nothing") \in Processes
  BY EmptySound DEF Process, Processes, CliStages, Commands, Answers
<1>2. \A p \in Runs : proc[p] = Process("idle", "none", 0, EmptyTable, "nothing")
  BY DEF CliInit
<1>3. CliTypes
  <2>1. now \in Clock
    BY CliAssumption DEF CliInit, Clock
  <2>2. QED
    BY <1>1, <2>1, EmptySound DEF CliInit, CliTypes, Store
<1>4. FileInv
  BY EmptySound DEF CliInit, FileInv, Store
<1>5. ASSUME NEW p \in Runs PROVE ProcessInv(p)
  BY <1>2 DEF CliInit, ProcessInv, Fresh, Alone, Says, Alive, Process
<1>6. QED
  BY <1>3, <1>4, <1>5 DEF CliInv

(* The step is one of process p alone. *)
Runs1(p) ==
  /\ proc' \in [Runs -> Processes]
  /\ \A q \in Runs : q # p => proc'[q] = proc[q]

LEMMA RunsTo ==
  ASSUME CliTypes, NEW p \in Runs, NEW c \in Processes, proc' = [proc EXCEPT ![p] = c]
  PROVE  Runs1(p) /\ proc'[p] = c
BY DEF CliTypes, Runs1

LEMMA ProcessParts ==
  ASSUME NEW s \in CliStages, NEW m \in Commands, NEW i \in Clock \cup {0}, NEW t \in Tables,
         NEW a \in Answers
  PROVE  /\ Process(s, m, i, t, a) \in Processes
         /\ Process(s, m, i, t, a).stage = s /\ Process(s, m, i, t, a).cmd = m
         /\ Process(s, m, i, t, a).id = i /\ Process(s, m, i, t, a).table = t
         /\ Process(s, m, i, t, a).said = a
BY DEF Process, Processes

(* A step that leaves the file alone disturbs no other process.            *)
LEMMA FileStays ==
  ASSUME CliInv, NEW p \in Runs, Runs1(p), now' \in Clock,
         UNCHANGED <<file, since, stored, last>>, ProcessInv(p)'
  PROVE  CliInv'
<1>1. ASSUME NEW q \in Runs PROVE ProcessInv(q)'
  <2>1. ProcessInv(q) /\ (q # p => proc'[q] = proc[q])
    BY DEF CliInv, Runs1
  <2>2. QED
    BY <2>1 DEF ProcessInv, Fresh, Alone, Says, Alive
<1>2. CliTypes' /\ FileInv'
  BY DEF CliInv, CliTypes, FileInv, Runs1
<1>3. QED
  BY <1>1, <1>2 DEF CliInv

(* A step that writes to the file leaves every other process behind.       *)
LEMMA BehindSince ==
  ASSUME CliTypes, NEW p \in Runs, Behind(p)
  PROVE  /\ since' \in [Runs -> SUBSET Runs] /\ since'[p] = since[p]
         /\ \A q \in Runs : q # p =>
              /\ Alive(q) => since'[q] # {}
              /\ ~Alive(q) => since'[q] = since[q]
BY DEF CliTypes, Behind

LEMMA FileWritten ==
  ASSUME CliInv, NEW p \in Runs, Runs1(p), UNCHANGED now, Behind(p),
         stored \subseteq stored', last' \in Tables, FileInv',
         file' \in [state : {"absent", "table", "empty", "garbled"}, table : Tables],
         ProcessInv(p)'
  PROVE  CliInv'
<1>1. CliTypes
  BY DEF CliInv
<1>2. /\ since' \in [Runs -> SUBSET Runs]
      /\ \A q \in Runs : q # p =>
           /\ Alive(q) => since'[q] # {}
           /\ ~Alive(q) => since'[q] = since[q]
  BY <1>1, BehindSince
<1>3. ASSUME NEW q \in Runs, q # p PROVE ProcessInv(q)'
  <2>1. ProcessInv(q) /\ proc'[q] = proc[q]
    BY <1>3 DEF CliInv, Runs1
  <2>2. QED
    BY <1>2, <1>3, <2>1 DEF ProcessInv, Fresh, Alone, Says, Alive
<1>4. CliTypes'
  BY <1>1, <1>2 DEF CliTypes, Runs1
<1>5. QED
  BY <1>3, <1>4 DEF CliInv

LEMMA LoadStep ==
  ASSUME CliInv, NEW p \in Runs, Load(p)
  PROVE  CliInv'
<1>1. /\ CliTypes /\ FileInv /\ ProcessInv(p) /\ proc[p].stage = "idle" /\ since[p] = {}
      /\ file.table \in Tables
  BY DEF CliInv, CliTypes, ProcessInv, Load
<1>2. PICK cmd \in {"preview", "confirm", "status"} :
        proc' = [proc EXCEPT ![p] = IF file.state \in Unreadable
                                    THEN Process("failed", cmd, 0, EmptyTable, "error")
                                    ELSE Process("loaded", cmd, 0, file.table, "nothing")]
  BY DEF Load
<1>3. UNCHANGED <<file, now, since, stored, last>> /\ now' \in Clock
  BY <1>1 DEF Load, CliTypes
<1>4. CASE file.state \in Unreadable
  <2> DEFINE c == Process("failed", cmd, 0, EmptyTable, "error")
  <2>1. c \in Processes /\ c.stage = "failed"
    BY ProcessParts, EmptySound DEF CliStages, Commands, Answers
  <2> HIDE DEF c
  <2>2. Runs1(p) /\ proc'[p] = c
    BY <1>1, <1>2, <1>4, <2>1, RunsTo DEF c
  <2>3. ProcessInv(p)'
    BY <2>1, <2>2 DEF ProcessInv, Fresh, Alone, Says, Alive
  <2>4. QED
    BY <1>3, <2>2, <2>3, FileStays
<1>5. CASE file.state \notin Unreadable
  <2> DEFINE c == Process("loaded", cmd, 0, file.table, "nothing")
  <2>1. c \in Processes /\ c.stage = "loaded" /\ c.table = file.table
    <3>1. PICK t \in Tables : t = file.table
      BY <1>1
    <3>2. /\ "loaded" \in CliStages /\ "nothing" \in Answers /\ cmd \in Commands
          /\ 0 \in Clock \cup {0}
      BY DEF CliStages, Commands, Answers
    <3>3. /\ Process("loaded", cmd, 0, t, "nothing") \in Processes
          /\ Process("loaded", cmd, 0, t, "nothing").stage = "loaded"
          /\ Process("loaded", cmd, 0, t, "nothing").table = t
      BY <3>2, ProcessParts
    <3>4. QED
      BY <3>1, <3>3
  <2> HIDE DEF c
  <2>2. Runs1(p) /\ proc'[p] = c
    BY <1>1, <1>2, <1>5, <2>1, RunsTo DEF c
  <2>3. file.table = last /\ Sound(file.table)
    BY <1>1, <1>5 DEF FileInv, CliTypes, Unreadable
  <2>4. ProcessInv(p)'
    BY <1>3, <2>1, <2>2, <2>3 DEF ProcessInv, Fresh, Alone, Says, Alive
  <2>5. QED
    BY <1>3, <2>2, <2>4, FileStays
<1>6. QED
  BY <1>4, <1>5

(* A command acts on its copy.                                             *)
LEMMA ActsStep ==
  ASSUME CliInv, NEW p \in Runs, proc[p].stage = "loaded",
         NEW s \in {"saving", "done", "failed"}, NEW i \in Clock \cup {0}, NEW t \in Tables,
         NEW a \in Answers, Acts(p, s, i, t, a),
         s = "saving" => /\ a \in {"nothing", "confirmed"} /\ Sound(t)
                         /\ since[p] = {} => OneMore(last, proc[p].cmd, i, t),
         s = "done" => a \notin {"awaiting_confirmation", "confirmed"}
  PROVE  CliInv'
<1> DEFINE c == Process(s, proc[p].cmd, i, t, a)
<1>1. /\ CliTypes /\ proc[p] \in Processes /\ proc[p].cmd \in Commands
      /\ proc \in [Runs -> Processes]
  BY DEF CliInv, CliTypes, Processes
<1>2. /\ c \in Processes /\ c.stage = s /\ c.cmd = proc[p].cmd /\ c.id = i /\ c.table = t
      /\ c.said = a
  BY <1>1, ProcessParts DEF CliStages
<1>3. /\ proc' = [proc EXCEPT ![p] = c]
      /\ UNCHANGED <<file, since, stored, last>> /\ now' \in Clock
  BY <1>1 DEF Acts, CliTypes, history
<1> HIDE DEF c
<1>4. Runs1(p) /\ proc'[p] = c
  BY <1>1, <1>2, <1>3, RunsTo
<1>5. ProcessInv(p)'
  BY <1>2, <1>3, <1>4 DEF ProcessInv, Fresh, Alone, Says, Alive
<1>6. QED
  BY <1>3, <1>4, <1>5, FileStays

LEMMA PreviewFailure == Previewed(None).failure = "snapshot_failed"
<1> DEFINE t == <<"created", "prepare", "previewed", "none">>
           u == <<"previewed", "snapshot_failed", "failed", "snapshot_failed">>
           first == After(NewRecord, "prepare")
<1>1. NewRecord.state = "created"
  BY DEF NewRecord, Record
<1>2. t \in Table /\ \A v \in Table : v[1] = NewRecord.state /\ v[2] = "prepare" <=> v = t
  BY <1>1 DEF Table
<1>3. t[3] = "previewed" /\ t[4] = "none" /\ u[3] = "failed" /\ u[4] = "snapshot_failed"
  OBVIOUS
<1>4. u \in Table /\ \A v \in Table : v[1] = "previewed" /\ v[2] = "snapshot_failed" <=> v = u
  BY DEF Table
<1> HIDE DEF t, u
<1>5. first.state = "previewed"
  BY <1>2, <1>3, AfterRow DEF Record
<1> HIDE DEF first
<1>6. After(first, "snapshot_failed") = Record(u[3], first.snapshot, first.current,
                                              IF u[4] = "none" THEN first.failure ELSE u[4])
  BY <1>4, <1>5, AfterRow
<1>7. After(first, "snapshot_failed").failure = "snapshot_failed"
  BY <1>3, <1>6 DEF Record
<1>8. QED
  BY <1>7 DEF Previewed, first

LEMMA LoadedCopy ==
  ASSUME CliInv, NEW p \in Runs, proc[p].stage = "loaded"
  PROVE  /\ proc[p].table \in Tables /\ Sound(proc[p].table)
         /\ since[p] = {} => proc[p].table = last
BY DEF CliInv, CliTypes, Processes, ProcessInv, Fresh, Alive

LEMMA PreviewCommandStep ==
  ASSUME CliInv, NEW p \in Runs, PreviewCommand(p)
  PROVE  CliInv'
<1> DEFINE t == proc[p].table
<1>1. /\ proc[p].stage = "loaded" /\ proc[p].cmd = "preview" /\ t \in Tables /\ Sound(t)
      /\ since[p] = {} => t = last
  BY LoadedCopy DEF PreviewCommand
<1> HIDE DEF t
<1>2. CASE Acts(p, "failed", 0, t, "error")
  BY <1>1, <1>2, ActsStep DEF Answers
<1>3. CASE Acts(p, "done", 0, t, Previewed(None).failure)
  BY <1>1, <1>3, PreviewFailure, ActsStep DEF Answers
<1>4. ASSUME NEW h \in Hashes, Acts(p, "saving", now, [t EXCEPT ![now] = Previewed(h)], "nothing")
      PROVE  CliInv'
  <2> DEFINE rec == Record("awaiting_confirmation", h, None, "none")
             later == [t EXCEPT ![now] = rec]
  <2>1. rec \in Records /\ rec # None /\ rec.state = "awaiting_confirmation" /\ Previewed(h) = rec
    BY RecordTyped, PreviewedOffers DEF States, Failures
  <2>2. now \in Clock
    BY DEF CliInv, CliTypes
  <2> HIDE DEF rec
  <2>3. later \in Tables /\ Sound(later)
    BY <1>1, <2>1, <2>2 DEF Tables, Sound
  <2>4. since[p] = {} => OneMore(last, proc[p].cmd, now, later)
    BY <1>1, <2>1, <2>2 DEF OneMore
  <2>5. Acts(p, "saving", now, later, "nothing")
    BY <1>4, <2>1
  <2> HIDE DEF later
  <2>6. QED
    BY <1>1, <2>2, <2>3, <2>4, <2>5, ActsStep DEF Answers
<1>5. QED
  BY <1>2, <1>3, <1>4 DEF PreviewCommand, t

LEMMA ConfirmCommandStep ==
  ASSUME CliInv, NEW p \in Runs, ConfirmCommand(p)
  PROVE  CliInv'
<1> DEFINE t == proc[p].table
<1>1. /\ proc[p].stage = "loaded" /\ proc[p].cmd = "confirm" /\ t \in Tables /\ Sound(t)
      /\ since[p] = {} => t = last
  BY LoadedCopy DEF ConfirmCommand
<1>2. PICK i \in Clock, h \in Hashes, sure \in BOOLEAN :
        IF t[i] = None
        THEN Acts(p, "failed", i, t, "error")
        ELSE LET d == Decide(t[i], sure, h)
             IN  Acts(p, IF d.answer = "confirmed" THEN "saving" ELSE "done", i,
                      [t EXCEPT ![i] = d.rec], d.answer)
  BY DEF ConfirmCommand
<1> HIDE DEF t
<1>3. CASE t[i] = None
  BY <1>1, <1>2, <1>3, ActsStep DEF Answers
<1>4. CASE t[i] # None
  <2> DEFINE d == Decide(t[i], sure, h)
             later == [t EXCEPT ![i] = d.rec]
             s == IF d.answer = "confirmed" THEN "saving" ELSE "done"
  <2>1. t[i] \in Records
    BY <1>1, <1>4 DEF Tables
  <2>2. Acts(p, s, i, later, d.answer)
    BY <1>2, <1>4
  <2>3. \/ d.rec = t[i] /\ d.answer \in {"confirmation_required", "already_finalized"}
        \/ /\ t[i].state = "awaiting_confirmation" /\ h = t[i].snapshot /\ d.answer = "confirmed"
           /\ d.rec = Record("confirmed", t[i].snapshot, h, t[i].failure)
        \/ /\ t[i].state = "awaiting_confirmation" /\ h # t[i].snapshot
           /\ d.answer = "state_changed"
           /\ d.rec = Record("failed", t[i].snapshot, h, "state_changed")
    BY <2>1, DecideCases
  <2> HIDE DEF d
  <2>4. d.answer \in Answers /\ s \in {"saving", "done"} /\ (s = "saving" <=> d.answer = "confirmed")
    BY <2>3 DEF Answers
  <2>5. CASE d.answer = "confirmed"
    <3>1. /\ t[i].state = "awaiting_confirmation" /\ h = t[i].snapshot
          /\ d.rec = Record("confirmed", h, h, t[i].failure) /\ t[i].failure \in Failures
      BY <2>1, <2>3, <2>5 DEF Records
    <3>2. /\ d.rec \in Records /\ d.rec # None /\ d.rec.state = "confirmed"
          /\ d.rec.snapshot = h /\ d.rec.current = h
      BY <3>1, RecordTyped DEF States
    <3>3. later \in Tables /\ Sound(later)
      BY <1>1, <3>2 DEF Tables, Sound
    <3>4. since[p] = {} => OneMore(last, proc[p].cmd, i, later)
      BY <1>1, <1>4, <3>1, <3>2 DEF OneMore
    <3> HIDE DEF later, s
    <3>5. QED
      BY <1>1, <2>2, <2>4, <2>5, <3>3, <3>4, ActsStep
  <2>6. CASE d.answer # "confirmed"
    <3>1. d.rec \in Records
      <4>1. CASE d.rec = t[i]
        BY <2>1, <4>1
      <4>2. CASE d.rec = Record("failed", t[i].snapshot, h, "state_changed")
        BY <2>1, <4>2 DEF Record, Records, States, Failures
      <4>3. QED
        BY <2>3, <2>6, <4>1, <4>2
    <3>2. later \in Tables
      BY <1>1, <3>1 DEF Tables
    <3>3. d.answer \notin {"awaiting_confirmation", "confirmed"} /\ s = "done"
      BY <2>3, <2>6
    <3> HIDE DEF later, s
    <3>4. QED
      BY <1>1, <2>2, <2>4, <3>2, <3>3, ActsStep
  <2>7. QED
    BY <2>5, <2>6
<1>5. QED
  BY <1>3, <1>4

LEMMA StatusCommandStep ==
  ASSUME CliInv, NEW p \in Runs, StatusCommand(p)
  PROVE  CliInv'
<1> DEFINE t == proc[p].table
<1>1. proc[p].stage = "loaded" /\ t \in Tables
  BY LoadedCopy DEF StatusCommand
<1>2. PICK i \in Clock : Acts(p, "failed", i, t, "error") \/ Acts(p, "done", i, t, "status")
  BY DEF StatusCommand
<1> HIDE DEF t
<1>3. QED
  BY <1>1, <1>2, ActsStep DEF Answers

(* A process goes on to another stage.                                     *)
LEMMA StageTo ==
  ASSUME CliInv, NEW p \in Runs, NEW s \in CliStages, proc' = [proc EXCEPT ![p].stage = s]
  PROVE  /\ Runs1(p) /\ proc'[p].stage = s /\ proc'[p].cmd = proc[p].cmd
         /\ proc'[p].id = proc[p].id /\ proc'[p].table = proc[p].table
         /\ proc'[p].said = proc[p].said
<1> DEFINE c == [proc[p] EXCEPT !.stage = s]
<1>1. CliTypes /\ proc[p] \in Processes
  BY DEF CliInv, CliTypes
<1>2. /\ c \in Processes /\ c.stage = s /\ c.cmd = proc[p].cmd /\ c.id = proc[p].id
      /\ c.table = proc[p].table /\ c.said = proc[p].said
  BY <1>1 DEF Processes
<1>3. proc' = [proc EXCEPT ![p] = c]
  OBVIOUS
<1> HIDE DEF c
<1>4. Runs1(p) /\ proc'[p] = c
  BY <1>1, <1>2, <1>3, RunsTo
<1>5. QED
  BY <1>2, <1>4

LEMMA EndsStep ==
  ASSUME CliInv, NEW p \in Runs, SaveFails(p) \/ Kill(p)
  PROVE  CliInv'
<1>1. PICK s \in {"failed", "killed"} : proc' = [proc EXCEPT ![p].stage = s]
  BY DEF SaveFails, Kill
<1>2. Runs1(p) /\ proc'[p].stage = s
  BY <1>1, StageTo DEF CliStages
<1>3. UNCHANGED <<file, since, stored, last>> /\ now' \in Clock
  BY DEF SaveFails, Kill, history, CliInv, CliTypes
<1>4. since[p] = {} \/ since[p] # {}
  OBVIOUS
<1>5. ProcessInv(p)'
  BY <1>1, <1>2 DEF ProcessInv, Fresh, Alone, Says, Alive
<1>6. QED
  BY <1>2, <1>3, <1>5, FileStays

LEMMA TruncateStep ==
  ASSUME CliInv, NEW p \in Runs, Truncate(p)
  PROVE  CliInv'
<1>1. CliTypes /\ FileInv /\ ProcessInv(p) /\ proc[p].stage = "saving" /\ Behind(p)
  BY DEF CliInv, Truncate
<1>2. /\ Runs1(p) /\ proc'[p].stage = "writing" /\ proc'[p].cmd = proc[p].cmd
      /\ proc'[p].id = proc[p].id /\ proc'[p].table = proc[p].table
      /\ proc'[p].said = proc[p].said
  BY StageTo DEF Truncate, CliStages
<1>3. UNCHANGED <<now, stored, last>> /\ file' = Store("empty", EmptyTable)
  BY DEF Truncate
<1>4. file'.state = "empty" /\ file'.table = EmptyTable
      /\ file' \in [state : {"absent", "table", "empty", "garbled"}, table : Tables]
  BY <1>3, EmptySound DEF Store
<1>5. since'[p] = since[p]
  BY <1>1, BehindSince
<1>6. FileInv'
  BY <1>4, EmptySound DEF FileInv
<1>7. ProcessInv(p)'
  BY <1>1, <1>2, <1>3, <1>4, <1>5 DEF ProcessInv, Fresh, Alone, Says, Alive
<1>8. QED
  BY <1>1, <1>2, <1>3, <1>4, <1>6, <1>7, FileWritten DEF CliTypes

LEMMA WriteFailsStep ==
  ASSUME CliInv, NEW p \in Runs, WriteFails(p)
  PROVE  CliInv'
<1>1. CliTypes /\ FileInv /\ ProcessInv(p) /\ proc[p].stage = "writing" /\ Behind(p)
  BY DEF CliInv, WriteFails
<1>2. Runs1(p) /\ proc'[p].stage = "failed"
  BY StageTo DEF WriteFails, CliStages
<1>3. UNCHANGED <<now, stored, last>> /\ file' = Store("garbled", EmptyTable)
  BY DEF WriteFails
<1>4. file'.state = "garbled" /\ file'.table = EmptyTable
      /\ file' \in [state : {"absent", "table", "empty", "garbled"}, table : Tables]
  BY <1>3, EmptySound DEF Store
<1>5. FileInv'
  BY <1>4, EmptySound DEF FileInv
<1>6. ProcessInv(p)'
  BY <1>2 DEF ProcessInv, Fresh, Alone, Says, Alive
<1>7. QED
  BY <1>1, <1>2, <1>3, <1>4, <1>5, <1>6, FileWritten DEF CliTypes

(* What a process that has written says.                                   *)
LEMMA WroteSays ==
  ASSUME CliInv, NEW p \in Runs, Write(p)
  PROVE  /\ Runs1(p) /\ proc'[p].stage = "done" /\ proc'[p].table = proc[p].table
         /\ proc[p].table \in Tables
<1> DEFINE a == IF proc[p].said = "nothing" THEN "awaiting_confirmation" ELSE proc[p].said
           c == [proc[p] EXCEPT !.stage = "done", !.said = a]
<1>1. CliTypes /\ proc[p] \in Processes /\ proc \in [Runs -> Processes]
  BY DEF CliInv, CliTypes
<1>2. a \in Answers
  BY <1>1 DEF Processes, Answers
<1>3. proc' = [proc EXCEPT ![p] = c]
  BY <1>1 DEF Write
<1> HIDE DEF a
<1>4. c \in Processes /\ c.stage = "done" /\ c.table = proc[p].table /\ proc[p].table \in Tables
  BY <1>1, <1>2 DEF Processes, CliStages
<1> HIDE DEF c
<1>5. Runs1(p) /\ proc'[p] = c
  BY <1>1, <1>3, <1>4, RunsTo
<1>6. QED
  BY <1>4, <1>5

LEMMA WriteStep ==
  ASSUME CliInv, NEW p \in Runs, Write(p)
  PROVE  CliInv'
<1>1. CliTypes /\ FileInv /\ ProcessInv(p) /\ proc[p].stage = "writing" /\ Behind(p) /\ UNCHANGED now
  BY DEF CliInv, Write
<1>2. /\ Runs1(p) /\ proc'[p].stage = "done" /\ proc[p].table \in Tables
      /\ Sound(proc[p].table) /\ since'[p] = since[p]
  BY <1>1, WroteSays, BehindSince DEF ProcessInv, Alive
<1>3. CASE file' = Store("table", proc[p].table) /\ stored' = stored \cup {p} /\ last' = proc[p].table
  <2>1. file'.state = "table" /\ file'.table = proc[p].table
        /\ file' \in [state : {"absent", "table", "empty", "garbled"}, table : Tables]
    BY <1>2, <1>3 DEF Store
  <2>2. FileInv'
    BY <1>2, <1>3, <2>1 DEF FileInv
  <2>3. ProcessInv(p)'
    BY <1>2, <1>3 DEF ProcessInv, Fresh, Alone, Says, Alive
  <2>4. QED
    BY <1>1, <1>2, <1>3, <2>1, <2>2, <2>3, FileWritten
<1>4. CASE file.state # "empty" /\ file' = Store("garbled", EmptyTable) /\ UNCHANGED <<stored, last>>
  <2>1. file'.state = "garbled" /\ file'.table = EmptyTable
        /\ file' \in [state : {"absent", "table", "empty", "garbled"}, table : Tables]
    BY <1>4, EmptySound DEF Store
  <2>2. FileInv'
    BY <2>1, EmptySound DEF FileInv
  <2>3. since'[p] # {}
    BY <1>1, <1>2, <1>4 DEF ProcessInv, Alone
  <2>4. ProcessInv(p)'
    BY <1>2, <2>3 DEF ProcessInv, Fresh, Alone, Says, Alive
  <2>5. QED
    BY <1>1, <1>2, <1>4, <2>1, <2>2, <2>4, FileWritten DEF CliTypes
<1>5. QED
  BY <1>3, <1>4 DEF Write

LEMMA CliNextInv == CliInv /\ [CliNext]_cliVars => CliInv'
<1> SUFFICES ASSUME CliInv, [CliNext]_cliVars PROVE CliInv'
  OBVIOUS
<1>1. CASE UNCHANGED <<file, proc, since, stored, last>> /\ now' \in Clock
  BY <1>1 DEF CliInv, CliTypes, FileInv, ProcessInv, Fresh, Alone, Says, Alive
<1>2. CASE Tick
  <2>1. now' \in Clock
    BY <1>2, CliAssumption DEF CliInv, CliTypes, Tick, Clock
  <2>2. QED
    BY <1>1, <1>2, <2>1 DEF Tick, history
<1>3. ASSUME NEW p \in Runs, Command(p) PROVE CliInv'
  BY <1>3, LoadStep, PreviewCommandStep, ConfirmCommandStep, StatusCommandStep, EndsStep,
     TruncateStep, WriteStep, WriteFailsStep DEF Command
<1>4. CASE UNCHANGED cliVars
  BY <1>1, <1>4 DEF cliVars, history, CliInv, CliTypes
<1>5. QED
  BY <1>2, <1>3, <1>4 DEF CliNext

(* The inductive invariant of the command line. *)
THEOREM CliInvariance == CliSpec => []CliInv
<1>1. CliInit => CliInv
  BY CliInitInv
<1>2. CliInv /\ [CliNext]_cliVars => CliInv'
  BY CliNextInv
<1>3. QED
  BY <1>1, <1>2, PTL DEF CliSpec

(* The store holds records on offer and confirmed ones, the latter on the *)
(* hash they were offered with.                                            *)
(* (crates/siyuanmaster/src/main.rs:224-387, crates/core/src/txn.rs:316)   *)
THEOREM CliTypeCorrect == CliSpec => []CliTypeOK
<1>1. CliInv => CliTypeOK
  BY CliTypesHold
<1>2. QED
  BY <1>1, CliInvariance, PTL

(* A command that reports success has stored what it reports, unless      *)
(* another one saved meanwhile.                                            *)
(* (crates/siyuanmaster/src/main.rs:280-292 and 353-364)                   *)
THEOREM SuccessStored == CliSpec => []SuccessIsStored
<1>1. CliInv => SuccessIsStored
  BY CliTypesHold
<1>2. QED
  BY <1>1, CliInvariance, PTL

(* Only a process that empties the file or has emptied it changes it.      *)
LEMMA FileChanges ==
  ASSUME CliInv, [CliNext]_cliVars, file' # file
  PROVE  \E p \in Runs : "writing" \in {proc[p].stage, proc'[p].stage}
<1>1. PICK p \in Runs : Command(p)
  BY DEF CliNext, Tick, cliVars
<1>2. Truncate(p) \/ Write(p) \/ WriteFails(p)
  BY <1>1 DEF Command, Load, PreviewCommand, ConfirmCommand, StatusCommand, Acts, SaveFails, Kill
<1>3. CASE Truncate(p)
  <2>1. proc'[p].stage = "writing"
    BY <1>3, StageTo DEF Truncate, CliStages
  <2>2. QED
    BY <2>1
<1>4. CASE Write(p) \/ WriteFails(p)
  BY <1>4 DEF Write, WriteFails
<1>5. QED
  BY <1>2, <1>3, <1>4

(* How a process that has emptied the file ends.                           *)
LEMMA WriterEnds ==
  ASSUME CliInv, [CliNext]_cliVars, NEW p \in Runs,
         proc[p].stage = "writing", proc'[p].stage # "writing"
  PROVE  Write(p) \/ proc'[p].stage \in {"killed", "failed"}
<1>1. proc \in [Runs -> Processes] /\ proc'[p] # proc[p]
  BY DEF CliInv, CliTypes
<1>2. PICK q \in Runs : Command(q)
  BY <1>1 DEF CliNext, Tick, cliVars
<1>3. q = p
  BY <1>1, <1>2
  DEF Command, Load, PreviewCommand, ConfirmCommand, StatusCommand, Acts, SaveFails, Truncate,
      Write, WriteFails, Kill
<1>4. ASSUME WriteFails(p) \/ Kill(p) PROVE proc'[p].stage \in {"killed", "failed"}
  <2>1. PICK s \in {"failed", "killed"} : proc' = [proc EXCEPT ![p].stage = s]
    BY <1>4 DEF WriteFails, Kill
  <2>2. proc'[p].stage = s
    BY <2>1, StageTo DEF CliStages
  <2>3. QED
    BY <2>2
<1>5. QED
  BY <1>2, <1>3, <1>4
  DEF Command, Load, PreviewCommand, ConfirmCommand, StatusCommand, SaveFails, Truncate

(* A process that is killed or fails leaves no other table behind.         *)
LEMMA EndsWithoutTable ==
  ASSUME CliInv, CliInv', [CliNext]_cliVars, NEW p \in Runs,
         proc[p].stage = "writing", proc'[p].stage \in {"killed", "failed"}, file'.state = "table"
  PROVE  ~Forgets(last, file'.table)
<1>1. file'.table = last'
  BY DEF CliInv, FileInv
<1>2. ASSUME NEW q \in Runs, Write(q) PROVE UNCHANGED last
  <2>1. proc'[q].stage = "done" /\ proc[q].stage = "writing" /\ q # p
    BY <1>2, WroteSays DEF Write
  <2>2. proc'[p] = proc[p]
    BY <1>2, <2>1, WroteSays DEF Runs1
  <2>3. QED
    BY <2>2
<1>3. UNCHANGED last
  BY <1>2
  DEF CliNext, Tick, cliVars, history, Command, Load, PreviewCommand, ConfirmCommand,
      StatusCommand, Acts, SaveFails, Truncate, WriteFails, Kill
<1>4. QED
  BY <1>1, <1>3 DEF Forgets

(* What a process that nobody disturbed writes.                            *)
LEMMA WriteForgets ==
  ASSUME CliInv, NEW p \in Runs, Write(p), since[p] = {}
  PROVE  /\ file'.state = "table"
         /\ Forgets(last, file'.table) => proc[p].cmd = "preview" /\ last[proc[p].id] # None
<1>1. ProcessInv(p) /\ proc[p].stage = "writing"
  BY DEF CliInv, Write
<1>2. file.state = "empty"
  BY <1>1 DEF ProcessInv, Alone
<1>3. file'.state = "table" /\ file'.table = proc[p].table
  BY <1>2 DEF Write, Store
<1>4. SUFFICES ASSUME Forgets(last, file'.table) PROVE proc[p].cmd = "preview" /\ last[proc[p].id] # None
  BY <1>3
<1>5. OneMore(last, proc[p].cmd, proc[p].id, proc[p].table)
  BY <1>1 DEF ProcessInv, Fresh
<1>6. PICK rec \in Records :
        /\ proc[p].id \in Clock /\ proc[p].table = [last EXCEPT ![proc[p].id] = rec]
        /\ \/ proc[p].cmd = "preview"
           \/ /\ last[proc[p].id] # None /\ last[proc[p].id].state = "awaiting_confirmation"
              /\ rec.state = "confirmed" /\ rec.snapshot = last[proc[p].id].snapshot
  BY <1>5 DEF OneMore
<1>7. PICK i \in Clock :
        /\ last[i] # None /\ proc[p].table[i] # last[i]
        /\ ~(/\ last[i].state = "awaiting_confirmation"
             /\ proc[p].table[i] # None /\ proc[p].table[i].state = "confirmed"
             /\ proc[p].table[i].snapshot = last[i].snapshot)
  BY <1>3, <1>4 DEF Forgets
<1>8. last \in [Clock -> Records \cup {None}]
  BY DEF CliInv, CliTypes, Tables
<1>9. i = proc[p].id /\ proc[p].table[i] = rec /\ rec # None
  BY <1>6, <1>7, <1>8, MachineAssumption
<1>10. QED
  BY <1>6, <1>7, <1>9

(* The store is lost or forgets only by a process killed or out of disk   *)
(* between emptying it and writing, by another one's save meanwhile, or by *)
(* a preview of the same millisecond; and a store that was lost is not     *)
(* taken for an empty one.                                                 *)
(* (crates/siyuanmaster/src/main.rs:231, crates/core/src/txn.rs:269-331)   *)
THEOREM ForgettingCaused == CliSpec => ForgettingHasCause
<1>1. ASSUME CliInv, CliInv', [CliNext]_cliVars, NEW p \in Runs,
             proc[p].stage = "writing", proc'[p].stage # "writing", since[p] = {}
      PROVE  /\ file'.state # "table" => proc'[p].stage \in {"killed", "failed"}
             /\ file'.state = "table" /\ Forgets(last, file'.table) =>
                  proc[p].cmd = "preview" /\ last[proc[p].id] # None
  <2>1. CASE Write(p)
    BY <1>1, <2>1, WriteForgets
  <2>2. CASE proc'[p].stage \in {"killed", "failed"}
    BY <1>1, <2>2, EndsWithoutTable
  <2>3. QED
    BY <1>1, <2>1, <2>2, WriterEnds
<1>2. CliInv /\ CliInv' /\ [CliNext]_cliVars =>
        [/\ file' # file => \E p \in Runs : "writing" \in {proc[p].stage, proc'[p].stage}
         /\ \A p \in Runs :
              proc[p].stage = "writing" /\ proc'[p].stage # "writing" /\ since[p] = {} =>
                /\ file'.state # "table" => proc'[p].stage \in {"killed", "failed"}
                /\ file'.state = "table" /\ Forgets(last, file'.table) =>
                     proc[p].cmd = "preview" /\ last[proc[p].id] # None]_cliVars
  BY <1>1, FileChanges
<1>3. QED
  BY <1>2, CliInvariance, PTL DEF CliSpec, ForgettingHasCause
-----------------------------------------------------------------------------
(* "exactly_once" (crates/core/src/txn.rs:10) for the command line: it holds as *)
(* long as no process has another one's save fall into its own, and no two     *)
(* previews into the same millisecond.  (A decision that fails is not saved,   *)
(* so that much is all that is promised: FailedStaysFailed is violated.)       *)

ConfirmedBy(p) == proc[p].stage = "done" /\ proc[p].said = "confirmed"
PreviewedBy(p) == proc[p].stage = "done" /\ proc[p].said = "awaiting_confirmation"

NoOverlap == \A r \in Runs : since[r] = {}
OwnIds ==
  \A a, b \in Runs : PreviewedBy(a) /\ PreviewedBy(b) /\ proc[a].id = proc[b].id => a = b

(* Two commands that both report a confirmation confirm two transactions. *)
ConfirmedOnce ==
  NoOverlap /\ OwnIds =>
    \A p, q \in Runs : ConfirmedBy(p) /\ ConfirmedBy(q) /\ proc[p].id = proc[q].id => p = q

(* What a save will report, and what the last table tells of those that ended. *)
WillSay(p) ==
  proc[p].stage \in {"saving", "writing"} =>
    \/ proc[p].cmd = "preview" /\ proc[p].said = "nothing"
    \/ proc[p].cmd = "confirm" /\ proc[p].said = "confirmed"

Recorded(p) ==
  ConfirmedBy(p) =>
    /\ proc[p].id \in Clock
    /\ last[proc[p].id] # None /\ last[proc[p].id].state = "confirmed"

Offerer(i) == last[i] # None => \E a \in Runs : PreviewedBy(a) /\ proc[a].id = i

OnceInv ==
  /\ \A p \in Runs : WillSay(p)
  /\ NoOverlap /\ OwnIds => (\A p \in Runs : Recorded(p)) /\ (\A i \in Clock : Offerer(i))
  /\ ConfirmedOnce

(* A step of a process that has reported nothing, before or after.              *)
LEMMA OnceKept ==
  ASSUME OnceInv, NEW p \in Runs, Runs1(p), last' = last,
         \A r \in Runs : since[r] \subseteq since'[r],
         ~ConfirmedBy(p), ~PreviewedBy(p), ~ConfirmedBy(p)', ~PreviewedBy(p)', WillSay(p)'
  PROVE  OnceInv'
<1>1. \A q \in Runs \ {p} :
        /\ proc'[q] = proc[q] /\ ConfirmedBy(q)' = ConfirmedBy(q)
        /\ PreviewedBy(q)' = PreviewedBy(q)
  BY DEF Runs1, ConfirmedBy, PreviewedBy
<1>2. \A q \in Runs : WillSay(q)'
  BY <1>1 DEF OnceInv, WillSay
<1>3. NoOverlap' => NoOverlap
  BY DEF NoOverlap
<1>4. OwnIds' => OwnIds
  BY <1>1 DEF OwnIds
<1>5. ConfirmedOnce'
  BY <1>1, <1>3, <1>4 DEF OnceInv, ConfirmedOnce
<1>6. (\A q \in Runs : Recorded(q)) => (\A q \in Runs : Recorded(q)')
  BY <1>1 DEF Recorded
<1>7. (\A i \in Clock : Offerer(i)) => (\A i \in Clock : Offerer(i)')
  <2>1. ASSUME NEW i \in Clock, Offerer(i), last'[i] # None
        PROVE  \E a \in Runs : PreviewedBy(a)' /\ proc'[a].id = i
    <3>1. PICK a \in Runs : PreviewedBy(a) /\ proc[a].id = i
      BY <2>1 DEF Offerer
    <3>2. QED
      BY <1>1, <3>1
  <2>2. QED
    BY <2>1 DEF Offerer
<1>8. QED
  BY <1>2, <1>3, <1>4, <1>5, <1>6, <1>7 DEF OnceInv

(* The end of a save.                                                           *)
LEMMA OnceWrite ==
  ASSUME CliInv, OnceInv, NEW w \in Runs, Write(w)
  PROVE  OnceInv'
<1> DEFINE i == proc[w].id
<1>1. /\ proc[w].stage = "writing" /\ Behind(w) /\ proc \in [Runs -> Processes]
      /\ since \in [Runs -> SUBSET Runs] /\ last \in Tables
  BY DEF Write, CliInv, CliTypes
<1>2. /\ proc'[w].stage = "done" /\ proc'[w].cmd = proc[w].cmd /\ proc'[w].id = i
      /\ proc'[w].said = IF proc[w].said = "nothing" THEN "awaiting_confirmation" ELSE proc[w].said
      /\ \A q \in Runs \ {w} : proc'[q] = proc[q]
  BY <1>1 DEF Write, Processes
<1>3. /\ ~ConfirmedBy(w) /\ ~PreviewedBy(w)
      /\ \A q \in Runs \ {w} :
           /\ proc'[q] = proc[q] /\ ConfirmedBy(q)' = ConfirmedBy(q)
           /\ PreviewedBy(q)' = PreviewedBy(q)
  BY <1>1, <1>2 DEF ConfirmedBy, PreviewedBy
<1>4. \A q \in Runs : WillSay(q)'
  BY <1>2 DEF OnceInv, WillSay
<1>5. \/ proc[w].cmd = "preview" /\ PreviewedBy(w)' /\ ~ConfirmedBy(w)'
      \/ proc[w].cmd = "confirm" /\ ConfirmedBy(w)' /\ ~PreviewedBy(w)'
  BY <1>1, <1>2 DEF OnceInv, WillSay, PreviewedBy, ConfirmedBy
<1>6. SUFFICES ASSUME NoOverlap', OwnIds'
               PROVE  /\ \A p \in Runs : Recorded(p)'
                      /\ \A k \in Clock : Offerer(k)'
                      /\ \A p, q \in Runs : ConfirmedBy(p)' /\ ConfirmedBy(q)'
                                             /\ proc'[p].id = proc'[q].id => p = q
  BY <1>4 DEF OnceInv, ConfirmedOnce
<1>7. NoOverlap
  <2>1. \A r \in Runs : since[r] \subseteq since'[r]
    BY <1>1 DEF Behind
  <2>2. QED
    BY <1>6, <2>1 DEF NoOverlap
<1>8. OwnIds
  BY <1>3, <1>6 DEF OwnIds
<1>9. /\ \A p \in Runs : Recorded(p)
      /\ \A k \in Clock : Offerer(k)
      /\ \A p, q \in Runs : ConfirmedBy(p) /\ ConfirmedBy(q) /\ proc[p].id = proc[q].id => p = q
  BY <1>7, <1>8 DEF OnceInv, ConfirmedOnce
<1>10. file.state = "empty" /\ OneMore(last, proc[w].cmd, i, proc[w].table)
  BY <1>1, <1>7 DEF CliInv, ProcessInv, Fresh, Alone, NoOverlap
<1>11. PICK rec \in Records :
         /\ i \in Clock /\ last' = [last EXCEPT ![i] = rec]
         /\ \/ proc[w].cmd = "preview"
            \/ /\ proc[w].cmd = "confirm" /\ last[i] # None /\ last[i].state = "awaiting_confirmation"
               /\ rec.state = "confirmed"
  BY <1>10 DEF Write, OneMore
<1>12. /\ last'[i] = rec /\ rec # None
       /\ \A k \in Clock \ {i} : last'[k] = last[k]
  BY <1>1, <1>11, MachineAssumption DEF Tables
<1>13. proc[w].cmd = "preview" => last[i] = None
  <2>1. SUFFICES ASSUME proc[w].cmd = "preview", last[i] # None
                 PROVE  FALSE
    OBVIOUS
  <2>2. PICK a \in Runs : PreviewedBy(a) /\ proc[a].id = i
    BY <1>9, <1>11, <2>1 DEF Offerer
  <2>3. a # w /\ PreviewedBy(a)' /\ proc'[a].id = i /\ PreviewedBy(w)'
    BY <1>3, <1>5, <2>1, <2>2
  <2>4. QED
    BY <1>2, <1>6, <2>3 DEF OwnIds
<1>14. \A p \in Runs \ {w} : ConfirmedBy(p) => proc[p].id # i
  BY <1>9, <1>11, <1>13 DEF Recorded
<1>15. ASSUME NEW p \in Runs
       PROVE  Recorded(p)'
  <2>1. CASE p = w
    BY <1>2, <1>5, <1>11, <1>12, <2>1 DEF Recorded
  <2>2. CASE p # w
    BY <1>3, <1>9, <1>12, <1>14, <2>2 DEF Recorded
  <2>3. QED
    BY <2>1, <2>2
<1>16. ASSUME NEW k \in Clock, last'[k] # None
       PROVE  \E a \in Runs : PreviewedBy(a)' /\ proc'[a].id = k
  <2>1. CASE k = i /\ proc[w].cmd = "preview"
    BY <1>2, <1>5, <2>1
  <2>2. CASE ~(k = i /\ proc[w].cmd = "preview")
    <3>1. last[k] # None
      BY <1>11, <1>12, <1>16, <2>2
    <3>2. PICK a \in Runs : PreviewedBy(a) /\ proc[a].id = k
      BY <1>9, <3>1 DEF Offerer
    <3>3. QED
      BY <1>3, <3>2
  <2>3. QED
    BY <2>1, <2>2
<1>17. \A p, q \in Runs : ConfirmedBy(p)' /\ ConfirmedBy(q)' /\ proc'[p].id = proc'[q].id => p = q
  BY <1>2, <1>3, <1>9, <1>14
<1>18. QED
  BY <1>15, <1>16, <1>17 DEF Offerer

(* A step that leaves the last table as it is, and reports neither a          *)
(* confirmation nor an offer.                                               *)
LEMMA OnceQuiet ==
  ASSUME CliInv, OnceInv, NEW p \in Runs, Runs1(p), last' = last, UNCHANGED since \/ Behind(p),
         proc[p].stage # "done",
         proc'[p].stage = "done" => proc'[p].said \notin {"confirmed", "awaiting_confirmation"},
         WillSay(p)'
  PROVE  OnceInv'
<1>1. \A r \in Runs : since[r] \subseteq since'[r]
  BY DEF Behind, CliInv, CliTypes
<1>2. ~ConfirmedBy(p) /\ ~PreviewedBy(p) /\ ~ConfirmedBy(p)' /\ ~PreviewedBy(p)'
  BY DEF ConfirmedBy, PreviewedBy
<1>3. QED
  BY <1>1, <1>2, OnceKept

LEMMA OnceLoad ==
  ASSUME CliInv, OnceInv, NEW p \in Runs, Load(p)
  PROVE  OnceInv'
<1>1. CliTypes /\ proc[p].stage = "idle" /\ UNCHANGED <<since, last>> /\ file.table \in Tables
  BY DEF Load, CliInv, CliTypes
<1>2. PICK cmd \in {"preview", "confirm", "status"}, t \in Tables, s \in {"failed", "loaded"},
           a \in {"error", "nothing"} : proc' = [proc EXCEPT ![p] = Process(s, cmd, 0, t, a)]
  BY <1>1, EmptySound DEF Load
<1> DEFINE c == Process(s, cmd, 0, t, a)
<1>3. c \in Processes /\ c.stage = s
  BY ProcessParts DEF CliStages, Commands, Answers
<1> HIDE DEF c
<1>4. Runs1(p) /\ proc'[p].stage = s
  BY <1>1, <1>2, <1>3, RunsTo DEF c
<1>5. WillSay(p)'
  BY <1>4 DEF WillSay
<1>6. QED
  BY <1>1, <1>4, <1>5, OnceQuiet

LEMMA OnceActs ==
  ASSUME CliInv, OnceInv, NEW p \in Runs, proc[p].stage = "loaded",
         NEW s \in {"saving", "done", "failed"}, NEW i \in Clock \cup {0}, NEW t \in Tables,
         NEW a \in Answers, Acts(p, s, i, t, a),
         s = "saving" => \/ proc[p].cmd = "preview" /\ a = "nothing"
                         \/ proc[p].cmd = "confirm" /\ a = "confirmed",
         s = "done" => a \notin {"awaiting_confirmation", "confirmed"}
  PROVE  OnceInv'
<1> DEFINE c == Process(s, proc[p].cmd, i, t, a)
<1>1. CliTypes /\ proc[p].cmd \in Commands /\ proc \in [Runs -> Processes]
  BY DEF CliInv, CliTypes, Processes
<1>2. /\ c \in Processes /\ c.stage = s /\ c.cmd = proc[p].cmd /\ c.id = i /\ c.table = t
      /\ c.said = a
  BY <1>1, ProcessParts DEF CliStages
<1>3. proc' = [proc EXCEPT ![p] = c] /\ UNCHANGED <<since, last>>
  BY <1>1 DEF Acts, history
<1> HIDE DEF c
<1>4. Runs1(p) /\ proc'[p] = c
  BY <1>1, <1>2, <1>3, RunsTo
<1>5. WillSay(p)'
  BY <1>2, <1>4 DEF WillSay
<1>6. QED
  BY <1>2, <1>3, <1>4, <1>5, OnceQuiet

LEMMA OncePreview ==
  ASSUME CliInv, OnceInv, NEW p \in Runs, PreviewCommand(p)
  PROVE  OnceInv'
<1> DEFINE t == proc[p].table
<1>1. proc[p].stage = "loaded" /\ proc[p].cmd = "preview" /\ t \in Tables
  BY LoadedCopy DEF PreviewCommand
<1> HIDE DEF t
<1>2. CASE Acts(p, "failed", 0, t, "error")
  BY <1>1, <1>2, OnceActs DEF Answers
<1>3. CASE Acts(p, "done", 0, t, Previewed(None).failure)
  BY <1>1, <1>3, PreviewFailure, OnceActs DEF Answers
<1>4. ASSUME NEW h \in Hashes, Acts(p, "saving", now, [t EXCEPT ![now] = Previewed(h)], "nothing")
      PROVE  OnceInv'
  <2> DEFINE later == [t EXCEPT ![now] = Previewed(h)]
  <2>1. Previewed(h) \in Records /\ now \in Clock
    BY RecordTyped, PreviewedOffers DEF States, Failures, CliInv, CliTypes
  <2>2. later \in Tables
    BY <1>1, <2>1 DEF Tables
  <2>3. Acts(p, "saving", now, later, "nothing")
    BY <1>4
  <2> HIDE DEF later
  <2>4. QED
    BY <1>1, <2>1, <2>2, <2>3, OnceActs DEF Answers
<1>5. QED
  BY <1>2, <1>3, <1>4 DEF PreviewCommand, t

LEMMA OnceConfirm ==
  ASSUME CliInv, OnceInv, NEW p \in Runs, ConfirmCommand(p)
  PROVE  OnceInv'
<1> DEFINE t == proc[p].table
<1>1. proc[p].stage = "loaded" /\ proc[p].cmd = "confirm" /\ t \in Tables
  BY LoadedCopy DEF ConfirmCommand
<1>2. PICK i \in Clock, h \in Hashes, sure \in BOOLEAN :
        IF t[i] = None
        THEN Acts(p, "failed", i, t, "error")
        ELSE LET d == Decide(t[i], sure, h)
             IN  Acts(p, IF d.answer = "confirmed" THEN "saving" ELSE "done", i,
                      [t EXCEPT ![i] = d.rec], d.answer)
  BY DEF ConfirmCommand
<1> HIDE DEF t
<1>3. CASE t[i] = None
  BY <1>1, <1>2, <1>3, OnceActs DEF Answers
<1>4. CASE t[i] # None
  <2> DEFINE d == Decide(t[i], sure, h)
             later == [t EXCEPT ![i] = d.rec]
             s == IF d.answer = "confirmed" THEN "saving" ELSE "done"
  <2>1. t[i] \in Records
    BY <1>1, <1>4 DEF Tables
  <2>2. Acts(p, s, i, later, d.answer)
    BY <1>2, <1>4
  <2>3. \/ d.rec = t[i] /\ d.answer \in {"confirmation_required", "already_finalized"}
        \/ /\ h = t[i].snapshot /\ d.answer = "confirmed"
           /\ d.rec = Record("confirmed", t[i].snapshot, h, t[i].failure)
        \/ /\ d.answer = "state_changed"
           /\ d.rec = Record("failed", t[i].snapshot, h, "state_changed")
    BY <2>1, DecideCases
  <2> HIDE DEF d
  <2>4. d.answer \in Answers /\ s \in {"saving", "done"} /\ (s = "saving" <=> d.answer = "confirmed")
        /\ d.answer # "awaiting_confirmation"
    BY <2>3 DEF Answers
  <2>5. d.rec \in Records
    BY <2>1, <2>3 DEF Record, Records, States, Failures
  <2>6. later \in Tables
    BY <1>1, <2>5 DEF Tables
  <2> HIDE DEF later, s
  <2>7. QED
    BY <1>1, <2>2, <2>4, <2>6, OnceActs
<1>5. QED
  BY <1>3, <1>4

LEMMA OnceStatus ==
  ASSUME CliInv, OnceInv, NEW p \in Runs, StatusCommand(p)
  PROVE  OnceInv'
<1> DEFINE t == proc[p].table
<1>1. proc[p].stage = "loaded" /\ t \in Tables
  BY LoadedCopy DEF StatusCommand
<1>2. PICK i \in Clock : Acts(p, "failed", i, t, "error") \/ Acts(p, "done", i, t, "status")
  BY DEF StatusCommand
<1> HIDE DEF t
<1>3. QED
  BY <1>1, <1>2, OnceActs DEF Answers

LEMMA OnceEnds ==
  ASSUME CliInv, OnceInv, NEW p \in Runs, SaveFails(p) \/ Truncate(p) \/ WriteFails(p) \/ Kill(p)
  PROVE  OnceInv'
<1>1. PICK s \in {"failed", "writing", "killed"} :
        proc' = [proc EXCEPT ![p].stage = s] /\ (s = "writing" => proc[p].stage = "saving")
  BY DEF SaveFails, Truncate, WriteFails, Kill
<1>2. /\ Runs1(p) /\ proc'[p].stage = s /\ proc'[p].cmd = proc[p].cmd
      /\ proc'[p].said = proc[p].said
  BY <1>1, StageTo DEF CliStages
<1>3. /\ proc[p].stage # "done" /\ last' = last
      /\ UNCHANGED since \/ Behind(p)
  BY DEF SaveFails, Truncate, WriteFails, Kill, Alive, history
<1>4. WillSay(p)'
  BY <1>1, <1>2 DEF OnceInv, WillSay
<1>5. QED
  BY <1>2, <1>3, <1>4, OnceQuiet

(* Every step of the command line keeps the record of what was reported.      *)
LEMMA OnceNext ==
  ASSUME CliInv, OnceInv, [CliNext]_cliVars
  PROVE  OnceInv'
<1>1. CASE UNCHANGED <<proc, since, last>>
  BY <1>1 DEF OnceInv, WillSay, Recorded, Offerer, ConfirmedOnce, ConfirmedBy, PreviewedBy,
              NoOverlap, OwnIds
<1>2. ASSUME NEW p \in Runs, Command(p)
      PROVE  OnceInv'
  BY <1>2, OnceLoad, OncePreview, OnceConfirm, OnceStatus, OnceEnds, OnceWrite DEF Command
<1>3. QED
  BY <1>1, <1>2 DEF CliNext, Tick, history, cliVars

LEMMA OnceInit == CliInit => OnceInv
<1> SUFFICES ASSUME CliInit PROVE OnceInv
  OBVIOUS
<1>1. \A p \in Runs : proc[p].stage = "idle"
  BY DEF CliInit, Process
<1>2. \A i \in Clock : last[i] = None
  BY DEF CliInit, EmptyTable
<1>3. QED
  BY <1>1, <1>2 DEF OnceInv, WillSay, Recorded, Offerer, ConfirmedOnce, ConfirmedBy, PreviewedBy

(* "exactly_once" (crates/core/src/txn.rs:10) of the command line: while no   *)
(* process writes over another one's save, and no two previews share a        *)
(* millisecond, a transaction is confirmed at most once.                      *)
THEOREM ConfirmedAtMostOnce == CliSpec => []ConfirmedOnce
<1>1. CliInit => OnceInv
  BY OnceInit
<1>2. CliInv /\ OnceInv /\ [CliNext]_cliVars => OnceInv'
  BY OnceNext
<1>3. OnceInv => ConfirmedOnce
  BY DEF OnceInv
<1>4. CliSpec => []CliInv
  BY CliInvariance
<1>5. QED
  BY <1>1, <1>2, <1>3, <1>4, PTL DEF CliSpec

-----------------------------------------------------------------------------
(* A behaviour of the instances is one of each driver, one of which rests.     *)
LEMMA DriversApart == MCSpec => GatewaySpec /\ CliSpec
<1>1. MCInit => GatewayInit /\ CliInit
  BY DEF MCInit
<1>2. [MCNext]_<<gatewayVars, cliVars>> => [GatewayNext]_gatewayVars /\ [CliNext]_cliVars
  BY DEF MCNext
<1>3. QED
  BY <1>1, <1>2, PTL DEF MCSpec, GatewaySpec, CliSpec

(* Both drivers keep their types and what the records of their tables say of   *)
(* the decisions (crates/siyuanmasterd/src/main.rs:504-712,                    *)
(* crates/siyuanmaster/src/main.rs:224-387).                                   *)
THEOREM TransactionsTypeCorrect == MCSpec => []TransactionsTypeOK
<1>1. GatewayTypeOK /\ CliTypeOK => TransactionsTypeOK
  BY DEF TransactionsTypeOK
<1>2. QED
  BY <1>1, DriversApart, GatewayTypeCorrect, CliTypeCorrect, PTL
=============================================================================
