----------------------------- MODULE TxnMachine -----------------------------
(***************************************************************************)
(* The transaction state machine of crates/core/src/txn.rs, which the      *)
(* gateway siyuanmasterd and the command line siyuanmaster both drive.     *)
(* Hashes are opaque; None is a hash that was not given.                   *)
(***************************************************************************)
CONSTANTS Hashes, None

States == {"previewed", "awaiting_confirmation", "confirmed", "executing",
           "verifying", "committed", "failed", "unknown"}

Terminal == {"committed", "failed", "unknown"}

Failures == {"none", "snapshot_failed", "state_changed", "readback_mismatch"}

Record(state, snapshot, current, failure) ==
  [state |-> state, snapshot |-> snapshot, current |-> current, failure |-> failure]

Records == [state : States \cup {"created"}, snapshot : Hashes \cup {None},
            current : Hashes \cup {None}, failure : Failures]

ASSUME MachineAssumption == None \notin Hashes \cup Records

NewRecord == Record("created", None, None, "none")

(* The transition table: from, event, to, and the failure that the step   *)
(* records.  There is no way to "verifying", and none out of a terminal    *)
(* state.                                                                  *)
Table ==
  { <<"created",               "prepare",         "previewed",             "none">>,
    <<"previewed",             "snapshot_failed", "failed",                "snapshot_failed">>,
    <<"previewed",             "snapshot_ok",     "awaiting_confirmation", "none">>,
    <<"awaiting_confirmation", "confirm",         "confirmed",             "none">>,
    <<"confirmed",             "state_mismatch",  "failed",                "state_changed">>,
    <<"confirmed",             "execute",         "executing",             "none">>,
    <<"executing",             "readback_ok",     "committed",             "none">>,
    <<"executing",             "readback_failed", "failed",                "readback_mismatch">>,
    <<"executing",             "uncertain",       "unknown",               "none">> }

Accepts(rec, event) == \E t \in Table : t[1] = rec.state /\ t[2] = event

(* The record after an event that it accepts. *)
After(rec, event) ==
  LET t == CHOOSE t \in Table : t[1] = rec.state /\ t[2] = event
  IN  Record(t[3], rec.snapshot, rec.current, IF t[4] = "none" THEN rec.failure ELSE t[4])

(* Both drivers' preview: without a hash the snapshot has failed, and the *)
(* record is dropped.                                                      *)
Previewed(hash) ==
  IF hash = None
  THEN After(After(NewRecord, "prepare"), "snapshot_failed")
  ELSE After(Record("previewed", hash, None, "none"), "snapshot_ok")

(* Faulty: the hash that the client saw is not compared. *)
DecideUncompared(rec, confirmed, hash) ==
  CASE ~confirmed -> [rec |-> rec, answer |-> "confirmation_required"]
    [] confirmed /\ ~Accepts(rec, "confirm") -> [rec |-> rec, answer |-> "already_finalized"]
    [] OTHER -> [rec |-> Record("confirmed", rec.snapshot, hash, "none"), answer |-> "confirmed"]

(* Both drivers' confirm: without the user's approval nothing changes; a  *)
(* record confirms once; a hash that differs from the snapshot's fails it. *)
Decide(rec, confirmed, hash) ==
  LET sure  == After(rec, "confirm")
      noted == Record(sure.state, sure.snapshot, hash, sure.failure)
  IN  CASE ~confirmed ->
             [rec |-> rec, answer |-> "confirmation_required"]
        [] confirmed /\ ~Accepts(rec, "confirm") ->
             [rec |-> rec, answer |-> "already_finalized"]
        [] confirmed /\ Accepts(rec, "confirm") /\ rec.snapshot # hash ->
             [rec |-> After(noted, "state_mismatch"), answer |-> "state_changed"]
        [] confirmed /\ Accepts(rec, "confirm") /\ rec.snapshot = hash ->
             [rec |-> noted, answer |-> "confirmed"]
=============================================================================
