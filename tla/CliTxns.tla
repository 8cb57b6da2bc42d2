------------------------------- MODULE CliTxns -------------------------------
(***************************************************************************)
(* The txn subcommands of the command line, crates/siyuanmaster/src/main.rs*)
(* over the store file of crates/core/src/txn.rs.  Every command is a      *)
(* process: it loads the whole file, acts on its copy and, perhaps, writes *)
(* the whole copy back.  There is no lock, and std::fs::write empties the  *)
(* file before it writes.  Processes overlap, fail and are killed.         *)
(*                                                                         *)
(* An id is made of the milliseconds of the clock and of a counter that    *)
(* starts at zero in every process: here it is the clock.                  *)
(***************************************************************************)
EXTENDS TxnMachine, Naturals, FiniteSets

CONSTANTS
  Runs,       \* processes
  MaxClock    \* bound: the clock

ASSUME CliAssumption == MaxClock \in Nat \ {0}

Clock == 1..MaxClock

VARIABLES
  file,       \* the store: absent, a table, or not to be parsed
  now,        \* the clock
  proc,       \* the processes
  since,      \* history: who changed the file since a process loaded it
  before,     \* history: the processes that had ended when one began
  stored,     \* history: processes whose table the file held as a whole
  last        \* history: the last table that the file held

history == <<since, before, stored, last>>
cliVars == <<file, now, proc, history>>

Tables == [Clock -> Records \cup {None}]
EmptyTable == [i \in Clock |-> None]

(* An emptied file and one with the rest of a longer text are unreadable. *)
Store(state, table) == [state |-> state, table |-> table]
Unreadable == {"empty", "garbled"}

Process(stage, cmd, id, table, said) ==
  [stage |-> stage, cmd |-> cmd, id |-> id, table |-> table, said |-> said]

CliStages == {"idle", "loaded", "saving", "writing", "done", "failed", "killed"}

CliInit ==
  /\ file = Store("absent", EmptyTable)
  /\ now = 1
  /\ proc = [p \in Runs |-> Process("idle", "none", 0, EmptyTable, "nothing")]
  /\ since = [p \in Runs |-> {}]
  /\ before = [p \in Runs |-> {}]
  /\ stored = {}
  /\ last = EmptyTable

(* A process that has loaded and has not ended falls behind a writer. *)
Alive(p) == proc[p].stage \in {"loaded", "saving", "writing"}
Behind(writer) ==
  since' = [p \in Runs |-> IF p # writer /\ Alive(p) THEN since[p] \cup {writer} ELSE since[p]]

Began(p) == before' = [before EXCEPT ![p] = {q \in Runs : proc[q].stage = "done"}]

Tick ==
  /\ now < MaxClock
  /\ now' = now + 1
  /\ UNCHANGED <<file, proc, history>>

(* Faulty: a store that cannot be parsed is taken for an empty one. *)
LoadForgiving(p) ==
  /\ proc[p].stage = "idle"
  /\ \E cmd \in {"preview", "confirm", "status"} :
       proc' = [proc EXCEPT ![p] = Process("loaded", cmd, 0,
                  IF file.state = "table" THEN file.table ELSE EmptyTable, "nothing")]
  /\ Began(p)
  /\ UNCHANGED <<file, now, since, stored, last>>

(* load_json: a missing file is an empty store, and one that cannot be    *)
(* parsed ends the command.                                                *)
Load(p) ==
  /\ proc[p].stage = "idle"
  /\ \E cmd \in {"preview", "confirm", "status"} :
       proc' = [proc EXCEPT ![p] =
                  IF file.state \in Unreadable
                  THEN Process("failed", cmd, 0, EmptyTable, "error")
                  ELSE Process("loaded", cmd, 0, file.table, "nothing")]
  /\ Began(p)
  /\ UNCHANGED <<file, now, since, stored, last>>

(* The command ends, having said so; or it has something to save. *)
Acts(p, stage, id, table, said) ==
  /\ proc' = [proc EXCEPT ![p] = Process(stage, @.cmd, id, table, said)]
  /\ UNCHANGED <<file, now, history>>

(* txn_preview: the request is not valid, it has no hash, or a record is  *)
(* inserted under a new id; the answer waits for the save.                 *)
PreviewCommand(p) ==
  /\ proc[p].stage = "loaded" /\ proc[p].cmd = "preview"
  /\ \/ Acts(p, "failed", 0, proc[p].table, "error")
     \/ Acts(p, "done", 0, proc[p].table, Previewed(None).failure)
     \/ \E h \in Hashes :
          Acts(p, "saving", now, [proc[p].table EXCEPT ![now] = Previewed(h)], "nothing")

(* txn_confirm: of its outcomes only the confirmation is saved, after it  *)
(* was printed.                                                            *)
ConfirmCommand(p) ==
  /\ proc[p].stage = "loaded" /\ proc[p].cmd = "confirm"
  /\ \E i \in Clock, h \in Hashes, confirmed \in BOOLEAN :
       IF proc[p].table[i] = None
       THEN Acts(p, "failed", i, proc[p].table, "error")
       ELSE LET d == Decide(proc[p].table[i], confirmed, h)
            IN  Acts(p, IF d.answer = "confirmed" THEN "saving" ELSE "done", i,
                     [proc[p].table EXCEPT ![i] = d.rec], d.answer)

StatusCommand(p) ==
  /\ proc[p].stage = "loaded" /\ proc[p].cmd = "status"
  /\ \E i \in Clock :
       IF proc[p].table[i] = None
       THEN Acts(p, "failed", i, proc[p].table, "error")
       ELSE Acts(p, "done", i, proc[p].table, "status")

(* Faulty: a save that fails goes unnoticed. *)
SaveFailsUnseen(p) ==
  /\ proc[p].stage = "saving"
  /\ proc' = [proc EXCEPT ![p].stage = "done", ![p].said = IF @ = "nothing" THEN "awaiting_confirmation" ELSE @]
  /\ UNCHANGED <<file, now, history>>

(* save_json: the file cannot be opened. *)
SaveFails(p) ==
  /\ proc[p].stage = "saving"
  /\ proc' = [proc EXCEPT ![p].stage = "failed"]
  /\ UNCHANGED <<file, now, history>>

(* It is opened, which empties it. *)
Truncate(p) ==
  /\ proc[p].stage = "saving"
  /\ file' = Store("empty", EmptyTable)
  /\ proc' = [proc EXCEPT ![p].stage = "writing"]
  /\ Behind(p)
  /\ UNCHANGED <<now, before, stored, last>>

(* The text is written from the start of the file.  If another process    *)
(* wrote in between, what is longer in its text stays behind this one.     *)
Write(p) ==
  /\ proc[p].stage = "writing"
  /\ \/ /\ file' = Store("table", proc[p].table)
        /\ stored' = stored \cup {p}
        /\ last' = proc[p].table
     \/ /\ file.state # "empty"
        /\ file' = Store("garbled", EmptyTable)
        /\ UNCHANGED <<stored, last>>
  /\ proc' = [proc EXCEPT ![p].stage = "done",
                          ![p].said = IF @ = "nothing" THEN "awaiting_confirmation" ELSE @]
  /\ Behind(p)
  /\ UNCHANGED <<now, before>>

(* It is written in part: the disk is full. *)
WriteFails(p) ==
  /\ proc[p].stage = "writing"
  /\ file' = Store("garbled", EmptyTable)
  /\ proc' = [proc EXCEPT ![p].stage = "failed"]
  /\ Behind(p)
  /\ UNCHANGED <<now, before, stored, last>>

Kill(p) ==
  /\ Alive(p)
  /\ proc' = [proc EXCEPT ![p].stage = "killed"]
  /\ UNCHANGED <<file, now, history>>

Command(p) ==
  \/ Load(p) \/ PreviewCommand(p) \/ ConfirmCommand(p) \/ StatusCommand(p)
  \/ SaveFails(p) \/ Truncate(p) \/ Write(p) \/ WriteFails(p) \/ Kill(p)

CliNext == Tick \/ \E p \in Runs : Command(p)

CliSpec == CliInit /\ [][CliNext]_cliVars

-----------------------------------------------------------------------------

Answers == {"nothing", "error", "snapshot_failed", "awaiting_confirmation", "status",
            "confirmation_required", "already_finalized", "state_changed", "confirmed"}

(* The store holds records on offer and confirmed ones, the latter on the *)
(* hash they were offered with.                                            *)
(* (crates/siyuanmaster/src/main.rs:224-387, crates/core/src/txn.rs:316)   *)
CliTypeOK ==
  /\ file.state \in {"absent", "table"} \cup Unreadable
  /\ now \in Clock
  /\ \A p \in Runs : proc[p].stage \in CliStages /\ proc[p].said \in Answers
  /\ since \in [Runs -> SUBSET Runs]
  /\ \A i \in Clock : file.table[i] # None =>
       /\ file.table[i] \in Records
       /\ file.table[i].state \in {"awaiting_confirmation", "confirmed"}
       /\ file.table[i].state = "confirmed" => file.table[i].current = file.table[i].snapshot

(* A record is gone, or is another one, or was decided and is not. *)
Forgets(table, later) ==
  \E i \in Clock :
    /\ table[i] # None
    /\ later[i] # table[i]
    /\ ~(/\ table[i].state = "awaiting_confirmation"
         /\ later[i] # None /\ later[i].state = "confirmed" /\ later[i].snapshot = table[i].snapshot)

(* The store changes only at the hands of a process that has emptied it   *)
(* to write.  Such a process ends with the store unreadable only if it was *)
(* killed, or the disk was full, before its text was whole, or another     *)
(* process wrote meanwhile.  It ends with a table that forgets a           *)
(* transaction or a decision of the last one only if another process wrote *)
(* since it loaded, or if its preview fell into the millisecond of the     *)
(* transaction it replaces: so a store that was lost stays unreadable, and *)
(* is not taken for an empty one.                                          *)
(* (crates/siyuanmaster/src/main.rs:231, crates/core/src/txn.rs:269-331)   *)
ForgettingHasCause ==
  [][/\ file' # file => \E p \in Runs : "writing" \in {proc[p].stage, proc'[p].stage}
     /\ \A p \in Runs :
          proc[p].stage = "writing" /\ proc'[p].stage # "writing" /\ since[p] = {} =>
            /\ file'.state # "table" => proc'[p].stage \in {"killed", "failed"}
            /\ file'.state = "table" /\ Forgets(last, file'.table) =>
                 proc[p].cmd = "preview" /\ last[proc[p].id] # None]_cliVars

(* A command that reports success has stored what it reports, unless      *)
(* another one saved meanwhile.                                            *)
(* (crates/siyuanmaster/src/main.rs:280-292 and 353-364)                   *)
SuccessIsStored ==
  \A p \in Runs :
    proc[p].stage = "done" /\ proc[p].said \in {"awaiting_confirmation", "confirmed"}
      => p \in stored \/ since[p] # {}

(* "exactly_once: a finalized transaction rejects every further event"    *)
(* (crates/core/src/txn.rs:10): a command that begins after another one    *)
(* has failed a transaction for its hash does not confirm it.              *)
FailedStaysFailed ==
  \A p \in Runs : \A q \in before[p] :
    proc[q].said = "state_changed" /\ proc[p].said = "confirmed" => proc[p].id # proc[q].id
=============================================================================
