# SiYuan Master: TLA+ specifications

SiYuan Master is a plugin for the SiYuan note application. Its kernel half runs
inside SiYuan's kernel process and registers tools an AI agent may call: read
and search notes, append, edit and replace text, tag, rename, move and delete
documents, register knowledge sources. The user grants permissions per
operation and per notebook in a policy. The plugin keeps the policy, an audit
log and a knowledge registry in SiYuan's storage, which it reaches through host
calls that may be slow, fail, or never answer. A window half (dock and settings)
edits the policy. A Rust workspace beside it holds a transaction state machine,
a gateway and a CLI.

This directory models the parts of that program whose correctness depends on
the order of events: the storage and its deadline queue, the windows that edit
the policy, the tools that write notes, the tools that change the document tree,
the registry of knowledge sources, the transactions of the Rust gateway and
command line, and the two scripts that act on a user's SiYuan. All paths below
are relative to the repository, which the modules and `PROJECT.json` prefix with
`src/`.

## 1. Inventory

| Component | State it keeps | Operations | What is hard |
|---|---|---|---|
| Policy task queue (`src/policy-sync.ts`) | promise chain `tail`, counter `inFlight`, a deadline and a timer per call | `run`, `task.wait`, `task.check`, `isPolicyTimeout` | a host call cannot be cancelled: a timed-out call leaves a request in flight; microtasks race timers |
| Policy storage (`src/policy-storage.ts`, `src/storage-state.ts`) | `active`, `loadState`, the published policy, `saveState` | `reload`, `save` | late puts, lost puts, unreadable files, superseded calls that fail late |
| Storage migration (`src/migration.ts`) | policy file, audit file, marker; the same files in the legacy directory | `runStorageMigration`, run by every load | a crash between the copies and the marker; "missing" inferred from failed reads; markers of older versions |
| Audit store (`src/audit.ts`) | audit file, `writeQueue`, `writeFailures` | `record`, `list` | read-modify-write over two requests in a queue shared with the policy; must never fail the tool |
| Note write tools (`src/kernel.ts`, `src/edit-block.ts`, `src/document-readback.ts`) | the note, its tags | `update_note`, `edit_block`, `append_note`, `save_memory`, `create_note`, `apply_tags` | concurrent calls, user edits and policy changes across each `await`; errors that do not say whether the write happened; success of the body and failure of the tags |
| Safe Write Transaction (`src/write-transaction.ts`) | snapshot, result of each step | `runWriteTransaction` | drift between snapshot and execution; truthful outcome |
| Structure tools (`src/kernel.ts`, `src/structure-safety.ts`, `src/kernel-api.ts`) | preview tokens, the tree, the SQL index behind it | `rename_note`, `move_note`, `delete_note` | one-time tokens with concurrent executions; the index lags; bounded verification |
| Policy engine, configuration (`src/policy-engine.ts`, `src/config.ts`) | none | `evaluateOperation`, `planTags`, `isNotebookAllowed`, `normalizePolicy` | none by themselves: they are the guards of the tools |
| Plugin lifecycle (`src/kernel.ts`) | the published policy, the stores | `onload`, `onunload`, RPC binding | a restart with a put of the old instance in flight |
| Windows (`src/index.ts`, `src/siyuan-api.ts`) | each window's policy, queue, `pendingPolicyFingerprint`, dock state | `bootstrapPolicy`, `reload`, `save`, `refreshAll`, `policyChanged` | notifications against answers, several windows, answers after the window gave up |
| Knowledge registry (`src/knowledge-registry.ts`) | registry file, mutation chain `writeTail` | `snapshot`, `registerSource`, `registerAuthority`, behind `register_knowledge_source` and `register_wiki_authority` | read errors taken for "empty"; links kept on two sides; puts that outlive a restart; an access boundary that changes while a mutation waits |
| Read-only tools (`src/document-access.ts`, `src/document-tree.ts`, `src/kernel.ts`) | none | search, read, segments, tree, references | none: no state |
| Planning tools (`src/ingest-plan.ts`, `src/wiki-template.ts`, `src/pdf-conversion.ts`) | none | pure functions | case coverage of a decision table |
| Rust transactions (`crates/core/src/txn.rs`, `crates/siyuanmasterd`, `crates/siyuanmaster`) | transactions in a file (CLI) or in memory (gateway) | preview, confirm, status, audit | threads over a table and a log with a lock each; concurrent processes over one file without a lock; order of printing and saving |
| Rust helpers (`crates/core/src/*`) | none | hashing, windowing, refs, permissions | none by themselves |
| Development installer (`scripts/dev-local.ps1`) | plugin directory, backup, enabled flag | swap with restore | failure of any one step or two, a kill, a call carried out late |
| Write smoke test (`scripts/mcp-write-smoke.mjs`) | what it created and must delete | a note's life cycle, cleanup, report | lost answers, late writes, notes left behind |

How they interact. A tool call of the kernel reads the policy published by the
storage, makes host calls, and records an audit entry. Audit entries, policy
loads and policy saves share one `PolicyTaskQueue`, so that one host request at
a time touches the storage directory. Tool calls themselves are not serialised:
several run interleaved at their `await`s, against each other, the user and a
policy that may be replaced at any moment. Windows talk to the kernel by RPC
and are told of saves by a broadcast, which may fail without anybody being told. The
Rust gateway and command line are separate processes that share the transition
table and nothing else; the scripts talk to a running SiYuan.

What makes each component correct:

- queue: one host request at a time, orphans included; a caller is refused or
  given a raw timeout only for a cause; every caller is answered;
- storage and migration: fail closed; a policy on disk is never replaced by an
  older or a default one; what a save reports is true of the disk; the legacy
  directory is read once;
- audit: an append loses only the entries past its cutoff or beyond the cap; misses are
  counted;
- note writes: a refusal wrote nothing; a changed note is not overwritten; a
  committed transaction has been applied; permissions hold across the awaits;
- structure tools: at most one write per token; "verified" is true; permissions
  hold across the awaits; the verification is bounded;
- registry: links agree on both sides, a document has one role, an ingested source
  has a page, answers stay inside the access boundary (but for the container that a page
  keeps), records are not lost;
- windows: what dock and dialog say is true of the kernel; a window shows an old
  policy only for a cause; the dock does not stay on "synchronizing";
- Rust transactions: a transaction is decided once, and confirmed exactly if the request
  names the hash of its preview; the audit log shows what was answered; the store forgets only for a cause;
- scripts: the old plugin is never lost and only it is enabled again; both say
  truly what they leave behind.

`PROJECT.json` lists the hazards, each at its line, with the properties that
would catch it.

## 2. Modules

    WriteOwnership  <--refines--  PolicyTaskQueue  <--extends--  PolicyStorage
    SafeWrite       <--refines--  NoteWrites
    OneTimeTickets  <--refines--  StructureTools
    KnowledgeRegistry
    PolicySync
    DecideOnce      <--refines--  GatewayTxns  --extends-->  TxnMachine  <--extends--  CliTxns
    WriteSmoke, DevInstall

| Module | What it is |
|---|---|
| `WriteOwnership` | what the queue promises: the storage has at most one owner, from the start of a call until its host request has settled |
| `PolicyTaskQueue` | `policy-sync.ts`, microtask by microtask |
| `PolicyStorage` | `policy-storage.ts`, `migration.ts`, `storage-state.ts`, `audit.ts`, composed with the queue: every action is a queue action joined with what that code does in it |
| `SafeWrite` | what the write tools promise: refused means never written, committed means applied, a write at most once |
| `NoteWrites` | the note tools of `kernel.ts` with `write-transaction.ts`, `edit-block.ts` and the tagging they run |
| `OneTimeTickets` | what the preview tokens promise |
| `StructureTools` | `rename_note`, `move_note`, `delete_note`, over a tree and an index that follows it |
| `KnowledgeRegistry` | the registry's store and the two tools that change it |
| `PolicySync` | windows with their queues over the kernel's policy service |
| `TxnMachine` | the transition table of `txn.rs` and the two decisions its drivers take on it |
| `DecideOnce` | what a transaction service promises its clients |
| `GatewayTxns` | the threads of `siyuanmasterd` over the table and the audit log |
| `CliTxns` | the `txn` commands of `siyuanmaster` over their store file |
| `WriteSmoke`, `DevInstall` | the write smoke test and the local installer |
| `MC*` | definitions used only by the model-checking configurations |
| `*Proofs` | theorems and their proofs: of the queue, the storage, the registry, the note tools, the structure tools, the windows, the Rust transactions and the scripts |

Operators with the comment "Faulty ..." are plausible wrong versions of the
operator that follows them. No specification uses them. Substituted for the
right one, each makes a property of a run fail; `PROJECT.json` lists which.

### PolicyTaskQueue

`run` appends a call to a promise chain and arms a timer. The action of a call
makes host requests through `task.wait`, which races the request against the
timer; when the timer wins the request goes on, and only `inFlight` remembers
it. One TLA+ action is one microtask, or one macrotask (a timer, an
answer of the host); macrotasks run when no microtask is pending (`Quiescent`).
`queue` is the chain `tail`; `phase` is where a call stands between two
microtasks; `late` says that the clock has passed the call's deadline, `ended`
that its timer has fired (the two differ: `check()` reads the clock, and the
clock may pass the deadline between two microtasks). All calls have the same
timeout, so deadlines pass in call order. `answer` is what the last
`task.wait` gave the action; the action then may wait again, return, throw, or
swallow the error. A call in `Straying` also awaits something that is not a
`task.wait` and that no deadline reaches; the raw timeout is for those.

### PolicyStorage

`Reloads`, `Saves` and `Audits` partition the queue's calls. `pc` is the last
request a call made, `mem` what it has read. A request is asked (`Ask`, the
queue's `Wait`), sent (`Send`), takes effect if it is a put (`PutLands`) and is
answered (`Reply`); these come apart, so a put may land after its caller timed
out, an error may follow a put that landed, and with `HostDrops` a put may be
acknowledged and lost. `NextOfLoad` and `MigrationRefuses` are the decisions of
`runStorageMigration`; `Enter` is the start of `execute`, `Return` its
continuation, which runs a microtask after the queue settled the call: hence
`catching`, and hence a successor that has already overwritten `active` when the
catch block of its predecessor runs. `Crash` kills the process with its host; the
disk stays.

Data: a policy is the name of the call that saved it, or `"stored"`, `"legacy"`,
`"default"`; normalisation and the fingerprint become equality of names. An
audit entry is the call that appends it. A file that exists and cannot be read
or parsed is `"corrupt"`. Reading a file (get, directory probe, parse) is one
request, because the queue serves one request at a time and nothing else writes
the directory; in the code it is two to four host requests. It answers what the file
holds, or that it is missing, or with an error, which stands for a `get` that failed while
the directory could not be listed or still named the file. An append computes its cutoff
before it reads the log: `retained` is how many of the newest entries are not past it, any
number, since the clock and the retention days decide. The entries are taken to be in the
order of their times, so that the expired ones are the oldest; a clock that was set back
between two entries is not modelled. The audit's policy gate, which drops a record before the queue
is reached, is left out: `Audits` are the records that pass it.

### NoteWrites

One action is what a call does between two awaits. The note's content is the
name of its last replacement and the set of appends since, so two equal contents
have the same history. A body write is sent, is applied at most once, and is
answered, in any order; an error says nothing of the effect. The user edits the
note and publishes policies. `slice` is the copy of the decision `edit_block`
takes; `needs` is `requireConfirmation`; `snap` the transaction's snapshot;
`inForce` (the policies in force at some moment of a call) and `drifted` are history
variables. A policy says whether the operation is allowed, how tags are applied, and
whether the notebook of the note is inside the access boundary. `assertDocumentAllowed` looks
the notebook up after its read has been answered (`ContextRead`), in the policy of that moment;
the operation is checked before and, by `edit_block` on its copy (`TakeSlice`), after it. The
note stays in its notebook; the structure tools model notes that move. The references of a block may
forbid an edit or make it need confirmation: both are free choices. `apply_tags`
reads the attribute, merges and writes the whole attribute back.

`edit_block` and `update_note` here address the same content, the note as one
block: the hardest case of drift, and the only one in which they meet.

### StructureTools

A preview reads the source row (and the target's), counts, and issues a token; an
execution checks the token and the policy synchronously, consumes the token, reads
the rows again, compares them with the preview's, and sends the write; then it
polls until the row shows the target, the attempts are used up, or the time is.
Reads are of the SQL index: `index` follows `tree` one row at a time and late
(`Reindex`). A document has the sequence of documents above it as its path; its
human path is their titles. A token is named by its preview call. SiYuan does not
apply a write that is impossible by then (`CanMove`). `inForce` (the policies in
force at some moment of a call) and `reached` (the tree has shown the target
since the token was consumed) are history variables. Assumed of SiYuan, from how
the code uses it: a rename changes the title, a move takes the descendants
along, a removal too, and the index copies the row of the tree at some time or never.

### KnowledgeRegistry

A call checks the documents it names (`Invoke`), waits for the mutations queued
before it and reads the registry (`Snapshot`), asks SiYuan which of the registered
documents are accessible, and queues its mutation with that answer (`Enqueue`).
At the head of the chain the mutation reads the file again and is refused or puts
a new registry (`Mutate`); the next one waits until the put is answered
(`PutSettles`), which may be an error whether it took effect (`PutLands`) or not.
`Normalized`, `Matches`, `SourceRefused`, `WithSource`, `AuthorityRefused` and
`WithAuthority` are the pure parts, in the order of the code. A file of a newer
schema refuses everything. `Restart` is `onunload` and `onload`: a new store with
an empty chain, while puts of the old one may still land (`left`). Assumed of the
host: a put that was answered takes no effect later. `blind` marks mutations whose
read failed, `inReach` the documents accessible at some time of a call, `kept` the container
a page keeps when it is registered again without one; these are history variables. An answer
names the record's document, those linked to it, its container, and the pages of the same
name, which may be any (`Rivals`). A registry is the records the properties tell apart; hashes
and URLs are names.

### PolicySync

The service that `PolicyStorage` models step by step is one step here, with the
outcomes of that module: a request succeeds; fails and falls back to the default
policy; expires in the kernel's queue and changes nothing; succeeds and is pushed,
but is answered "not ready" because the deadline passed between (`ServeSaveLate`);
or leaves a put out (`latePut`) that blocks the requests of this instance
(`fenced`) and not those of the next one (`Restart`). A window has its own
`PolicyTaskQueue`: `calls` with the running call first, `stage` of that call, and
the `rpc` that may outlive it. `Timeout` gives up; `OrphanSettles` drops the answer
that comes afterwards and frees the queue. `mail` are the pushes under way;
`pending` the last one that came while the window was starting, `finishing` the
reloads that wait for the notebooks. `missed` (windows a change may have passed
by) and the `inForce` and `written` fields of an RPC are history.

A window can show an old policy as confirmed, and the model says when
(`StaleHasCause`): the push failed; the put landed after its save had been
reported as uncertain; the push came while the window held an answer it had not
applied, and named the policy of the copy of that moment; or its bootstrap never
finished. The comment at `src/policy-storage.ts:78` counts on every window to
reload when it is notified; the third case is a notified window that does not.

### TxnMachine, GatewayTxns, CliTxns

`Table` is the transition table with the failure each row records; `After` the
record after an event, `Previewed` and `Decide` what both drivers do with it.
`verifying` has no way in, and `run_auto`, which no driver calls, is left out.

`GatewayTxns`: every request is a thread. What a thread does under one mutex is
one step, so a decision and its audit entry are two, with other threads between
them; the answer is sent after both. A restart empties both and cuts the
connections. A token is good for its endpoint or not. `Offered`, `Decider` and
`Told` map the gateway to `DecideOnce`: they read the requests, not the table, so
that a decision outlives the restart that forgets it. What a client asks for in
`DecideOnce` is the hash its request names: a transaction is offered on the hash of its
preview, and a decision compares that hash with the one of the deciding request.

`CliTxns`: every command is a process that loads the file, acts on its copy and
writes the copy back. `std::fs::write` is two steps, `Truncate` and `Write`: what
one process reads between them is an empty file, which ends its command, and what
two write into the same file may be garbled. Commands fail and are killed at every
step. Ids are made of the milliseconds of the clock and a counter that starts at
zero in every process, so two processes of one millisecond make the same id: here
the clock is the id.

### WriteSmoke, DevInstall

`WriteSmoke` is the smoke test's sequence of calls over one note. A write that
fails for the client was refused, carried out, or is still on its way
(`lateWrites`). `MarkDispatched` is the flag set before `create_note` is awaited,
on which the report of a possible leftover depends.

`DevInstall` is the installer's `try` and `catch`: `phase` is the step, `place`
what each directory holds. Every step may throw, and `Caught` is where the recovery
begins; every step of the recovery may fail and the next one goes on. A call of
`setPetalEnabled` that failed may be carried out later.

The two share nothing; `MCScripts` puts them in one run whose behaviours are of one
or of the other. `MCTransactions` does the same with gateway and command line.

## 3. Model-checking runs

`tlc -config <cfg> <module>`; two workers need about three minutes at most for each.

| Run | Configuration | Question | Result |
|---|---|---|---|
| `policy_queue` | `MCPolicyTaskQueue` | Does ownership of the storage survive timeouts, have refusals a cause, is every caller answered? | holds |
| `policy_storage` | `MCPolicyStorage` | Over eleven first states of the directory, a reload, a save and an invalid save, with lost and late puts and a crash: is the kernel's view of the disk true or closed? | holds |
| `storage_calls` | `MCStorageCalls` | An append against another append, a migrating reload or a save, with failing reads, late puts and a host that may never answer: is history kept, are misses counted, is every call answered? | holds |
| `note_writes` | `MCNoteWrites` | An update and a block edit, with an append or a tagging, a user edit and a policy change: do drift, permissions and outcomes mean what they say? | holds |
| `structure_tools` | `MCStructureTools` | A preview and two executions of its token, or one and a deletion, a user change, a policy change, a late index, a silent SiYuan: one write per token, permissions, truthful outcomes, does the verification end? | holds |
| `knowledge_registry` | `MCKnowledgeRegistry` | Two registrations of sources, one of a page, failing reads, a restart, a changing boundary: is the registry consistent, do answers stay inside the boundary, are records lost only for a cause? | holds |
| `policy_sync` | `MCPolicySync` | Two windows start, save and refresh over a kernel that restarts, fails, answers late or loses pushes: is what they say true, is an old copy explained, does the dock settle? | holds |
| `transactions` | `MCTransactions` | Racing requests of the gateway with a restart, three overlapping commands on one file: is a transaction decided once, does the log show what was answered, does the store forget only for a cause? | holds |
| `scripts` | `MCScripts` | The smoke test and the installer with failing, lost and late calls and kills: is the old plugin kept, is only it enabled again, are the reports true? | holds |
| `update_policy` | `MCUpdatePolicy` | Does an `update_note` follow a policy that was in force? | violated |
| `registry_reads` | `MCRegistryReads` | Does every write of the registry keep every record? | violated |
| `cli_confirm` | `MCCliConfirm` | Does a transaction that a command failed stay failed? | violated |

Properties, by the question they answer:

- *Queue.* `OwnershipSpec`: refinement of `WriteOwnership`. `RefusalsHaveCause`:
  no refusal without another call's orphan in flight, so `inFlight` never leaks,
  and no raw timeout unless the head of the chain does not settle, so a classified
  failure wins that race. `EveryCallSettles`.
- *Storage.* `FailClosed`: when no call is under way, the published policy is
  the one on disk, or the state is "unavailable" and the default rules.
  `StoredPolicyKept`: a policy on disk is replaced only by a saved one, an
  unreadable one never. `NotSavedNeverStored`, `SavedIsStored`: what a save
  reports. `LegacyReadOnlyOnce`. `HistoryKept`: a write adds one entry to
  the audit log that is on disk and takes away the entries past its cutoff and the oldest
  beyond the cap, no others. `MissesCounted`: a step that ends an audited call finds its entry in the log
  or counts it. `EveryCallAnswered`.
- *Note writes.* `DriftStopsWrite`: a note that changed between snapshot and
  recheck is not overwritten. `EditsFollowPolicy`: the permissions behind a write, that of
  the notebook and, but for `update_note`, that of the operation, were each given by a policy
  in force during the call.
  `ImplementsSafeWrite`: refused means never written, committed means applied.
- *Structure.* `WritesFollowPolicy`, `OutcomesTrue` (a refusal sent nothing, a
  verified result was reached by the tree, however late the index),
  `ImplementsTickets`, `VerificationEnds`.
- *Registry.* `RegistryConsistent`: of the file, after any order of
  registrations, failed reads and late puts, links agree on both sides, a document
  has one role and an ingested source a page. `AnswersAccessible`: an answer names only
  documents accessible at some time of its call, or the container its page keeps. `LossHasCause`:
  a write keeps every record and takes the next revision unless its read failed or a
  put outlived a restart; `RecordsKept` is the same without exceptions.
- *Windows.* `ReportsTrue`: a policy shown as confirmed was in force since the
  call began, "not saved" means nothing was written, "saved" that it was.
  `StaleHasCause`. `DivergenceOutlives`: the kernel comes to obey another policy
  than the one on disk only through a put of an unloaded instance. `DockSettles`.
- *Rust transactions.* `ImplementsDecideOnce`: one request decides a transaction, and
  confirms it exactly if it names the hash of the preview; `ReadsSeeAnswered`: a reader of the
  log is shown every request answered before, unless newer ones fill the list;
  `SuccessIsStored`: what a command reports is in the file unless another one saved
  meanwhile; `ForgettingHasCause`: a command that no other overlaps leaves the store
  unreadable only if it was killed or out of disk while it wrote, and a table without a
  transaction or a decision of the last one only if two previews fell into one millisecond; so
  a store that was lost is not taken for an empty one;
  `FailedStaysFailed`.
- *Scripts.* `SmokeReportsTrue`, `InstallReportsTrue`, `ReEnablesOldOnly`. The type
  invariant of the installer also says that the old plugin is at every moment in
  exactly one directory.

The type invariants are `TypeOK`, `StorageTypeOK`, `RegistryTypeOK`, `SyncTypeOK`,
`TransactionsTypeOK` and `ScriptsTypeOK`. Each is broken by a faulty version of an
action that leaves the parts of a state disagreeing.

### Bounds

Each bound is a constant, so that the specifications themselves are not bounded
by the instances.

- *Queue*: three calls, two waits each, one of them straying. Two calls give an
  orphan and its successor; the third makes the successor itself a predecessor,
  so that refusals, catch-up timers and a reopened queue occur in one behaviour.
- *Storage*: `MaxWaits = 20` exceeds the longest path of a call (a save that
  migrates makes 13 accesses, `CallsMakeFewAccesses`), so it never cuts one. Three calls; one crash, in
  any step: a second one adds nothing the first states of the directory do not
  contain, since these include each half-done migration. `MaxAudit = 3` stands
  for 2000: with two old entries the first append fills the log and the second
  is capped. `storage_calls` sets an append against one rival of three (another
  append, which `writeQueue` makes wait; a migrating reload; a save): the
  constraint `OneRival` ends a behaviour at its second rival. It has no
  crash, since who asked a process that died gets no answer; that the log is kept over crashes
  too, `AuditHistoryKept` shows (section 4).
- *Notes*: an update and an edit, and an append or a tagging as the rival; one
  user edit and one policy change, of three policies: one permits everything, and of
  the other two each forbids a confirmed call what the other permits, the operation or the
  notebook. `update_policy` has three policies that differ in the operation alone.
- *Structure*: two documents, one of them also the target; two notebooks, one of
  which a policy does not allow; one execution that is confirmed, and as its rival
  another execution that is not, or a deletion; one change by the user; two
  readbacks (the first and the last); the token may expire at any time. No
  instance has a rename and a move executed at once on two tokens.
- *Registry*: two sources and a page, so that each pair of kinds races and two
  sources meet before a page; four inputs of each kind, chosen to hit each way of
  finding a duplicate and each way of relinking; three first files (none, an
  ingested source with its page, a newer schema); one restart and one change of
  the boundary, in any step.
- *Windows*: two windows, three policies (one of them the default). A behaviour has
  one of three budgets: two saves, which may race; a save with a fault and a
  restart, which is what a put that outlives its instance takes; a refresh with a
  fault. A fault is a failure of the kernel, its storage, a push or an RPC.
- *Rust transactions*: of the gateway a preview, two confirmations and a reader,
  two hashes, a log of three entries of which a reader gets two, one restart. Of
  the command line three processes and two milliseconds: two overlapping ones lose
  a decision, a third finds what they left.
- *Scripts*: three reads of a visibility poll (first, between, last); nothing else
  is bounded.

The runs set `CHECK_DEADLOCK FALSE`: calls are made a bounded number of times,
after which the system rests.

### Fairness

- `PolicyTaskQueue`, `PolicyStorage`: weak fairness of each call's microtasks, of
  its timer and of the raw-timeout timer, and of the continuation of `execute`.
  The event loop runs its microtasks before anything else and runs expired
  timers. Nothing is assumed of the host: a request may stay unanswered for
  ever, and so may a straying promise.
- `StructureTools`: weak fairness of the verification deadline, of the timer a
  read races with, and of the pause between two reads. Nothing is assumed of
  SiYuan, of its index or of the write call. So `VerificationEnds` starts where
  the write has been answered: a write call that never answers holds its tool
  call for ever, in the model and in the code, which sets no deadline for it.
- `PolicySync`: weak fairness of the start of a call that is first in its window's
  queue, and of the timer of ten seconds. Nothing is assumed of the kernel, of the
  network or of the user, so `DockSettles` says what it says also when no RPC is ever
  answered. It is stated as "again and again not synchronizing", because every new
  call puts the dock on "synchronizing" again.
- `NoteWrites`, `KnowledgeRegistry`, the Rust modules and the scripts state no
  liveness: their awaits have no deadline, a thread of the gateway whose client hung
  up may stay where it is, and a script may be killed.

### Disagreements between the code and what it says

1. `update_policy`. `update_note` checks only `deny` before its awaits and
   decides on confirmation after them (`src/kernel.ts:1541`). With the policy
   `confirm` at the start and `deny` at the second reading, an unconfirmed
   update is written although neither policy permits it. `edit_block` checks both
   on one copy of the policy and is not affected (`EditsFollowPolicy` holds). There is no
   other way for an update to escape the policies' decision on its operation
   (`UpdatesDepartForCause`, section 4).
2. `registry_reads`. `readSnapshot` takes any error for an empty registry
   (`src/knowledge-registry.ts:381`), and `mutate` writes what follows from it: one
   failed read during a registration replaces the registry by one record and
   reports success. A test calls this "fails closed"
   (`tests/knowledge-registry.test.ts:88`); another expects concurrent writes
   "without losing records" (line 111). The policy and the audit log tell a missing
   file from an unreadable one before they write.
3. `cli_confirm`. `txn confirm` with a hash that differs fails its copy of the
   transaction, reports that, and does not save it
   (`crates/siyuanmaster/src/main.rs:334`): a later `txn confirm` with the first
   hash succeeds. "a finalized transaction rejects every further event"
   (`crates/core/src/txn.rs:10`) holds in the gateway.

Seen in the models, without a run of their own:

- Operation and notebook are checked on both sides of an await, perhaps on two policies
  (`src/kernel.ts:628`). An append that begins under "append allowed, this notebook denied"
  and is admitted under "append denied, this notebook allowed" is written although each of
  the two forbids it; so are an edit, a tagging and an update. `EditsFollowPolicy` therefore
  asks for one policy per permission, not for one that gives both.
- `registerAuthority` copies the source container of a page registered before
  (`src/knowledge-registry.ts:670`) into the record it returns, and nobody asks whether that
  document is still accessible, while every read removes it if it is not (line 827):
  `AnswersAccessible` has to except it (`kept`).
- `std::fs::write` empties the store before it writes (`crates/core/src/txn.rs:316`): a lone
  command that is killed or finds the disk full in between loses every transaction. The
  commands after it fail, which is all `ForgettingHasCause` can promise.
- Tags are read, merged and written back whole (`src/kernel.ts:858`); of two
  concurrent calls the later write drops the tags of the earlier one. The
  documentation says "never overwritten" (`README.md:127`).
- Whether a move crosses notebooks is decided from the row the preview read
  (`src/kernel.ts:3254`). If the source was moved while the index lagged, or during
  the awaits of the execution, the write moves it across notebooks under a policy
  that denies that (`src/kernel.ts:3423`).
- `delete_note` and the setting of tags report `operation_failed` when the call
  errors, although it may have been carried out.
- A window that is notified while it holds an answer it has not applied may not
  reload (see `PolicySync`).
- `txn confirm` prints the confirmation before it saves it
  (`crates/siyuanmaster/src/main.rs:350`): a save that then fails has been
  announced, though not with exit code zero.
- The gateway's count `pendingTxns` includes decided transactions, and its table
  never shrinks. `run_auto` compares the readback with the state *before* the write.
- The installer's recovery enables the old plugin also if the user had disabled it,
  and a `disable` that failed for the script may be carried out after that.
- The smoke test's polls ask again only after `{ok: false}`: a note that can be read
  and does not show the expected text yet fails at once. A `delete_note` whose answer
  is lost is followed by a second one, the cleanup's.

## 4. Proofs

`tlapm <module>` checks, for every set of calls, documents, windows, requests and
processes and every value of the bounds:

| Module | Theorem | States |
|---|---|---|
| `PolicyTaskQueueProofs` | `Invariance` | `Spec => []IInv` |
| | `TypeCorrect` | `Spec => []TypeOK` |
| | `OneRequest` | `Spec => []OneHostRequest` |
| | `RefusalHasCause`, `RawTimeoutHasCause`, `CausesOfRefusal` | `Spec => RefusalsHaveCause`, by its two parts |
| | `ImplementsOwnership` | `Spec => OwnershipSpec` |
| `PolicyStorageProofs` | `StorageCorrect` | `StorageSpec => [](IInv /\ StorageInv)` |
| | `NotSavedNotStored` | `StorageSpec => []NotSavedNeverStored` |
| | `LegacyReadOnce` | `StorageSpec => []LegacyReadOnlyOnce` |
| | `StorageOneRequest` | `StorageSpec => []OneHostRequest` |
| | `StorageImplementsQueue` | `StorageSpec => ImplementsQueue`, when `MaxCrashes = 0` |
| | `FilesCorrect` | `StorageSpec => [](IInv /\ StorageInv /\ FilesInv /\ PublishInv)` |
| | `StorageTypeCorrect` | `StorageSpec => []StorageTypeOK` |
| | `StorageFailsClosed` | `StorageSpec => []FailClosed` |
| | `StoredPolicyIsKept`, `SavedPolicyStored` | `StorageSpec => StoredPolicyKept`, `StorageSpec => SavedIsStored` |
| | `AuditHistoryKept` | `StorageSpec => HistoryKept` |
| | `MissedEntriesCounted` | `StorageSpec => MissesCounted`, when `~HostDrops` |
| | `CallsMakeFewAccesses` | `StorageSpec => []FewAccesses` |
| | `StorageNeverStuck` | `StorageSpec => []NeverStuck`, when `MaxWaits >= 14` |
| `KnowledgeRegistryProofs` | `RegistryCorrect` | `Spec => []RegistryInv` |
| | `TypeCorrect` | `Spec => []RegistryTypeOK` |
| | `LinksStayTwoSided`, `OneRoleEach`, `IngestedKeepsPage`, `ConsistentRegistry` | `Spec => []RegistryConsistent`, by its three parts |
| | `AnswersInReach` | `Spec => []AnswersAccessible` |
| | `LossesExplained` | `Spec => LossHasCause` |
| `NoteWritesProofs` | `Invariance`, `TypeCorrect` | `Spec => []IInv`, `Spec => []TypeOK` |
| | `DriftStops` | `Spec => []DriftStopsWrite` |
| | `EditsArePermitted` | `Spec => []EditsFollowPolicy` |
| | `UpdatesDepartForCause` | `Spec => []UpdatesExplained` |
| | `UpdatesArePermitted` | `Spec => []UpdatesFollowPolicy`, and a written update was admitted to its notebook, when no policy denies, or none asks for confirmation, or all updates are confirmed |
| | `ImplementsPromise` | `Spec => ImplementsSafeWrite` |
| `StructureToolsProofs` | `ControlInvariance`, `Invariance`, `TypeCorrect` | `Spec => []CInv`, `Spec => []IInv`, `Spec => []TypeOK` |
| | `WritesArePermitted` | `Spec => []WritesFollowPolicy` |
| | `RefusalsWriteNothing`, `OutcomesAreTrue` | `Spec => []OutcomesTrue` |
| | `TokensAreTickets` | `Spec => ImplementsTickets` |
| `PolicySyncProofs` | `Invariance`, `TypeCorrect` | `Spec => []IInv`, `Spec => []SyncTypeOK` |
| | `ReportsAreTrue` | `Spec => ReportsTrue` |
| | `DivergenceHasCause` | `Spec => DivergenceOutlives` |
| | `StalenessHasCause` | `Spec => []StaleHasCause` |
| `TransactionsProofs` | `GatewayInvariance`, `GatewayTypeCorrect` | `GatewaySpec => []GatewayInv`, `GatewaySpec => []GatewayTypeOK` |
| | `GatewayDecidesOnce` | `GatewaySpec => ImplementsDecideOnce` |
| | `ReadersSeeAnswered` | `GatewaySpec => ReadsSeeAnswered` |
| | `CliInvariance`, `CliTypeCorrect` | `CliSpec => []CliInv`, `CliSpec => []CliTypeOK` |
| | `SuccessStored` | `CliSpec => []SuccessIsStored` |
| | `ForgettingCaused` | `CliSpec => ForgettingHasCause` |
| | `ConfirmedAtMostOnce` | `CliSpec => []ConfirmedOnce` |
| | `TransactionsTypeCorrect` | `MCSpec => []TransactionsTypeOK` |
| `ScriptsProofs` | `SmokeTestReportsTrue` | `SmokeSpec => [](SmokeTypeOK /\ SmokeReportsTrue)` |
| | `InstallerReportsTrue` | `InstallSpec => [](InstallTypeOK /\ InstallReportsTrue)` |
| | `InstallerReEnablesOld` | `InstallSpec => ReEnablesOldOnly` |
| | `ScriptsTypeCorrect` | `MCSpec => []ScriptsTypeOK` |

Assumptions are those of the modules that declare the constants, one named
`...Assumption` each, or two where the first states have one of their own: the sets of
calls are disjoint, bounds are numbers, `None` is none of the values it stands beside;
of `StructureTools`, that the documents form a tree at first (`TreeAssumption`). Of the
`FilesAssumption`s, that of
`KnowledgeRegistry` takes the first file to be one the code has written: a file
edited by hand may break `IngestedIsLinked`, which normalisation does not restore; that
of `PolicyStorage` takes a first audit log to be within the cap. `StorageImplementsQueue` excludes crashes
because a crash empties the queue, which is no action of it. `MissedEntriesCounted` excludes
a host that acknowledges puts it has lost: there an entry can be missed without anybody
having been told (the run `storage_calls` has no such host either). `MaxWaits >= 14` says
that the bound of the model does not cut a call, which the code does not bound.

*The queue.* `OneHostRequest` alone is not inductive. A second request is
prevented by the counter, so the invariant has to say what the counter counts
(`RequestInv`: it is 1 exactly while a request is in flight or about to start,
and an orphan's call has been ended by its timer or is done); that only one call
can be about to start one (`ChainInv`: the chain holds distinct calls, and only its
head is under way); and that timers end calls in chain order (`TimerInv`), which
makes a refused call's predecessor done. The refinement maps `owners` to the calls
under way together with those whose request is in flight: `RequestInv` says that
this is at most one call, and a step that empties or fills it is `Release` or
`Acquire`.

*The storage.* Every step but a crash is a queue step (`QueueStep`), so `IInv`
carries over, and `CrashStep` shows it for the crash. `StorageInv` adds
`StageInv` (a call asks before it is answered), `MarkerInv` (between the moment
a call finds no marker and the moment it writes one, no other call writes one,
which holds because the queue never has two owners, orphans included) and
`SaveInv` (a policy whose put was not sent is nowhere: not on disk, not in what
any call has read). `MarkerInv` gives `LegacyReadOnce`, `SaveInv` gives
`NotSavedNotStored`.

*The files.* What a write may replace depends on what its call read, perhaps long
before and perhaps after the call has been told "timeout". `FilesInv` says of the call
that has the storage (`Holds`: under way, or its request in flight) what it knows:
from the answer to a read until its own write lands, the file is what it read
(`PolicyKnown`, `LogKnown`); it goes on only from what it can read and writes only what
is missing (`ReadInv`). One call at a time has the storage (`OneHolder`), so a step of
another leaves this alone (`OthersFiles`). When a put lands, the file is then the one
its call decided on, which gives `StoredPolicyIsKept` and `AuditHistoryKept`; at a
commit point it is the policy about to be published (`CommitKnown`). `PublishInv` adds
who owns the published state: a load under way owns `active` (`OwnerInv`), one that
failed leaves a catch block (`CatchInv`; a refused call has one too, but while the orphan
it was refused for is there nobody is under way), and after an answered load no reload
or save is in flight (`LoadInv`). An idle kernel is then either ready, with the policy
on disk, or closed.

*The audit log and the end of calls.* An append whose put was answered is in the log, since
nobody else writes it while the call has the storage; a put that was not answered, or one that
was answered with an error, leads to the warning that counts it (`EntryInv`, `MissInv`). Of
`EveryCallAnswered` the half that is safety is proved. The requests of a call have an order
that it never goes back in, one access of a file at most in each place (`Rank`, `RankInv`), so
there are at most thirteen, and three of an append. And the head of a nonempty queue is never without one of: a microtask
of its own, a timer still to fire, the continuation of its predecessor (`NeverStuck`), so no
outcome of a request is forgotten by the code's case distinctions. That weak fairness of
these steps then leads to an answer is left to TLC.

*The registry.* `LinksAgree`, `DocumentsHaveOneRole` and `IngestedIsLinked` are
proved together: `SourceOK` and `AuthorityOK` show that a registration that is not
refused leads from a registry with all three to one with all three, and need each
of the refusals; `NormalizedOK` that reading keeps them. They must hold of what is
put as well as of the file (`AllConsistent`), since a put lands later and perhaps
after a restart. For `LossHasCause` the invariant says that without a restart only
the head of the chain has a put in flight, and that it is the file's successor
(`PutsFollowFile`); `HeadSettles` and `JoinsTail` keep the chain a sequence without
repetition. `AnswerOK` shows that an answer names the call's own documents, those
it has access to and the container its page keeps, and `AccessFollowsReach` that these were in reach.

*The note tools.* A body write is sent by one step of a call and answered by
another, so where a call is tells whether its write is out (`BodyInv`). Every content
names the writes it is made of, and a write is applied once (`DocInv`): a note that has
changed since a snapshot never equals it again (`SnapInv`), so the comparison of the
recheck finds every drift. What a call learnt of the policy before an await still holds
after it of a policy in force during the call, because one published meanwhile joins
them (`PermitInv`); what it learnt of the notebook and what it learnt of the operation may be
of two. `update_note` looks at its operation twice: `UpdateInv` follows what is left of the
first look, and shows that the violation of the run `update_policy` is, as to the operation, the
only way out: an unconfirmed update, with one policy in force during it that wanted
confirmation and one that denies (`Excused`). The refinement maps a call to pending, refused, executing or
settled by `BodyInv`.

*The structure tools.* The control invariant `CInv` has the same form: a token has
one user (`TokenInv`), where a call is tells whether its write is out (`WriteInv`), and
its checks hold of policies in force during the call (`PermitInv`). That gives
permissions, refusals and the tickets. `OutcomesTrue` needs the tree: a preview is
never of a place where the document already is (`PlaceInv`), so a verification that
finds the document there found it moved after the token was consumed, however late the
row it read (`ReachInv`). The place of a document is known by its path, so the tree must
stay one (`Rooted`): a move relocates the descendants, a removal takes them away, and
`CanMove` keeps a document from being moved below itself.

*The windows.* What an answer says is fixed with its history when the kernel gives it
(`AnswerTrue`); a window keeps the RPC of the running call until that call ends
(`Asking`, `Applied`), so a report is about the answer to the call it reports on. While
a put of this instance is out the kernel obeys the default (`FenceInv`), so only a put
of an unloaded instance can part the disk from the policy in force. For `StaleHasCause`, every
window that no change has passed by (`missed`) is `Informed`: it has a call the kernel has not
served yet (`Due`), the policy on disk is the last push on its way to it (`OnItsWay`), or what
it shows, or would show by the answer it holds, is the policy on disk (`Convinced`). A step of
a window gives one of these up only for another, and the kernel obeys the disk unless a change
has passed everybody by (`KernelNews`).

*The gateway.* Every id that was issued belongs to one preview (`Numbering`, which
counts the previews that have one). A request that decided a transaction is the only
one, and the machine takes no second decision while the record is there (`Deciding`,
`Offering`); once a restart has emptied the table nobody finds the record again. With
them the arrival of a request that names a hash is an `Ask` of `DecideOnce`, a preview an
`Offer`, a deciding confirmation a `Settle` that compares the two hashes, and the end of a
connection a `Tell`. For the log: a request that was audited is in it, or
the log is full (`Logged`), and what the cap drains is older than what is listed.

*The command line.* While no other process has touched the store since a process
loaded it, its copy is the last table the file held, with one record offered or
confirmed (`Fresh`), and a file it has opened is still empty (`Alone`): what it then
writes is whole and loses nothing (`WriteForgets`), and only its end before the write leaves the
file unreadable (`WriterEnds`); whoever loads that file stops. `ConfirmedOnce` is what the command line keeps of
"exactly once": if no command wrote over another one's save (`NoOverlap`) and no two previews
got the same id (`OwnIds`), two commands never both confirm one transaction. TLC finds a
counterexample without the first hypothesis; the second is what the ids of one
millisecond take away. `OnceInv` ties what was reported to the last table: what was
reported as confirmed is recorded as that, and every record there was offered by a preview.

*The scripts.* For any number of reads of a poll. The smoke test: what the note may be after
each step, and which of its writes may still come (`NoteInv`); what may be left
behind, or may still come, is known to the script, which cleans up after it, or told
(`LeftoverInv`). The installer: where the old plugin is at each phase of the swap and of its recovery
(`PlaceInv`), which flags have been set by then (`FlagInv`), and that only calls given up on
make the enabled flag differ from what the script did (`EnabledInv`). The two runs that put
two programs side by side are proved to be the one or the other (`ScriptsApart`,
`DriversApart`), which gives their common type invariants.

Model-checked only: the liveness properties `EveryCallSettles`, `EveryCallAnswered`,
`VerificationEnds` and `DockSettles`, since fairness and `ENABLED` are out of the prover's
reach. The three properties that a run finds violated have no theorem, of course; what
holds in their place is `UpdatesDepartForCause`, `LossesExplained`, and `ConfirmedAtMostOnce`
with `GatewayDecidesOnce`.

## 5. Not modelled, and why

- Text: normalisation of policies, of tags and of readbacks, Markdown, hashes. The
  models compare names where the code compares normalised texts.
- `create_note`, `save_memory` creating a note, `edit_block` with
  `validateOnly`, the attribute that makes tags apply once. A creation has no state
  to drift from; what it adds to `NoteWrites` is a second document.
- Of the registry: titles, aliases (so any page may compete with any other), types, the
  summaries and the search for candidates, and the cap of 20,000 records.
- Of the windows: the notebooks' content, drafts of settings, layout.
- Of Rust: `run_auto`, which no driver calls, the `token` and `migrate` commands,
  which keep no state, HTTP parsing, and the helpers. `maxPreviewAgeSeconds`
  (`capabilities.json:243`) is enforced by no code, so no model has it.
- Of the scripts: what the installer checks of paths and reparse points, which is a
  preparation that fails; how `mcp-smoke.mjs` parses answers, which is a call that
  fails. The skill script and the preview page keep no state.
- Registration of tools and RPC methods, logging: no state that a property is about.
- Read-only tools and planning tools are pure functions from input to report, most
  of them of text.

Hazards of the modelled parts that no property covers are listed in
`PROJECT.json` with the reason: mostly that the code has no step at which it
could notice (a change between the last check and the write).

## 6. Files

`PROJECT.json`: components, runs, faulty versions, the map from definitions to
source lines, findings, hazards, theorems.

## 7. Conventions

Definitions keep the names of the source where there is one; the comment of an
action names the function or the part of it that it stands for. Error codes are
the strings the tools return.

## 8. Plan

Done, in this order: the queue and its proofs; the storage, migration and audit over
it, and their proofs; the note tools; the structure tools; the knowledge registry and
its proofs; the windows, the Rust transactions and the scripts; the proofs of the note
tools, the structure tools, the windows and the Rust transactions; the proofs about
the storage's files; the proofs of the causes of staleness, of counted misses, of the
bounded and unstuck calls of the storage, of the scripts, and of what updates and commands
keep of the promises they break.

Left, in order of worth:

1. The safety halves of the other liveness properties: that a dock on "synchronizing" and
   a verification always have a timer to wait for.
2. The registry's cap, with an instance small enough to reach it.
3. Note tools: `create_note`, `save_memory`'s other branch; readbacks that cannot
   be verified.
4. `planSourceIngest`'s decision table, segment windows and permission inheritance as
   operators, checked against reference definitions.
