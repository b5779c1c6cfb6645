# A TLA+ model of angular-rust (KittClouds)

The repository is a note-taking and world-building application: an Angular front end
(`src/src`), a Rust runtime called Phoenix that is compiled to WebAssembly and runs in a
worker (`src/rust/phoenix`), a Tauri shell (`src/src-tauri`), native Rust pipelines
(`src/rust/native-postprocessing` and others) and an older Go runtime (`src/GoKitt`).

Four parts are modelled, each where a mistake costs the user data or locks the application:
**Phoenix persistence**, the write-ahead log, the checkpoints and the recovery that
`PhoenixStoreService` runs over the origin-private file system (OPFS); the **chat runs** of
the Rust chat crate and planner with the Angular panel that drives them; the
**observational memory** of a chat thread; and the **native graph**, a kernel in memory with
its journal and checkpoint in LMDB. This document lists the parts of the system, says which
are modelled and how, what each check and each proof shows, and what comes next.

Paths below are relative to `src/`. Short names:
*service* is `src/app/services/phoenix-store.service.ts`,
*wal* is `src/app/lib/sqlite/persistence/phoenix-wal.ts`,
*opfs* is `src/app/lib/sqlite/persistence/sqlite-opfs-core.ts`,
*panel* is `src/app/components/right-sidebar/ai-chat-panel/ai-chat-panel.component.ts`; the
crates `phoenix-chat`, `phoenix-om`, `phoenix-runtime`, `phoenix-store-lmdb`,
`phoenix-kernel` and `phoenix-graph-kernel` are in `rust/phoenix/crates`.

## 1. Inventory

| Component | State it keeps | Operations | Hard behaviour | What makes it correct | Status |
|---|---|---|---|---|---|
| **Phoenix persistence** (service, wal, opfs, the OPFS worker) | `manifest`, `manifestMeta`, `derivedDirty`, `derivedLoadState`, two timers, the pause flag, the chain of tasks; on disk two manifest copies, the active log, closed segments, content and derived checkpoints | boot and recovery, mutation (append, commit, apply), content and derived checkpoints, deferred derived load, rebuild, import, pause and resume, pruning | crash between any two file operations, an await that rejects half way, a truncation that fails, timers against a chain of tasks, values read before an await and used after it | what was acknowledged survives a restart; memory equals what a restart rebuilds; manifests never dangle; no file is left over; the log is eventually checkpointed | modelled |
| **Phoenix WASM RPC** (`phoenix-wasm.service.ts`, `phoenix.worker.ts`, `phoenix-backend.service.ts`) | the table of pending messages, active chat streams, one pending OM and planner call per thread and run, semantic documents per session | load and init, packets with growing capacity, streams and their cancellation | a packet sent again after it ran, a worker terminated with calls in flight, a stream event after a cancel | every call settles once; no command runs twice; no event reaches a closed stream | worker death modelled, the rest planned |
| **Chat runs** (`phoenix-chat`, `planner.rs`, *panel*, the planner loop of `phoenix-wasm.service.ts`) | run rows with status and transcript, pending host calls, approvals, planner sessions in memory; the panel's signals (streaming, current run, shown approvals, busy button) | start, step, model response, advance, degrade, mark streaming, complete, cancel, tool results, approvals; send, poll, answer host calls, decide, stream, change thread | commands in any order, a session in memory beside a stored transcript, concurrent approval clicks, a cancellation or time-out while the model is asked | each tool call is answered once, one call drives a run, an approval on screen reaches its run, a finished run stays finished, every call returns | modelled |
| **GoKitt chat run manager** (`GoKitt/pkg/chat/runs.go`) | the same records plus goroutines, `runActive`, `runCancels` | as above, from goroutines | read-modify-write of a run from the processor and from commands, deadlines | as above | planned |
| **Observational memory** (`phoenix-om`, `chatProcessOm`) | message rows with an observed mark, the memory record, its generations, active threads, reflector sessions | prepare, observe, reflect with tool rounds; messages added, streamed, appended, updated, cleared meanwhile | what a prompt was made from may be changed when its answer is applied; a save that fails half way | what is marked observed is remembered or will be read again, no answer overwrites a newer memory, sessions are closed, calls end | modelled |
| **Native graph** (`phoenix-runtime`, `phoenix-kernel`, `phoenix-graph-kernel`, `phoenix-store-lmdb`) | the kernel's graph and its rebuild token, the live snapshot cache; in LMDB the journal, the checkpoint and the commit index | ingest, refreshes of asserted and candidate edges, append, compaction, commit, reads, delta, export, import, restart | the kernel is ahead of the journal inside a call; compaction in the middle of a call; a crash or failed transaction between two steps | nothing persisted is lost, what is taken for current has what was ingested, generations grow, a restart shows what was persisted and not rejected | modelled |
| **Network views** (service 775-888) | one saved view per network | upsert and delete of instances, members, relationships | each is read, changed and saved whole outside the chain | no change of another caller is lost; members and entity ids agree | planned |
| **GoKitt graph store, HNSW, q-gram, shared buffers** | indexes | pure or single-threaded algorithms | none of interleaving | results equal a reference definition | not modelled |
| **Native pipelines** (`rust/`, `rust-native/`, other crates) | overgraph and Cozo stores, batches | ingest, scan, relation post-processing, index | numerical or heuristic functions of their input | - | not modelled |
| **Angular UI** (editor session, tabs, calendar, embedding and NLI workers) | view state, save debounce, model queues | - | the editor's save against navigation | later candidate | not modelled |
| **Tauri shell** (`src-tauri`) | none of its own | forwards commands | - | - | not modelled |
| **Vendored code, models, generated bindings** | - | - | - | not this project's logic | not modelled |

How they interact: UI services call the service; a content change goes through
`runContentMutation` (log first, runtime after), a derived change goes straight to the
runtime through the RPC and is reported with `markDerivedDirty`; the service calls two
workers, the OPFS worker (a mutex serialises its file operations) and the Phoenix worker
that holds the runtime, which executes one command at a time; the panel and the memory
loop reach the runtime through commands with awaits between them, so commands of others
run in those gaps; at boot `app.component.ts` initialises the service, pauses
snapshots, empties and refills Dexie from Phoenix, and resumes them. Native pipelines and
the Go runtime share no state with the persistence.

The hazards of each part, at the line where they bite, are the list `hazards` of
`PROJECT.json`.

## 2. Modules

| Module | What it is |
|---|---|
| `PhoenixWal` | the manifest algebra of *wal*: pure functions from a manifest to the next one and to the list of files to prune |
| `PhoenixOpfs` | a disk as a function from the files that exist to their contents; reading the manifest (primary, else backup), what a commit creates and truncates, and what recovery rebuilds |
| `PhoenixStore` | the state machine: the service, its two workers, its callers, timers, crashes and rejections |
| `ContentLog` | what the store promises: a durable log and truthful answers. `PhoenixStore` refines it |
| `MCPhoenixStore` | the fault sets and the symmetry the TLC runs use |
| `PhoenixStoreProofs` | types, dangling references and flushes: theorems for all faults but, for the references, a reset whose removal fails |
| `PhoenixStoreFiles` | extends it: which files are read, left behind and overwritten |
| `PhoenixStoreContent` | extends that: which records a restart rebuilds |
| `PhoenixStoreLog` | extends that: one version of each record, durable answers, the refinement of `ContentLog` |
| `ChatRuns` | the run commands of `phoenix-chat` and `planner.rs`: one action per command, issued by any client in any order |
| `ChatPanel` | extends `ChatRuns` with the clients: the panel's asynchronous calls and the planner loop, interleaved at their awaits |
| `OmEngine` | the memory of one thread: the processing loop of several callers and the message commands that race with it |
| `NativeGraph` | the kernel, the store it is rebuilt from, and the runtime's calls in steps of one LMDB transaction |
| `MCChatPanel`, `MCOmEngine`, `MCNativeGraph` | instances for TLC |
| `ChatRunsProofs`, `ChatPanelProofs`, `OmEngineProofs`, `NativeGraphProofs` | inductive invariants and theorems |

`PhoenixOpfs` extends `PhoenixWal`, `PhoenixStore` extends `PhoenixOpfs`, `ChatPanel` extends
`ChatRuns`, and `ChatPanelProofs` extends `ChatPanel` and `ChatRunsProofs`; no module uses a RECURSIVE operator.

### State and code: persistence

* `disk` is the directory `gokitt/phoenix-wal-v1`. A file is a triple of a kind and two
  numbers (`<<"segment", 1, 2>>` is the segment of records 1 to 2). A record is a sequence
  number and the mutation it carries. The content partition `rtContent` is the set of
  records applied to it: relations and the lexical index are functions of that set. The
  derived partition is a version number, one more for every change.
* `rtUp` says that the Phoenix worker holds an initialized runtime: calls to it answer.
* `manifest`, `derivedMeta`, `derivedDirty`, `loadState`, `contentTimer`, `derivedTimer`
  are the fields of the service. `hydration` stands for `snapshotsPaused` together with
  the boot protocol that sets it: pending, running (paused), done.
* `chain` is the promise chain of `runSerialized`, `job` the running task and `pc` the
  await it stands at. Inside a worker call every file operation has its own point, because
  the page can go away there: a commit is `close`, `backup`, `primary`, `truncate`.
* `flush`, `next`, `prune`, `truncating` and `exported` are the locals of the running task.
* `status` is what each caller's promise has told it.
* Sizes are counted in records. `activeBytes` is what the log FILE holds and `activeCount`
  what the manifest believes, because the code takes one from the file's size and the
  other from the manifest it finds on disk (opfs 464 and 465).

Every action is one step between two awaits and does all the code does there: `FinishFlush`
stores the manifest, clears the dirty mark and starts the derived flush of a snapshot or an
import; `ApplyBatch` also arms the timer and answers the caller.

### State and code: chat runs and panel

* `run`, `pendingHost`, `approvals` are the rows of the chat tables, `session` is the map of
  planner sessions in memory. A transcript is reduced to what the code and a model provider
  tell apart: how often each tool call was answered, how many rounds there were, whether the
  final prompt is in.
* A driver is one asynchronous call of the panel: a `sendMessage` per run and a
  `handleApprovalDecision` per click. `pc` is the await it stands at, `target` its run and
  approval. `planner` is the loop `chatProcessPlannerRun` of a run, which all waits join.
* `applied`, `redecided` and `left` are history: edits made and not yet reported, runs of
  which an approval was decided twice, runs whose thread the user left.
* Two decisions of one approval, which two quick clicks can send, are possible and reopen a
  run; the properties exclude runs where that happened (`redecided`) and say so.
* `SendStarts` is atomic with the return of the start command. The panel gives up polling
  after 80 polls; it does so only after the planner's deadline, and the model lets the
  deadline fire first. Store commands the panel sends do not fail, except in a tool round.

### State and code: observational memory

* One thread. A message's content is a version number, 0 when empty; the memory is the set of
  contents its text was made from, so a rewrite that drops one is visible.
* A caller stands at `prepare`, or waits for the observer (`observe`) or the reflector
  (`reflect`); between these any chat command may run. `active` is `active_threads`.
* The browser drives the loop through commands (`chatProcessOm`). The native loop
  `process_thread_with_transport` is called by tests only and is not modelled; it does not
  drop the reflector session when the transport fails.
* Any message may change, in any order, as the commands of `phoenix-chat` allow: two sends of
  one thread overlap, so an older answer may stream while a newer message is observed. A
  finished message may change its content, too, which the commands accept and the chat screens
  never do.
* `overtaken` is history: the messages whose content was edited after it was read for an
  observation under way, or that an observation marked although the record, which has passed
  them, was not saved. A new observation of the message takes it out.
* Reflector tools are enabled. Errors of the graph index are ignored by the code and left out,
  but for the one that fails the call, which is `CallFails`.

### State and code: native graph

* `graph` keeps, of the kernel, the active views, the scope maps, per vertex and edge how
  many records are not expired and whether one is, and which edges are rejected. A rejected
  edge (`candidate_rejected`, which `apply_nli_judgments` writes) stays in the kernel and in
  `candidate_edge_rows`; `SnapshotLegacy`, from which a checkpoint is made, leaves it out.
  `checkpoint`, `journal` and `index` are
  the LMDB tables; a journal entry has a generation and a batch or a commit.
* Every call that changes the graph applies ALL its batches to the kernel first (`Begin`) and
  then appends them one transaction at a time (`AppendKernelBatch`), with a compaction in
  between when the journal is long (`WriteNativeGraphCheckpoint`). `op` is that call.
* `Current` compares the kernel's token with the store's generation. An ingest leaves the
  token behind, so the next read, or its own compaction, rebuilds the kernel from the store.
* The runtime is used by one call at a time (it is not `Sync`). `Restart` is a crash of the
  process between any two transactions; an LMDB file opened without sync after a crash of
  the machine is not modelled.
* A refresh of candidate edges makes one batch for each document and node it touches, up to
  `ScopesPerRefresh`; each row goes into one of them.
* Batches have numbers. `made`, `refreshed`, `held`, `persisted` and `ideal` are history: what
  was made, what of it by candidate refreshes, what the kernel's graph was made from, what was
  appended, and the graph of a kernel that was never rebuilt.
* Asserted edges behave as candidate edges do. A batch is never refused (the runtime makes
  none with an incompatible scope). One exported snapshot at a time.

### Faults

* `Crash`: the page and both workers disappear between any two steps. Only `disk` stays.
* `WorkerDies`: the Phoenix worker fails while the page stays open. The next call starts a new
  worker whose runtime is not initialized, so calls reject (`RuntimeLost` and the forced cases
  of `Rejects`) until the rebuild after a failed apply initializes it. The service's fields and
  queue stay.
* `TaskThrows`, `ApplyThrows`, `ReloadReplayThrows`, `LoadDerivedThrows`, `RecoverThrows`
  and the second disjunct of `TruncateActive`: an await rejects, with the handling the
  code has at that place.
* The second disjunct of `PruneFile`: the removal of a file fails. `prunePhoenixFiles` swallows
  it and goes on with the next file. After a flush this leaves a file nothing names. In a reset
  it may leave a manifest whose files are then removed (finding 7), or an active log whose
  records the numbers of the new store will match again, which replay would keep.
* A file is replaced as a whole. `createWritable` writes a swap file and installs it on
  `close`, so neither an append nor an overwrite is ever half visible.
* `CrashAt` and `ThrowAt` say where a run lets faults happen and `MaxFaults` how many.
  `"worker"` in `CrashAt` allows
  `WorkerDies`. The point called `uncommitted` is a mutation's commit up to the write of the primary
  manifest.

Faults of the other parts: a request to the model fails or its deadline passes (`FetchFails`,
`DeadlinePasses`, `CallFails`), a store error in the middle of a tool round
(`ToolStoreError`), a save that fails after the one before it (`ObservationHalfSaved`,
`ReflectionHalfSaved`), an LMDB transaction that fails (`CallFails` of `NativeGraph`), and a
crash at any point (`Restart`).

## 3. Runs

Bounds, the same in all `store_` runs unless noted: a segment closes at 2 records or 4 bytes
(records in the file); a checkpoint is forced at 3 unreclaimed records or 6 bytes. Two
mutations are enough to close a segment, three to close one, have a live record behind it
and reach the forced checkpoint with no delay. `MaxChain = 1` is one task waiting behind the
running one; the chain is FIFO and its tasks share no locals, so a longer chain only
postpones requests that may equally be made later. `MaxGeneration` bounds only the explicit
snapshots a caller asks for, `MaxDerived` the changes of the derived partition. Mutations
are interchangeable, so the safety runs use symmetry; the run with liveness does not.

| Run | Instance | Properties | What it shows |
|---|---|---|---|
| `store_faults` | 3 mutations, 1 fault, generation 2, derived 1; crashes outside `uncommitted` and deaths of the Phoenix worker; rejections after which memory and disk agree | `ServedIsRecoverable`, `AckedMutationsRecovered`, `NoOrphanFiles`, `LoadReadsCurrentDerived`, `ImplementsContentLog` | rolls, checkpoints, pruning, truncation and rebuild keep every acknowledged mutation, in step with memory, and leave nothing behind |
| `store_any` | 2 mutations, 1 import, 2 faults of any kind anywhere but a failing removal in a reset, deaths of the Phoenix worker among them | `TypeOK`, `NoDanglingReference`, `FlushNeverAwaitsItself` | what holds whatever else fails: manifests name existing files, no flush waits for a task behind it |
| `store_live` | 2 mutations, 1 crash anywhere, derived 1, fairness | `EverySeqRecoveredOnce`, `ReferencedFilesImmutable`, `MutationsSettle`, `ContentEventuallyCheckpointed`, `DirtyEventuallyFlushed` | one record for every number at every instant of every commit; files in use are never overwritten; everything is answered and eventually checkpointed |
| `store_orphan_record` | 1 crash anywhere | `AckedMutationsRecovered` is violated | finding 1 |
| `store_truncate_after_import` | an import, a truncation that fails | `ServedIsRecoverable` is violated | finding 2 |
| `store_derived_lost_update` | no faults | `DerivedChangesPersisted` is violated | finding 3 |
| `chat_panel` | 1 run, 2 proposal tools and an internal one, 2 rounds, 2 concurrent clicks, fairness | `PanelTypeOK`, `SessionMirrorsRun`, `EveryCallAnsweredOnce`, `OneDriverPerRun`, `AwaitingIsDecidable`, `AppliedIsReported`, `StreamingHasDriver`, `FinishedStaysFinished`, `DriversReturn` | within one run, whatever the model answers and whenever the user cancels, leaves or clicks, the transcript is well formed and the panel is never locked |
| `chat_second_run` | 2 runs, 1 proposal tool, 1 click | `AppliedIsReported` is violated | finding 5 |
| `om_engine` | 2 messages with 2 versions, 2 callers, thresholds of 2 and 1, 2 reflections, 2 passes, 2 tool rounds, fairness | `TypeOK`, `ForgottenIsOvertaken`, `GenerationsAreReflections`, `NoSessionLeak`, `MemoryNotLost`, `ProcessingEnds` | answers applied to a thread that changed meanwhile lose nothing, and forget only what an edit or a half-saved observation overtook |
| `native_graph` | 1 vertex, 1 edge, 2 documents, 2 candidate scopes, refreshes of both, 3 batches, threshold 2, 1 commit, 1 export, failures and crashes | `TypeOK`, `NothingLost`, `CurrentKernelHasIngested`, `CacheIsCurrent`, `DeltaSinceCommitComplete`, `RestartShowsAll`, `GenerationsGrow` | kernel, journal, checkpoint, cache and commit index agree after every interleaving of appends, compactions, failures and crashes |
| `native_graph_scopes` | the same without commits and failures | `CurrentKernelHasAll` is violated | finding 9 |
| `native_graph_replace` | the same | `ReplacedIsGone` is violated | finding 6 |

Why the fault sets differ. `NoDanglingReference` is false when a removal of a reset fails
(finding 7), so `store_any` has every fault but that. `AckedMutationsRecovered` and `ServedIsRecoverable` are false
with all faults (the findings), so `store_faults` states precisely when they do hold: no
crash in `uncommitted`, no rejection at `reload`, `reloadManifest`, `reloadReplay`,
`recover`, `reset` or `committed`. `EverySeqRecoveredOnce` and `ReferencedFilesImmutable` do not hold
across an import, because an import starts sequence numbers and generations again while the
old files are still named on disk; their run has none. `store_live` has no deaths of the
Phoenix worker: a flush that rejects because there is no runtime leaves its timer unarmed, and
the log or the dirty partition waits for the next change. `ServedIsRecoverable` speaks of a
runtime that answers (`rtUp`).

Bounds of the other runs. In `chat_panel` two proposals make a run wait for two decisions, so
the second of two concurrent clicks is the last one or not; two rounds reach a second question
after the answers of the first and the round limit. A second run is what `chat_second_run`
needs to refute `AppliedIsReported`, so the passing run has one. In `om_engine` two
messages are enough for one that streams again, or is edited, while the other has been observed, or
while both are; both ways of `ForgottenIsOvertaken` are needed in the run (TLC violates it when
either is left out). Two reflections make the memory too long twice and short afterwards.
In `native_graph` a threshold of 2 (32 in the code) puts a compaction inside an ingest or a
refresh of two batches, between a commit marker and the batch after it, and right after a restart;
three batches leave one to be made after it. Two candidate scopes are the least a refresh needs to
compact between its batches. One vertex and one edge are enough because batches are subsets of
them and scopes are what replaces whom. One commit puts a marker before or after each compaction.
Documents and candidate scopes are interchangeable; the passing run uses that symmetry.

Current kernels. `CurrentKernelHasIngested` holds for any number of scopes per refresh: an ingest
leaves the token behind, so a compaction inside it can not be mistaken for the graph of the whole
call. `CurrentKernelHasAll`, the same for every batch, is false as soon as one refresh touches two
scopes, which is the rule (`phoenix-runtime` 2880-2892): finding 9. A call whose append fails
leaves the opposite: a kernel with batches that the store does not have and a token that may
still be current.

`CHECK_DEADLOCK FALSE` in the `store_` runs: requests are bounded, the page may be idle with nothing to do, and
nobody is obliged to open it again. In `chat_panel` and `om_engine` the calls return, messages
and runs are used up, and nothing more needs to happen. The `native_graph` runs never stop.

**Fairness** (`FairSpec`). The service's own steps are weakly fair: a pending promise of a
live page settles. Timers fire. The caller that changed derived data marks it (the next
statement after its await). The boot hydrates once and resumes snapshots in a `finally`
block. Requests, crashes and restarts are not fair. The liveness properties end with "or the
page is down" where it may go away, and a crash clears the dirty mark with the memory.
In `PanelFairness` commands and requests are answered, the planner's deadline passes, and a
call that is under way goes on; nobody has to click, send, cancel or leave. `DriversReturn`
needs the deadline: a model that asks for host tools for ever is stopped by nothing else. In
`OmEngine` the steps of a call are weakly fair and chat commands are not. `ProcessingEnds`
assumes that the model does not call tools it was not offered (`UnofferedCalls = FALSE`),
because the code would serve those calls without end. A call that joins a loop in its last
pass leaves new messages for the next trigger, so no property promises their observation.

Each property of a passing run has a mutant: an operator next to the original, marked
`Mutant:` in its comment, which makes the change a plausible bug would make (pruning the
manifest last, truncating before the commit, not removing duplicates in replay, a checkpoint
that claims one number too many), and which the property catches.

## 4. What the code does otherwise than it says

Findings 1, 2, 3, 5, 6 and 9 each have a run that must be violated. Findings 4, 7, 8 and 10 need
two failures or restate a limit that the passing properties already name; they have no run, and
each says how the models show it.

1. `store_orphan_record`. The append reaches the active log before any manifest counts it.
   After a crash (or a commit that rejects) in between, the record is still in the log and
   its number is given to the next mutation. Once that one is committed replay finds two
   records with the number and keeps the FIRST: the acknowledged mutation is replaced by
   the abandoned one. One crash suffices.
2. `store_truncate_after_import`. The warning at opfs 501 says recovery dedupes after a
   truncation that failed. After an import numbers start again at 1, so dedupe keeps the
   records of the database that was replaced.
3. `store_derived_lost_update`. `derivedDirty = false` (service 1274) comes three awaits
   after the export. A change marked in between loses its mark; its timer finds nothing
   to do.
4. Rebuild. When the rebuild after a failed apply throws, the runtime stays
   partial, the service stays initialised, and the next checkpoint exports the partial
   content and prunes the log it came from. (`AckedMutationsRecovered` with `ThrowAt` the points
   `apply` and `reloadReplay`, three mutations.)
5. `chat_second_run`. A decision goes to `currentRunId` at the time of the click. While the
   planner of a run resumed by an approval works, the panel does not say it is streaming, so
   a second message may start another run; an approval of the first run shown afterwards is
   submitted with the second run's id. The edit is in the note, the planner is never told.
6. `native_graph_replace`. A rebuild from a checkpoint clears the scope maps
   (`phoenix-graph-kernel` 1243), so the next batch of a document removes nothing of what its
   former batch brought, although two tests of the repository say it replaces it.
7. Reset. `prunePhoenixFiles` swallows every failing removal as if the
   file were already gone (opfs 531) and goes on. In a reset the manifests come first; when the
   removal of one fails, the files it names are removed all the same, and the next boot reads a
   manifest it cannot recover, which is reset again. (`NoDanglingReference` with a crash at `idle`
   and `ThrowAt` the points `recover` and `reset`.)
8. Half-saved observation. An observation saves its messages as observed before it saves the record. A
   message that streamed while a newer one was observed is older than `last_observed_at`; when
   the save of the record fails in its own observation, nothing makes it eligible again and the
   memory never holds it. (`ForgottenIsOvertaken` without `overtaken`.)
9. `native_graph_scopes`. When an append of a refresh, but not its last, makes the journal long
   enough, the compaction rebuilds the kernel from the store, without the batches still to be
   appended, and `refresh_native_graph_rebuild_token` declares it current afterwards. The rows
   of the later batches are missing from `candidate_edge_rows` until the next batch of another
   call or a restart.
10. Rejected edges. The checkpoint of a compaction is made from the export for
   traversal, which leaves `candidate_rejected` edges out, and the journal entries that held
   them are dropped: after the next rebuild the rejected rows, which "must stay stored for
   audit" (`phoenix-gldr` 1531), are gone. (`RestartShowsAll` with all edges in place of
   `Accepted` ones.)

Two more that no line of the repository promises otherwise, so they are described and not
run: when the pruning call rejects after a commit, `this.manifest` stays one generation
behind the disk and its numbers are used again; and an import while the derived partition
is cold marks it dirty without arming a timer, so the imported derived data waits for a
later change to be checkpointed.

## 5. Proofs

### Persistence

`PhoenixStoreProofs` proves, for every set of mutations and imports, all thresholds and all
bounds:

| Theorem | Faults | Statement |
|---|---|---|
| `TypeCorrect` | any | `Spec => []TypeOK` |
| `FlushNeverWaits` | any | `Spec => []FlushNeverAwaitsItself` |
| `ManifestsNeverDangle` | `ResetRemoves` | `Spec => []NoDanglingReference` |
| `BootFindsItsFiles` | `ResetRemoves` | at the point where a boot recovers the runtime, every file recovery reads exists: only a rejected await can cause a reset |

`ResetRemoves` is `"reset" \notin ThrowAt`: no removal of a reset fails. Without it both are
false (finding 7). A removal that fails while a flush prunes is allowed.

Assumptions: `ThresholdAssumption` (thresholds are positive) and `BoundAssumption` (bounds
are naturals, imports are not mutations); TLC evaluates both on every run.

The invariant is `IInv`, the conjunction of `ResetRemoves` and

* `TypeInv`: `TypeOK` and `JobHere`, which ties `job` and `flush` to `pc`. `Settle` writes
  `status[job.arg]` and a batch holds `job.arg`, so types need the task to be the right one.
* `NoDanglingReference`: the property itself.
* `MemoryRefersToDisk`: what `this.manifest` names exists, except while files are removed.
  A checkpoint is computed from `this.manifest` and not from the manifest on disk, so this
  is what makes the manifest it commits harmless. It survives rejections (after which
  `this.manifest` may be an old one) because files are removed only at the very end.
* `NextRefersToDisk`: the manifest being committed names files that exist or, before
  `close`, segments that `close` creates, which it does only if the active log is not
  empty: an append guarantees that, and a checkpoint commits no new segment.
* `CommittedCopies`: between the write of the backup and the end of the pruning the copies
  written so far are the manifest being committed.
* `PruneUnreferenced`: what is pruned is not referred to by the manifest just committed; in
  a reset the manifest copies still on disk are themselves in the list, and `PruneRank`
  puts them first. Removing them last is the mutant; that they are gone when the next file
  is removed is what `ResetRemoves` says. In a flush a file that stays harms nothing.

The proof is organised by variable rather than by action: for each variable a lemma says
which actions can change it and how (`DiskChanges`, `ManifestChanges`, `NextChanges`, ...),
and each conjunct has one lemma (`NoDanglingStep`, ...) that splits on those changes only.
Lemmas about the manifest algebra (`AppendManifestFacts`, `ContentManifestFacts`, ...) say
what each function of *wal* does to the set of files a manifest names.

TLC checked `IInv` as an invariant before it was proved.

The other three modules build on `IInv`, each on the one before. Their theorems hold for any
mutations, thresholds and bounds, under hypotheses on the faults:

| Module | Theorem | Hypotheses | Statement |
|---|---|---|---|
| `PhoenixStoreFiles` | `LoadReadsItsCheckpoint` | `ResetRemoves` | `Spec => []LoadReadsCurrentDerived` |
| | `NothingOutlivesItsManifest` | no imports, `ResetRemoves` | `Spec => []NoOrphanFiles` (which speaks of states before the first fault) |
| | `FilesInForceAreNotOverwritten` | no imports, `ResetRemoves`, no rejection at `primary` or `committed` | `Spec => ReferencedFilesImmutable` |
| `PhoenixStoreContent` | `EveryNumberIsRecoveredOnce` | `FaultAssumption` | `Spec => []EverySeqRecoveredOnce` |
| `PhoenixStoreLog` | `RestartChangesNothing` | `LogAssumption` | `Spec => []ServedIsRecoverable` |
| | `AcknowledgedIsDurable` | `LogAssumption` | `Spec => []AckedMutationsRecovered` |
| | `StoreImplementsContentLog` | `LogAssumption` | `Spec => ImplementsContentLog` |
| | `ImportsKeepWhatIsServed` | `ImportAssumption` | `Spec => []ServedIsRecoverable`, with imports |

`FaultAssumption`: no imports; rejections only at the points of `BenignThrows`; not both a crash
in `uncommitted` and a rejection at `primary`. `LogAssumption`: no imports; rejections in
`BenignThrows`; no crash in `uncommitted`. `ImportAssumption`: imports allowed; rejections only
where no commit is on its way (`append`, `apply`, `import`, a removal
of a flush and the derived steps before a commit); no crash in `uncommitted` or `truncate` and no death of the Phoenix worker alone. These
are not conveniences: each fault that is left
out breaks the property it is left out of. All three imply `ResetRemoves`.

* An import starts sequence numbers and generations again over files that are still named on
  disk (finding 2).
* A crash in `uncommitted` leaves a record in the log whose number is handed out again
  (finding 1): there are then two versions of one record. There is still one record for every
  number, so `EverySeqRecoveredOnce` survives it, unless the first primary copy was rejected and
  the backup, which counts the record, is what a boot reads.
* A rejection at `reload`, `reloadManifest`, `reloadReplay` or `recover` leaves a service without
  what was logged, or resets it (finding 4). One at `committed`, or at `primary` with a backup
  only, leaves it with a manifest older than the one on disk, whose generation it then uses
  again; with a backup only that costs no content, as `StillBlank` shows, but the file of a
  first checkpoint may be written twice.

The constants of `store_faults` satisfy `LogAssumption` and those of `store_live`
`FaultAssumption`, with crashes and rejections left in both.

*Files.* `FlushRuns` says which program points belong to a flush. `RememberedDerived`: while the
derived partition waits to be loaded, the manifest names no derived checkpoint or the one
remembered when it was read, because only a derived flush moves it on and that needs the
partition loaded. `FaultFree`, `OnlyFlushesPrune` and `KeptFiles`: before the first
fault every file is named by the manifest in memory or, during a commit, by the one being
committed or its list to prune. `ManifestsNameOld`, `NextGeneration` and `DiskNoYounger` order the
generations of the three manifests at hand: a checkpoint under way gets a generation above the
one in force and is named after it, which is why it overwrites nothing.

*Content.* `ContentInv` is about what a restart would make of the disk at every instant:

* `SoundDisk`: the manifest in force is *founded* (its checkpoint holds one record for every
  number up to `lastCheckpointSeq`) and its files *cover* the numbers after that;
* `SoundNext`: so is the manifest of the commit under way before it is in force;
* `SafeTruncation`: a commit that will truncate the active log does not need what is in it;
* `MemoryAgrees`, `StillBlank`, `CommitShape`: the manifest in memory is recovered to the same
  content as the one in force except while a commit ends. The case that takes the work is a
  store without a primary copy, where the backup of an unfinished commit is already in force;
* `ServesOnce`: a runtime that answers has one record for each number of the manifest in memory;
* `NoReset`: without rejections in a recovery nothing resets the store (`BootFindsItsFiles`).

That replay keeps one record per number although segment and log overlap after a crash
(`RecoversOnce`) is proved from `Covers` by taking the first position that holds a number.

*Log.* `LogInv` adds `OneVersion`: among all records known to the files in force, to the
checkpoint on its way and to the runtime, no two have one number. Two contents with the same numbers are then
the same content, and counting, which `ContentInv` does, is enough to compare them.
`BatchIsLast`, `SameLog` and `BatchLogged` keep it through a mutation and a roll of the log.
`RestartChangesNothing` follows directly. The durable log changes at one step, the write of the
manifest that counts the batch (`Switches`; the backup if there is no primary yet), and it
appends that batch and nothing else. `AnswerInv` adds that each mutation is asked once
(`QueuedOnce`) and that one past its switch, or acknowledged, is durable (`CommittedIsDurable`).
The refinement takes `log <- DurableContent`: the switch is the log's append, the answers are
its answers, and every other step, each fault among them, stutters.

*Imports.* `ImportsKeepWhatIsServed` allows what the theorems above exclude, for the property
finding 2 refutes when a truncation fails. An import empties `this.manifest` and starts numbers at
1 over a log that still holds records with those numbers, so neither counting nor one version of
every record carries over. `ImportInv` speaks of the log instead:

* `LogInForce`: the log of the manifest in force has one version of each record and no number that
  the manifest has not given out, except between a mutation's append and its manifest and until
  the truncation after a commit. `FreshLog`: before the first manifest it is empty;
* `SettledAgrees`: between commits the runtime holds what the log *replays* to
  (`RecoveredIsReplayed`: with one version of each record, the order of the scan plays no part).
  Only between `ImportSnapshot` and its checkpoint (`ImportForgets`) it does not;
* `MutationCommits`, `ContentCommits` and `DerivedCommits` carry this through each kind of commit.
  A mutation leaves the runtime one record behind the files the commit reads; a log that rolls is
  copied to a segment before it is truncated (`RolledLog`: its number is new, so the copy is made).
  A content checkpoint reclaims every segment and commits an empty log or truncates it, since a
  manifest that counts no active record has none (`Counted`). That is what makes an import safe:
  its old records are gone before any of their numbers is given out again.

The faults excluded are those which break this, one by one. On an instance with three mutations
and one import TLC violates `ServedIsRecoverable` as soon as one of them is allowed: a rejection
in any commit point, in `writeContent`, `committed` or the reload; a crash in `uncommitted` or
`truncate`; a rejection in `recover` together with a crash of the reset it starts. After a death
of the worker alone (four mutations) the checkpoint of an image that has just been taken in
rejects and leaves the empty manifest over the old log. On the same instance, with all faults that
are left, TLC checked `ImportInv` before it was proved.

### Chat runs

`ChatRunsProofs`, for any runs, calls, rounds and approvals and any order of commands, under
`ChatAssumption`: `RowsKeepTheirTypes` (`Spec => []TypeOK`) and `SessionNeverDiverges`
(`Spec => []SessionMirrorsRun`: a planner session in memory is the stored transcript).
The invariant is `TypeOK /\ SessionMirrorsRun`; the second conjunct is inductive with the
types because every command that writes one transcript drops the session or writes both. The
proof has one lemma per command.

`ChatPanelProofs`, for the panel and the planner, under `ChatAssumption` and `PanelAssumption`
(a click is not a run, and `Nobody` is none):

| Theorem | Hypothesis | Statement |
|---|---|---|
| `PanelKeepsItsTypes` | none | `PanelSpec => [](PanelTypeOK /\ SessionMirrorsRun)` |
| `EveryCallIsAnsweredOnce` | none | `PanelSpec => []EveryCallAnsweredOnce` |
| `RunsAreDrivenOnce` | none | `PanelSpec => []OneDriverPerRun` |
| `FinishedRunsStayFinished` | none | `PanelSpec => FinishedStaysFinished` |
| `SendIsNotLocked` | none | `PanelSpec => []StreamingHasDriver` |
| `AwaitedApprovalsAreOnScreen` | one run | `PanelSpec => []AwaitingIsDecidable` |
| `AppliedEditsAreReported` | one run | `PanelSpec => []AppliedIsReported` |
| `PanelUsesTheRuntime` | none | `PanelSpec => Spec`: the panel is a client of `ChatRuns` |

The invariant, `PanelInv`, has two parts. `BaseInv` holds of every run: types; calls know their
run and only clicks decide (`TargetsOK`); nothing is known of a run that was not started
(`StartedOK`); what is shown or decided is a stored approval (`ApprovalsOK`); a session in
memory belongs to a planner loop that some call awaits (`LoopOK`). `Disciplined(r)` holds of the
runs none of whose approvals was decided twice (two clicks on one approval before the first
returns; the hazard is listed, and the properties except these runs):

* `DrivenOnce`: at most one call drives the run, none while an approval is pending or once it is
  completed or failed. It is what makes the decision after which none is pending the only one
  to go on with the run;
* `HostOK`: a call that executes host calls executes all there are, and the planner is quiet;
* `AskedOK`: a tool call not yet answered is with the host, with the user or in the planner's
  round, unless the planner will not be asked again;
* `OnceOK`: it is with one of them only, and nothing is answered twice.

The four need each other: a call is answered once because nobody else is at work on the run, and
nobody else is because every way to leave a driver accounts for all unanswered calls. The proof
has one lemma per action for the run the action is about; `Framed` and `FrameKeeps` dispose of
all other runs at once.

`SendIsNotLocked` needs `WhoStreams`, which names the call that holds the send button.
`OnScreen` says more than `AwaitingIsDecidable`: unless the user left it, a run that asks or is
driven is the current one, and all its pending approvals are shown. The list of approvals and the current run are shared by all
runs, which is why those two theorems have the hypothesis of one run: with two,
`AppliedIsReported` is false (finding 5, `chat_second_run`). `PanelUsesTheRuntime`
needs `KnownOK`: the host results and decisions that the panel sends are for calls the run has
asked. It makes what is proved of `ChatRuns` for any client hold under the panel; TLC checked
both on the instance of `chat_panel` before the proof.

### Observational memory

`OmEngineProofs`, for any messages, callers, thresholds, passes and rounds, under
`OmAssumption`: `EngineKeepsItsTypes` (`TypeOK`),
`OnlyOvertakenContentIsForgotten` (`ForgottenIsOvertaken`), `SessionsEndWithTheirCall`
(`NoSessionLeak`), `GenerationsKeepTheirInput` (`GenerationsAreReflections`) and
`MemoryIsNeverLost` (an action property). `ForgottenIsOvertaken` names the two ways a marked
message can be missing from the memory, which both need a second actor or a failure at one
await; in every other interleaving it is there or will be read again. Without the second the property is
false (finding 8).
The invariant adds to `TypeOK` and the properties

* `Stamped`: a message that is there has a time stamp;
* `Exclusive`: at most one caller is past `begin_thread`, which is what `active_threads` is for;
* `MarkedIsKnown`: a marked message that was not overtaken is complete, and in the memory or
  newer than the record's last one, so it will be read again;
* `PromptIsCurrent`: the memory in a prompt is still the stored one; a message in it that was
  neither cleared nor overtaken still has the content read, because a message is read only when
  it no longer streams and an edit afterwards overtakes it; and what is marked without being in
  the memory was read for the prompt. It is what makes an answer safe to apply although commands
  ran in between.

### Native graph

`NativeGraphProofs`, for any graph, scopes, threshold and bounds, with failing transactions and
crashes, under `NativeGraphAssumption`:

| Theorem | Statement |
|---|---|
| `NothingPersistedIsLost` | `Spec => []NothingLost` |
| `CacheServesCurrent` | `Spec => []CacheIsCurrent` |
| `DeltasAreComplete` | `Spec => []DeltaSinceCommitComplete` |
| `GenerationsOnlyGrow` | `Spec => GenerationsGrow` |
| `CurrentKernelHasWhatWasIngested` | `Spec => []CurrentKernelHasIngested` |
| `GraphKeepsItsTypes` | `Spec => []TypeOK` |
| `RestartShowsEverything` | `Spec => []RestartShowsAll` |

`IInv`, which is about numbers and generations, adds to the first three properties

* `LogOK`: the generations of the store have a greatest one (a `CHOOSE` has to be met), a batch
  the checkpoint does not hold has a generation above the checkpoint's, and no index entry
  claims more than was persisted;
* `KernelOK`: the token is never ahead of the store, and it is behind whenever a checkpoint is
  due. This is the heart: the compaction is safe only because its call has just appended, so
  the token is stale, the kernel is rebuilt, and what the call has not persisted yet is not
  written into the checkpoint;
* `TodoOK`: what is still to be persisted is not persisted, so a delta counts each batch once.

`HeldOK`, for `CurrentKernelHasWhatWasIngested` only, says that a persisted batch that a current
kernel lacks is a candidate refresh's, and so is one the kernel of a refresh under way lacks:
a refresh starts from a kernel that was made current, and what its compactions drop from the
kernel are its own batches. The proof has one lemma per action; steps that leave the log alone
share `MemoryStep`.

`DataInv`, for the last two theorems, is about batches and graphs. It says of `ideal`, the graph
of a kernel that was never rebuilt, and of `DurableGraph`, what a restart would rebuild now, that
the second `Covers` the first: it shows at least the vertices and the edges not rejected, and its
scope maps list no more, so
that the next batch of a scope, which removes what the map lists, removes no more from it. The
second half is the strengthening: `RestartShowsAll` alone is not inductive. Rejected edges are
left out of it, since a checkpoint drops them (finding 10); an edge judged again gets its new
status on both sides (`RejectedAfter`). Besides,

* `GoodGraph`: an edge is shown with its ends only, and what is shown has a record. A checkpoint
  keeps the records of what is active and not rejected and nothing else of the graph, so this is why a rebuild
  from a checkpoint shows it all again (`FullCovers`);
* `JournalOK`: no two batches of the journal have one generation, so a rebuild, which sorts by
  generation, has one order to apply them in; a document's batch brings vertices, a candidate
  scope's edges. It rests on `AssertedScopes` and `CandidateScopes` being disjoint, as the
  variants of `KernelMutationScope` are;
* `CommitOK`: a commit that an ingest will make is within the bound of the model.

`DurableGraph` is a fold over the journal. The library has no theorems for `MapThenFoldSet` that
the provers can use, so the module proves the four it needs: that the recursive function in its
definition exists (`FoldExists`), that replaying nothing changes nothing (`ReplayNone`), that a
set of graphs closed under the batches contains the result (`ReplayType`) and that a batch with
a number above all others is applied last (`ReplayMore`). Each is shown by a least
counterexample, since an induction rule with a predicate as its parameter is not available.
With them an append applies one batch to both sides of `Covers` (`ApplyCovers`). A checkpoint is
written from a kernel just rebuilt, because `KernelOK` says that the token is stale then. An
import replaces both sides by the graph of one export. TLC checked `DataInv` on the instance of
`native_graph` before it was proved.

### Only model-checked

Liveness, which is out of the prover's reach: `MutationsSettle`, `ContentEventuallyCheckpointed`,
`DirtyEventuallyFlushed`, `DriversReturn`, `ProcessingEnds`. Every safety property of the passing
runs, state invariant or action property, is proved, some under hypotheses: the persistence
theorems have those above, and `AwaitingIsDecidable` and `AppliedIsReported` are proved for one
run because they are false for two (TLC violates the first, too, on the instance of
`chat_second_run`: the second message makes its run the current one while the first run works,
and an approval the first run asks for then is out of the reach of the buttons). The violated
properties are refuted by TLC and have no theorem.

## 6. Not modelled

Persistence:

* Reads (`listNotes`, `exportDatabase`): they change no modelled state. `exportDatabase`
  calls the same `ensureDerivedLoaded` as `EnsureDerivedLoaded`.
* `clearAll` and the legacy snapshot files, which recovery ignores.
* Batches of more than one record. `nextManifestWithWalAppend` takes the count as a
  parameter in the model too; every caller of `runContentMutation` passes one mutation.
* Two tabs over one directory. The OPFS worker's mutex is per worker; a second service on
  the same disk is a composition planned below.
* An OPFS file that exists and cannot be read, and corrupt bytes (checksums, a torn tail):
  files are replaced as a whole, so a tail is never torn by a crash.
* At boot, rejections other than in the recovery: `initialize` fails and is tried again by
  the next call, which the model shows as a crash at `boot`.
* Timestamps, the schema tag, `recoveryState`, logging.

Chat: threads, the planner's read-only tools, artifacts, token batches of the stream (one event
per chunk changes only the text), store errors outside a tool round.

Observational memory: the context block for the prompt, the graph index of the memory, rows left
by a deleted thread, the older Go package `GoKitt/pkg/memory`.

Native graph: asserted edges beside candidate ones, attributes and weights, views as of a time,
the relation rows written beside the graph (`scoped_definitions`), lexical indexes, archives.
The delta since a commit older than the checkpoint reads what is left of the journal, without
the entries a compaction removed; the property is stated for the commits where it is complete.

Whole components: the Rust pipelines over text (ingest, relation post-processing, graptor,
invarant, scanner, hyperbolic index) are most of the repository's Rust lines. They compute
scores and rows from text, with heuristics and floating point, and keep no protocol between
steps: a TLA+ model would restate each formula and compare it with itself. The Cozo and
overgraph stores are the same interface to another database. The GoKitt runtime is superseded
by the Rust one. The Angular view state, the Tauri shell and vendored code have no logic of
this kind or are not this project's. For this reason the models cover a small share of the
implementation's lines.

## 7. Plan

Done: `PhoenixWal`, `PhoenixOpfs`, `PhoenixStore`, `ContentLog`; `ChatRuns`, `ChatPanel`;
`OmEngine`; `NativeGraph`; their runs and eight proof modules. What is left, in this order:

1. `PhoenixRpc`: the service's table of messages, packets sent again with a larger buffer,
   termination, chat streams and their cancellation. Abstract specification: every call settles
   exactly once, every command runs at most once. Fairness: the worker answers while it lives.
2. `NetworkViews`: read-modify-write callers, first over an abstract store, then composed with
   `ContentLog`.
3. Compositions: two `PhoenixStore` instances over one disk (two tabs), `clearAll` against an
   open service, chat commands whose snapshot is skipped while snapshots are paused.
4. `NativeGraph` with asserted edges.
5. A form of `EverySeqRecoveredOnce` that counts from the number of the imported image, since the
   property itself does not hold across an import (section 3): first as a run, then as a proof.
