---------------------------- MODULE PhoenixStore ----------------------------
(***************************************************************************)
(* PhoenixStoreService: the Phoenix runtime's content and derived state,   *)
(* kept durable by a write-ahead log and two kinds of checkpoint in OPFS.  *)
(*                                                                         *)
(* The service runs one task at a time (runSerialized chains promises); a  *)
(* task is a sequence of awaits.  Each await of the source, and inside a   *)
(* worker call each file operation, is a value of `pc` and an action;      *)
(* clients, timers, crashes and thrown errors interleave between them.     *)
(* The page is "down" before it is opened and after it is closed or        *)
(* crashes; a restart reads everything back from disk.                     *)
(***************************************************************************)
EXTENDS PhoenixOpfs

CONSTANTS
    CrashAt,        \* the points at which the page may go away, "worker" for the Phoenix worker
    ThrowAt,        \* the points whose await may reject
    MaxFaults,      \* bound: crashes and rejections in a behaviour
    MaxChain,       \* bound: tasks waiting in the chain
    MaxGeneration,  \* bound: no explicit snapshot is asked for past this one
    MaxDerived      \* bound: the derived partition's last version

ASSUME BoundAssumption ==
    /\ {MaxFaults, MaxChain, MaxGeneration, MaxDerived} \subseteq Nat
    /\ Mutations \cap Imports = {}

VARIABLES
    disk,           \* the files under phoenix-wal-v1
    rtUp,           \* the Phoenix worker holds an initialized runtime
    rtContent,      \* the runtime's content partition
    rtDerived,      \* the version of the runtime's derived partition
    manifest,       \* this.manifest
    derivedMeta,    \* this.manifestMeta.derivedCheckpoint's file
    derivedDirty,   \* this.derivedDirty
    loadState,      \* this.derivedLoadState
    contentTimer,   \* contentCheckpointTimeout is armed
    derivedTimer,   \* derivedCheckpointTimeout is armed
    hydration,      \* the boot's Dexie hydration, which pauses snapshots
    chain,          \* tasks queued behind the running one
    job,            \* the running task
    pc,             \* where it is
    flush,          \* the checkpoint it is writing, if any
    next,           \* the manifest it is committing
    prune,          \* the files it has left to remove
    truncating,     \* its commit ends with a truncation of the active log
    exported,       \* the derived version it exported
    marking,        \* a caller changed derived data, markDerivedDirty is due
    status,         \* what each caller knows of its request
    faults          \* crashes and rejections so far

runtimeVars == <<rtUp, rtContent, rtDerived>>
derivedVars == <<derivedMeta, derivedDirty, loadState>>
timerVars   == <<contentTimer, derivedTimer, hydration>>
frameVars   == <<flush, next, prune, truncating, exported>>
serviceVars == <<manifest, derivedVars, timerVars>>
clientVars  == <<marking, status, faults>>
vars == <<disk, runtimeVars, serviceVars, chain, job, pc, frameVars, clientVars>>

-----------------------------------------------------------------------------
(* Types. *)

Requests == Mutations \cup Imports
NoJob == [op |-> "none"]
Tasks == [op: {"mutate"}, arg: Mutations] \cup [op: {"import"}, arg: Imports]
             \cup [op: {"checkpoint", "derived", "snapshot", "load"}]

BootPoints == {"boot", "recover", "reset"}
CommitPoints == {"close", "backup", "primary", "truncate"}
ReloadPoints == {"reload", "reloadManifest", "reloadReplay"}
LoadPoints == {"loadDerived", "clearDerived"}
FlushPoints == {"writeContent", "exportDerived", "writeDerived", "committed", "prune"}
Points == {"down", "idle", "append", "apply", "import"} \cup BootPoints \cup CommitPoints
              \cup ReloadPoints \cup LoadPoints \cup FlushPoints

FileType(f, value) ==
    /\ f \in {ManifestFile, ManifestBak} => value \in Manifests
    /\ f \in {ActiveLog} \cup SegmentFiles => value \in Seq(Records)
    /\ f \in ContentCheckpointFiles => value \in SUBSET Records
    /\ f \in DerivedCheckpointFiles => value \in Nat

TypeOK ==
    /\ DOMAIN disk \subseteq FileIds
    /\ \A f \in DOMAIN disk : FileType(f, disk[f])
    /\ rtUp \in BOOLEAN
    /\ rtContent \in SUBSET Records
    /\ rtDerived \in Nat
    /\ manifest \in Manifests
    /\ derivedMeta \in DerivedCheckpointFiles \cup {NoFile}
    /\ derivedDirty \in BOOLEAN
    /\ loadState \in {"cold", "loading", "ready"}
    /\ contentTimer \in BOOLEAN
    /\ derivedTimer \in BOOLEAN
    /\ hydration \in {"pending", "running", "done"}
    /\ chain \in Seq(Tasks)
    /\ job \in Tasks \cup {NoJob}
    /\ pc \in Points
    /\ flush \in {"none", "content", "derived"}
    /\ next \in Manifests
    /\ prune \in SUBSET FileIds
    /\ truncating \in BOOLEAN
    /\ exported \in Nat
    /\ marking \in BOOLEAN
    /\ status \in [Requests -> {"new", "queued", "acked", "rejected", "lost"}]
    /\ faults \in Nat

-----------------------------------------------------------------------------
(* The page before its first boot: nothing on disk, nothing in memory. *)

Init ==
    /\ disk = [f \in {} |-> EmptyManifest]
    /\ rtUp = FALSE
    /\ rtContent = {}
    /\ rtDerived = 0
    /\ manifest = EmptyManifest
    /\ derivedMeta = NoFile
    /\ derivedDirty = FALSE
    /\ loadState = "cold"
    /\ contentTimer = FALSE
    /\ derivedTimer = FALSE
    /\ hydration = "pending"
    /\ chain = <<>>
    /\ job = NoJob
    /\ pc = "down"
    /\ flush = "none"
    /\ next = EmptyManifest
    /\ prune = {}
    /\ truncating = FALSE
    /\ exported = 0
    /\ marking = FALSE
    /\ status = [r \in Requests |-> "new"]
    /\ faults = 0

-----------------------------------------------------------------------------
(* Shared steps. *)

Initialized == pc \notin BootPoints \cup {"down"}
Paused == hydration = "running"

\* Mutant: armed only past the size thresholds.
ContentTimerAfterThreshold(m) ==
    contentTimer \/ (~ Paused /\ ShouldCheckpointContent(m))

\* scheduleContentCheckpoint: a checkpoint is armed for a manifest with
\* records past its checkpoint, unless snapshots are paused.
ContentTimerAfter(m) ==
    \/ contentTimer
    \/ ~ Paused /\ (HasUncheckpointed(m) \/ ShouldCheckpointContent(m))

NextTask(op) == pc = "idle" /\ chain # <<>> /\ Head(chain).op = op

DequeueInto(point) ==
    /\ job' = Head(chain)
    /\ chain' = Tail(chain)
    /\ pc' = point

\* A task that returns before its first await.
SkipTask == chain' = Tail(chain) /\ UNCHANGED <<job, pc>>

ClearFrame ==
    /\ flush' = "none"
    /\ next' = EmptyManifest
    /\ prune' = {}
    /\ truncating' = FALSE
    /\ exported' = 0

EndJob ==
    /\ pc' = "idle"
    /\ job' = NoJob
    /\ ClearFrame

Settle(answer) == status' = [status EXCEPT ![job.arg] = answer]

\* Where a fault would strike.  A mutation's commit up to the write of the
\* primary manifest has a name of its own: its record is in the active log and
\* no manifest in force counts it.
Here ==
    IF flush = "none" /\ pc \in {"close", "backup", "primary"} THEN "uncommitted" ELSE pc

\* An await that rejects, while the behaviour's budget of faults lasts.
MayThrow == Here \in ThrowAt /\ faults < MaxFaults
CountFault == faults' = faults + 1

\* An await rejects because it must, or by a fault.
Rejects(forced) ==
    \/ forced /\ UNCHANGED faults
    \/ MayThrow /\ CountFault

-----------------------------------------------------------------------------
(* Boot: initializeInternal. *)

\* A page is opened: a fresh worker holds an empty runtime.
Restart ==
    /\ pc = "down"
    /\ pc' = "boot"
    /\ rtUp' = TRUE
    /\ UNCHANGED <<disk, rtContent, rtDerived, serviceVars, chain, job, frameVars, clientVars>>

LoadManifest ==
    /\ pc = "boot"
    /\ manifest' = CurrentManifest(disk)
    /\ derivedMeta' = CurrentManifest(disk).derivedFile
    /\ IF HasManifest(disk)
       THEN pc' = "recover" /\ UNCHANGED loadState
       ELSE pc' = "idle" /\ loadState' = "ready"
    /\ UNCHANGED <<disk, runtimeVars, derivedDirty, timerVars, chain, job, frameVars, clientVars>>

LoadStateOf(m) == IF m.derivedFile = NoFile THEN "ready" ELSE "cold"

RecoverRuntime ==
    /\ pc = "recover"
    /\ Recoverable(disk, manifest)
    /\ rtContent' = Recovered(disk, manifest)
    /\ loadState' = LoadStateOf(manifest)
    /\ pc' = "idle"
    /\ UNCHANGED <<disk, rtUp, rtDerived, manifest, derivedMeta, derivedDirty, timerVars,
                   chain, job, frameVars, clientVars>>

\* Any error of the recovery resets the persistence: every file is to go.
RecoverThrows ==
    /\ pc = "recover"
    /\ Rejects(~ Recoverable(disk, manifest))
    /\ prune' = CollectManifestFiles(manifest)
    /\ pc' = "reset"
    /\ UNCHANGED <<disk, runtimeVars, serviceVars, chain, job, flush, next, truncating,
                   exported, marking, status>>

ResetRuntime ==
    /\ pc = "reset"
    /\ prune = {}
    /\ rtUp' = TRUE
    /\ rtContent' = {}
    /\ rtDerived' = 0
    /\ manifest' = EmptyManifest
    /\ derivedMeta' = NoFile
    /\ loadState' = "ready"
    /\ pc' = "idle"
    /\ UNCHANGED <<disk, derivedDirty, timerVars, chain, job, frameVars, clientVars>>

\* Mutant: the manifest copies are removed last.
PruneRankManifestLast(f) == IF f \in {ManifestFile, ManifestBak} THEN 1 ELSE 0

\* The order prunePhoenixFiles takes the files of its list in.
PruneRank(f) ==
    CASE f = ManifestFile -> 0
      [] f = ManifestBak -> 1
      [] f = ActiveLog -> 2
      [] f \in ContentCheckpointFiles -> 3
      [] f \in DerivedCheckpointFiles -> 4
      [] OTHER -> 5

\* prunePhoenixFiles goes on to the next file whether or not this one is gone:
\* the removal's failure is caught, and taken for a file that was missing.
PruneFile(f) ==
    /\ pc \in {"reset", "prune"}
    /\ f \in prune
    /\ \A g \in prune : PruneRank(f) <= PruneRank(g)
    /\ \/ disk' = WithoutFile(disk, f) /\ UNCHANGED faults
       \/ MayThrow /\ CountFault /\ UNCHANGED disk
    /\ prune' = prune \ {f}
    /\ UNCHANGED <<runtimeVars, serviceVars, chain, job, pc, flush, next, truncating,
                   exported, marking, status>>

-----------------------------------------------------------------------------
(* Callers, timers and the boot hydration (hydrateDexieFromPhoenix). *)

Enqueue(task) ==
    /\ Initialized
    /\ Len(chain) < MaxChain
    /\ chain' = Append(chain, task)

RequestMutation(m) ==
    /\ status[m] = "new"
    /\ Enqueue([op |-> "mutate", arg |-> m])
    /\ status' = [status EXCEPT ![m] = "queued"]
    /\ UNCHANGED <<disk, runtimeVars, serviceVars, job, pc, frameVars, marking, faults>>

RequestImport(i) ==
    /\ status[i] = "new"
    /\ Enqueue([op |-> "import", arg |-> i])
    /\ status' = [status EXCEPT ![i] = "queued"]
    /\ UNCHANGED <<disk, runtimeVars, serviceVars, job, pc, frameVars, marking, faults>>

\* triggerSnapshot looks at the pause when it is called, not when it runs.
TriggerSnapshot ==
    /\ ~ Paused
    /\ manifest.generation < MaxGeneration
    /\ Enqueue([op |-> "snapshot"])
    /\ UNCHANGED <<disk, runtimeVars, serviceVars, job, pc, frameVars, clientVars>>

\* ensureDerivedLoaded: one load at a time (derivedLoadPromise).
EnsureDerivedLoaded ==
    /\ loadState # "ready"
    /\ job.op # "load"
    /\ \A k \in DOMAIN chain : chain[k].op # "load"
    /\ Enqueue([op |-> "load"])
    /\ UNCHANGED <<disk, runtimeVars, serviceVars, job, pc, frameVars, clientVars>>

\* A caller that saw the derived partition ready changes it in the runtime ...
ChangeDerived ==
    /\ Initialized
    /\ rtUp
    /\ loadState = "ready"
    /\ ~ marking
    /\ rtDerived < MaxDerived
    /\ rtDerived' = rtDerived + 1
    /\ marking' = TRUE
    /\ UNCHANGED <<disk, rtUp, rtContent, serviceVars, chain, job, pc, frameVars, status, faults>>

\* ... and marks it dirty once the runtime has answered.
MarkDerivedDirty ==
    /\ marking
    /\ marking' = FALSE
    /\ derivedDirty' = (derivedDirty \/ loadState = "ready")
    /\ derivedTimer' = (derivedTimer \/ (loadState = "ready" /\ ~ Paused))
    /\ UNCHANGED <<disk, runtimeVars, manifest, derivedMeta, loadState, contentTimer, hydration,
                   chain, job, pc, frameVars, status, faults>>

ContentTimerFires ==
    /\ contentTimer
    /\ contentTimer' = FALSE
    /\ Enqueue([op |-> "checkpoint"])
    /\ UNCHANGED <<disk, runtimeVars, manifest, derivedVars, derivedTimer, hydration,
                   job, pc, frameVars, clientVars>>

DerivedTimerFires ==
    /\ derivedTimer
    /\ derivedTimer' = FALSE
    /\ Enqueue([op |-> "derived"])
    /\ UNCHANGED <<disk, runtimeVars, manifest, derivedVars, contentTimer, hydration,
                   job, pc, frameVars, clientVars>>

PauseSnapshots ==
    /\ Initialized
    /\ hydration = "pending"
    /\ hydration' = "running"
    /\ contentTimer' = FALSE
    /\ derivedTimer' = FALSE
    /\ UNCHANGED <<disk, runtimeVars, manifest, derivedVars, chain, job, pc, frameVars, clientVars>>

\* Mutant: forgets the derived changes made while paused.
ResumeSnapshotsContentOnly ==
    /\ hydration = "running"
    /\ hydration' = "done"
    /\ contentTimer' = (HasUncheckpointed(manifest) \/ ShouldCheckpointContent(manifest))
    /\ derivedTimer' = FALSE
    /\ UNCHANGED <<disk, runtimeVars, manifest, derivedVars, chain, job, pc, frameVars, clientVars>>

ResumeSnapshots ==
    /\ hydration = "running"
    /\ hydration' = "done"
    /\ contentTimer' = (HasUncheckpointed(manifest) \/ ShouldCheckpointContent(manifest))
    /\ derivedTimer' = (derivedDirty /\ loadState = "ready")
    /\ UNCHANGED <<disk, runtimeVars, manifest, derivedVars, chain, job, pc, frameVars, clientVars>>

-----------------------------------------------------------------------------
(* runContentMutation. *)

StartMutation ==
    /\ NextTask("mutate")
    /\ DequeueInto("append")
    /\ UNCHANGED <<disk, runtimeVars, serviceVars, frameVars, clientVars>>

Batch == [seq |-> manifest.nextSeq, mut |-> job.arg]

\* The worker appends and counts from the manifest it reads from disk.
AppendWal ==
    /\ pc = "append"
    /\ LET log == Append(ActiveRecords(disk), Batch)
       IN  /\ disk' = WithFile(disk, ActiveLog, log)
           /\ next' = NextManifestWithWalAppend(manifest, 1, Len(log),
                                                CurrentManifest(disk).activeCount + 1)
    /\ pc' = "close"
    /\ UNCHANGED <<runtimeVars, serviceVars, chain, job, flush, prune, truncating, exported,
                   clientVars>>

ApplyBatch ==
    /\ pc = "apply"
    /\ rtUp
    /\ rtContent' = rtContent \cup {Batch}
    /\ manifest' = next
    /\ contentTimer' = ContentTimerAfter(next)
    /\ Settle("acked")
    /\ EndJob
    /\ UNCHANGED <<disk, rtUp, rtDerived, derivedVars, derivedTimer, hydration, chain, marking, faults>>

\* The runtime may have stored the record when it fails (the index is rebuilt last).
ApplyThrows ==
    /\ pc = "apply"
    /\ Rejects(~ rtUp)
    /\ \/ UNCHANGED rtContent
       \/ rtUp /\ rtContent' = rtContent \cup {Batch}
    /\ pc' = "reload"
    /\ UNCHANGED <<disk, rtUp, rtDerived, serviceVars, chain, job, frameVars, marking, status>>

-----------------------------------------------------------------------------
(* reloadRuntimeFromPersistence, after the runtime refused a committed batch. *)

\* initRuntime(true), in a new worker when the last one died.
ReloadRuntime ==
    /\ pc = "reload"
    /\ rtUp' = TRUE
    /\ rtContent' = {}
    /\ rtDerived' = 0
    /\ pc' = "reloadManifest"
    /\ UNCHANGED <<disk, serviceVars, chain, job, frameVars, clientVars>>

\* The mutation resolves as if it had been applied.
ReloadManifest ==
    /\ pc = "reloadManifest"
    /\ manifest' = CurrentManifest(disk)
    /\ derivedMeta' = CurrentManifest(disk).derivedFile
    /\ pc' = "reloadReplay"
    /\ UNCHANGED <<disk, runtimeVars, derivedDirty, loadState, timerVars, chain, job,
                   frameVars, clientVars>>

AcknowledgeReload ==
    /\ contentTimer' = ContentTimerAfter(manifest)
    /\ Settle("acked")
    /\ EndJob

\* A derived partition that was loaded before the reload is loaded again.
ReloadReplay ==
    /\ pc = "reloadReplay"
    /\ rtUp
    /\ Recoverable(disk, manifest)
    /\ rtContent' = Recovered(disk, manifest)
    /\ IF loadState = "ready" /\ manifest.derivedFile # NoFile
       THEN /\ loadState' = "loading"
            /\ pc' = "loadDerived"
            /\ UNCHANGED <<contentTimer, job, frameVars, status>>
       ELSE /\ loadState' = LoadStateOf(manifest)
            /\ AcknowledgeReload
    /\ UNCHANGED <<disk, rtUp, rtDerived, manifest, derivedMeta, derivedDirty, derivedTimer,
                   hydration, chain, marking, faults>>

\* The recovery throws part way: the mutation is refused and the runtime stays
\* as far as it was rebuilt.
ReloadReplayThrows ==
    /\ pc = "reloadReplay"
    /\ Rejects(~ rtUp \/ ~ Recoverable(disk, manifest))
    /\ \/ ~ rtUp /\ UNCHANGED rtContent
       \/ rtUp /\ rtContent' \in PartialRecoveries(disk, manifest)
    /\ Settle("rejected")
    /\ EndJob
    /\ UNCHANGED <<disk, rtUp, rtDerived, serviceVars, chain, marking>>

-----------------------------------------------------------------------------
(* loadDerivedCheckpointIntoRuntime, as a task of its own and after a reload. *)

StartLoad ==
    /\ NextTask("load")
    /\ \/ /\ loadState # "ready" /\ manifest.derivedFile # NoFile
          /\ DequeueInto("loadDerived")
          /\ loadState' = "loading"
       \/ /\ loadState = "ready" \/ manifest.derivedFile = NoFile
          /\ SkipTask
          /\ loadState' = "ready"
    /\ UNCHANGED <<disk, runtimeVars, manifest, derivedMeta, derivedDirty, timerVars, frameVars,
                   clientVars>>

\* The file the load reads is the one the manifest had when it was read from
\* disk, when there is one.
LoadedFile == IF derivedMeta # NoFile THEN derivedMeta ELSE manifest.derivedFile

EndLoad ==
    IF job.op = "mutate" THEN AcknowledgeReload
    ELSE EndJob /\ UNCHANGED <<contentTimer, status>>

LoadDerived ==
    /\ pc = "loadDerived"
    /\ rtUp
    /\ LoadedFile \in DOMAIN disk
    /\ rtDerived' = disk[LoadedFile]
    /\ loadState' = "ready"
    /\ EndLoad
    /\ UNCHANGED <<disk, rtUp, rtContent, manifest, derivedMeta, derivedDirty, derivedTimer,
                   hydration, chain, marking, faults>>

\* The image may be in when clearing the ephemera after it fails.
LoadDerivedThrows ==
    /\ pc = "loadDerived"
    /\ Rejects(~ rtUp \/ LoadedFile \notin DOMAIN disk)
    /\ \/ UNCHANGED rtDerived
       \/ rtUp /\ LoadedFile \in DOMAIN disk /\ rtDerived' = disk[LoadedFile]
    /\ pc' = "clearDerived"
    /\ UNCHANGED <<disk, rtUp, rtContent, serviceVars, chain, job, frameVars, marking, status>>

ClearDerived ==
    /\ pc = "clearDerived"
    /\ rtUp
    /\ rtDerived' = 0
    /\ loadState' = "ready"
    /\ derivedDirty' = FALSE
    /\ EndLoad
    /\ UNCHANGED <<disk, rtUp, rtContent, manifest, derivedMeta, derivedTimer, hydration, chain,
                   marking, faults>>

-----------------------------------------------------------------------------
(* The checkpoints: flushContentCheckpoint and flushDerivedCheckpoint. *)

\* The task of the content timer; the flush disarms the timer it finds.
StartContentCheckpoint ==
    /\ NextTask("checkpoint")
    /\ contentTimer' = FALSE
    /\ IF HasUncheckpointed(manifest) \/ ShouldCheckpointContent(manifest)
       THEN DequeueInto("writeContent") /\ flush' = "content"
       ELSE SkipTask /\ UNCHANGED flush
    /\ UNCHANGED <<disk, runtimeVars, manifest, derivedVars, derivedTimer, hydration,
                   next, prune, truncating, exported, clientVars>>

StartDerivedCheckpoint ==
    /\ NextTask("derived")
    /\ derivedTimer' = FALSE
    /\ IF derivedDirty /\ loadState = "ready"
       THEN DequeueInto("exportDerived") /\ flush' = "derived"
       ELSE SkipTask /\ UNCHANGED flush
    /\ UNCHANGED <<disk, runtimeVars, manifest, derivedVars, contentTimer, hydration,
                   next, prune, truncating, exported, clientVars>>

StartSnapshot ==
    /\ NextTask("snapshot")
    /\ DequeueInto("writeContent")
    /\ flush' = "content"
    /\ contentTimer' = FALSE
    /\ UNCHANGED <<disk, runtimeVars, manifest, derivedVars, derivedTimer, hydration,
                   next, prune, truncating, exported, clientVars>>

\* Mutant: the checkpoint claims the next sequence number too.
WriteContentCheckpointOffByOne ==
    /\ pc = "writeContent"
    /\ rtUp
    /\ LET file == ContentCheckpointFile(manifest.generation + 1)
       IN  /\ disk' = WithFile(disk, file, rtContent)
           /\ next' = FinalizeContentCheckpointManifest(manifest, file, manifest.nextSeq)
           /\ prune' = ContentPruneFiles(manifest, file, manifest.nextSeq)
    /\ pc' = "close"
    /\ UNCHANGED <<runtimeVars, serviceVars, chain, job, flush, truncating, exported, clientVars>>

WriteContentCheckpoint ==
    /\ pc = "writeContent"
    /\ rtUp
    /\ LET file == ContentCheckpointFile(manifest.generation + 1)
           lastSeq == manifest.nextSeq - 1
       IN  /\ disk' = WithFile(disk, file, rtContent)
           /\ next' = FinalizeContentCheckpointManifest(manifest, file, lastSeq)
           /\ prune' = ContentPruneFiles(manifest, file, lastSeq)
    /\ pc' = "close"
    /\ UNCHANGED <<runtimeVars, serviceVars, chain, job, flush, truncating, exported, clientVars>>

\* The export waits for the derived partition to be loaded; waiting here, inside
\* the chain, would be forever.
ExportDerived ==
    /\ pc = "exportDerived"
    /\ rtUp
    /\ loadState = "ready"
    /\ exported' = rtDerived
    /\ pc' = "writeDerived"
    /\ UNCHANGED <<disk, runtimeVars, serviceVars, chain, job, flush, next, prune, truncating,
                   clientVars>>

WriteDerivedCheckpoint ==
    /\ pc = "writeDerived"
    /\ LET file == DerivedCheckpointFile(manifest.generation + 1)
       IN  /\ disk' = WithFile(disk, file, exported)
           /\ next' = FinalizeDerivedCheckpointManifest(manifest, file)
           /\ prune' = DerivedPruneFiles(manifest, file)
    /\ pc' = "close"
    /\ UNCHANGED <<runtimeVars, serviceVars, chain, job, flush, truncating, exported, clientVars>>

BeginPrune ==
    /\ pc = "committed"
    /\ prune # {}
    /\ pc' = "prune"
    /\ UNCHANGED <<disk, runtimeVars, serviceVars, chain, job, frameVars, clientVars>>

\* Mutant: every content checkpoint is followed by a derived one.
ThenDerivedAlways == flush = "content"

\* A snapshot and an import flush the derived partition after the content.
ThenDerived ==
    /\ flush = "content"
    /\ loadState = "ready"
    /\ job.op = "import" \/ (job.op = "snapshot" /\ derivedDirty)

FinishFlush ==
    /\ pc \in {"committed", "prune"}
    /\ prune = {}
    /\ manifest' = next
    /\ derivedDirty' = (derivedDirty /\ flush = "content")
    /\ IF ThenDerived
       THEN /\ flush' = "derived"
            /\ derivedTimer' = FALSE
            /\ pc' = "exportDerived"
            /\ UNCHANGED <<job, next, prune, truncating, exported, status>>
       ELSE /\ EndJob
            /\ IF job.op = "import" THEN Settle("acked") ELSE UNCHANGED status
            /\ UNCHANGED derivedTimer
    /\ UNCHANGED <<disk, runtimeVars, derivedMeta, loadState, contentTimer, hydration, chain,
                   marking, faults>>

-----------------------------------------------------------------------------
(* importDatabase: the image replaces the runtime's partitions and an empty *)
(* manifest replaces the service's before anything is written.              *)

StartImport ==
    /\ NextTask("import")
    /\ DequeueInto("import")
    /\ UNCHANGED <<disk, runtimeVars, serviceVars, frameVars, clientVars>>

ImportSnapshot ==
    /\ pc = "import"
    /\ rtUp
    /\ rtContent' = {[seq |-> 0, mut |-> job.arg]}
    /\ rtDerived' = rtDerived + 1
    /\ manifest' = EmptyManifest
    /\ derivedDirty' = TRUE
    /\ contentTimer' = FALSE
    /\ flush' = "content"
    /\ pc' = "writeContent"
    /\ UNCHANGED <<disk, rtUp, derivedMeta, loadState, derivedTimer, hydration, chain, job, next,
                   prune, truncating, exported, clientVars>>

-----------------------------------------------------------------------------
(* commitPhoenixManifest, for a mutation and for both checkpoints. *)

\* Mutant: truncates the active log before the manifest is committed.
CloseSegmentsAndTruncate ==
    /\ pc = "close"
    /\ disk' = IF ShouldTruncateActive(disk, next)
               THEN WithFile(WithClosedSegments(disk, next), ActiveLog, <<>>)
               ELSE WithClosedSegments(disk, next)
    /\ truncating' = FALSE
    /\ pc' = "backup"
    /\ UNCHANGED <<runtimeVars, serviceVars, chain, job, flush, next, prune, exported, clientVars>>

CloseSegments ==
    /\ pc = "close"
    /\ disk' = WithClosedSegments(disk, next)
    /\ truncating' = ShouldTruncateActive(disk, next)
    /\ pc' = "backup"
    /\ UNCHANGED <<runtimeVars, serviceVars, chain, job, flush, next, prune, exported, clientVars>>

WriteBackup ==
    /\ pc = "backup"
    /\ disk' = WithFile(disk, ManifestBak, next)
    /\ pc' = "primary"
    /\ UNCHANGED <<runtimeVars, serviceVars, chain, job, frameVars, clientVars>>

\* Mutant: every commit continues as a checkpoint's, which answers no mutation.
AfterCommitCheckpoint == "committed"

\* Where the caller of commitManifest continues.
AfterCommit == IF flush = "none" THEN "apply" ELSE "committed"

WritePrimary ==
    /\ pc = "primary"
    /\ disk' = WithFile(disk, ManifestFile, next)
    /\ pc' = IF truncating THEN "truncate" ELSE AfterCommit
    /\ UNCHANGED <<runtimeVars, serviceVars, chain, job, frameVars, clientVars>>

\* A truncation that fails is only warned about.
TruncateActive ==
    /\ pc = "truncate"
    /\ \/ disk' = WithFile(disk, ActiveLog, <<>>) /\ UNCHANGED faults
       \/ MayThrow /\ CountFault /\ UNCHANGED disk
    /\ pc' = AfterCommit
    /\ UNCHANGED <<runtimeVars, serviceVars, chain, job, frameVars, marking, status>>

-----------------------------------------------------------------------------
(* Rejections and crashes. *)

\* The awaits whose rejection ends the task and leaves the service's memory as
\* it is.  The pruning call can only reject before it removes anything.
RejectPoints == {"append", "close", "backup", "primary", "reload", "reloadManifest",
                 "clearDerived", "import", "writeContent", "exportDerived", "writeDerived",
                 "committed"}

FailTask ==
    /\ IF job.op \in {"mutate", "import"} THEN Settle("rejected") ELSE UNCHANGED status
    /\ EndJob
    /\ UNCHANGED <<disk, runtimeVars, serviceVars, chain, marking>>

TaskThrows ==
    /\ pc \in RejectPoints
    /\ pc = "committed" => prune # {}
    /\ MayThrow /\ CountFault
    /\ FailTask

\* The awaits among them that ask the runtime: without one they must reject.
RuntimePoints == {"clearDerived", "import", "writeContent", "exportDerived"}

RuntimeLost ==
    /\ pc \in RuntimePoints
    /\ ~ rtUp
    /\ FailTask
    /\ UNCHANGED faults

\* The Phoenix worker fails while the page stays open.  The next call starts a
\* new one, whose runtime is not initialized: calls reject until a reload.
WorkerDies ==
    /\ Initialized /\ rtUp /\ "worker" \in CrashAt
    /\ faults < MaxFaults /\ CountFault
    /\ rtUp' = FALSE
    /\ rtContent' = {}
    /\ rtDerived' = 0
    /\ UNCHANGED <<disk, serviceVars, chain, job, pc, frameVars, marking, status>>

\* The page and both its workers go away between any two steps.
Crash ==
    /\ pc # "down" /\ Here \in CrashAt
    /\ faults < MaxFaults /\ CountFault
    /\ rtUp' = FALSE
    /\ rtContent' = {}
    /\ rtDerived' = 0
    /\ manifest' = EmptyManifest
    /\ derivedMeta' = NoFile
    /\ derivedDirty' = FALSE
    /\ loadState' = "cold"
    /\ contentTimer' = FALSE
    /\ derivedTimer' = FALSE
    /\ hydration' = "pending"
    /\ chain' = <<>>
    /\ job' = NoJob
    /\ pc' = "down"
    /\ ClearFrame
    /\ marking' = FALSE
    /\ status' = [r \in Requests |-> IF status[r] = "queued" THEN "lost" ELSE status[r]]
    /\ UNCHANGED disk

-----------------------------------------------------------------------------
Boot == LoadManifest \/ RecoverRuntime \/ RecoverThrows \/ ResetRuntime

Callers ==
    \/ \E m \in Mutations : RequestMutation(m)
    \/ \E i \in Imports : RequestImport(i)
    \/ TriggerSnapshot \/ EnsureDerivedLoaded
    \/ ChangeDerived \/ MarkDerivedDirty
    \/ PauseSnapshots \/ ResumeSnapshots
    \/ ContentTimerFires \/ DerivedTimerFires

Mutate == StartMutation \/ AppendWal \/ ApplyBatch \/ ApplyThrows

Reload == ReloadRuntime \/ ReloadManifest \/ ReloadReplay \/ ReloadReplayThrows

Load == StartLoad \/ LoadDerived \/ LoadDerivedThrows \/ ClearDerived

Checkpoint ==
    \/ StartContentCheckpoint \/ StartDerivedCheckpoint \/ StartSnapshot
    \/ WriteContentCheckpoint \/ ExportDerived \/ WriteDerivedCheckpoint
    \/ BeginPrune \/ FinishFlush
    \/ \E f \in prune : PruneFile(f)

Import == StartImport \/ ImportSnapshot

Commit == CloseSegments \/ WriteBackup \/ WritePrimary \/ TruncateActive

\* The steps the service and its workers take on their own.
Progress ==
    \/ Boot \/ Mutate \/ Reload \/ Load \/ Checkpoint \/ Import \/ Commit \/ RuntimeLost

Next == Progress \/ Callers \/ TaskThrows \/ WorkerDies \/ Crash \/ Restart

Spec == Init /\ [][Next]_vars

\* While the page is open, pending promises settle and timers fire, the caller
\* that changed derived data marks it, and the boot hydrates Dexie once and
\* resumes the snapshots it paused (a finally block).  Nobody has to reopen it.
Fairness ==
    /\ WF_vars(Progress)
    /\ WF_vars(ContentTimerFires)
    /\ WF_vars(DerivedTimerFires)
    /\ WF_vars(MarkDerivedDirty)
    /\ WF_vars(PauseSnapshots)
    /\ WF_vars(ResumeSnapshots)

FairSpec == Spec /\ Fairness

-----------------------------------------------------------------------------
(* Properties. *)

DiskManifest == CurrentManifest(disk)

\* The content a restart at this instant would rebuild: none without a manifest,
\* and none when a file of the manifest is missing, for the boot resets then.
DurableContent ==
    IF HasManifest(disk) /\ Recoverable(disk, DiskManifest)
    THEN Recovered(disk, DiskManifest)
    ELSE {}

\* Both manifest copies name only files that exist, at every instant, so no
\* boot finds a checkpoint or a segment missing and resets the persistence
\* (initializeInternal's catch): files are written before the manifest that
\* names them and pruned after every copy stopped naming them.  A reset in
\* which the removal of a manifest copy fails breaks it.
NoDanglingReference ==
    \A f \in {ManifestFile, ManifestBak} \cap DOMAIN disk :
        References(disk[f]) \subseteq DOMAIN disk

\* The checkpoint and the log together hold exactly one record for each
\* sequence number the manifest in force has handed out: no crash between the
\* checkpoint, the commit, the truncation and the pruning opens a gap or makes
\* replay take two records for one number.
EverySeqRecoveredOnce ==
    /\ {rec.seq : rec \in DurableContent} \ {0} = 1 .. DiskManifest.nextSeq - 1
    /\ \A r1, r2 \in DurableContent : r1.seq = r2.seq => r1 = r2

\* A mutation whose promise resolved is in the content a restart rebuilds:
\* Dexie is wiped at boot and filled from Phoenix (app.component.ts).
AckedMutationsRecovered ==
    \A m \in Mutations : status[m] = "acked" => \E rec \in DurableContent : rec.mut = m

\* Between tasks a runtime that answers serves exactly the content a restart
\* would rebuild: what was read before a restart is read after it.
ServedIsRecoverable ==
    (pc = "idle" /\ rtUp) => rtContent = DurableContent

\* Without faults no file outlives the manifest that named it: segments and
\* checkpoints that a checkpoint supersedes are pruned by its task.
NoOrphanFiles ==
    (pc = "idle" /\ faults = 0) => DOMAIN disk \subseteq CollectManifestFiles(manifest)

\* The deferred derived load uses the file remembered when the manifest was
\* last read from disk; it is still the current one, and still there.
LoadReadsCurrentDerived ==
    pc = "loadDerived" => LoadedFile = manifest.derivedFile /\ LoadedFile \in DOMAIN disk

\* A flush never awaits the derived load from inside the task chain, where the
\* load it would wait for is queued behind it (exportSnapshotPartition calls
\* ensureDerivedLoaded).
FlushNeverAwaitsItself == pc = "exportDerived" => loadState = "ready"

\* What knowledgeSave tells its callers: when nothing is running, queued,
\* armed or about to be marked, the loaded derived partition is the one in the
\* derived checkpoint.
DerivedChangesPersisted ==
    (pc = "idle" /\ rtUp /\ chain = <<>> /\ hydration = "done" /\ loadState = "ready"
        /\ ~ marking /\ ~ derivedTimer)
    => rtDerived = IF manifest.derivedFile = NoFile THEN 0 ELSE disk[manifest.derivedFile]

\* A file that the manifest in force names is never overwritten or removed,
\* except by a reset: generations and segment ranges are not reused while the
\* files named after them are in use.
ReferencedFilesImmutable ==
    [][pc # "reset" => \A f \in References(DiskManifest) :
                           f \in DOMAIN disk' /\ disk'[f] = disk[f]]_disk

\* The store implements the durable log its callers rely on.
Log == INSTANCE ContentLog WITH log <- DurableContent
ImplementsContentLog == Log!Spec

\* Every mutation in the chain is answered, unless the page goes away.
MutationsSettle ==
    \A m \in Mutations : status[m] = "queued" ~> status[m] # "queued"

\* While the page stays open the log is eventually folded into a checkpoint,
\* also one that only a previous session wrote.
ContentEventuallyCheckpointed ==
    (Initialized /\ HasUncheckpointed(manifest))
        ~> (pc = "down" \/ ~ HasUncheckpointed(manifest))

\* While the page stays open a dirty derived partition is eventually flushed.
DirtyEventuallyFlushed == derivedDirty ~> ~ derivedDirty

=============================================================================
