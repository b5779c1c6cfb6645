------------------------- MODULE PhoenixStoreFiles -------------------------
(***************************************************************************)
(* Which files the store reads, keeps and leaves behind, for every value   *)
(* of the constants that imports nothing: the deferred derived load reads  *)
(* the current derived checkpoint, a run without faults leaves no file     *)
(* behind, and no file that the manifest in force names is overwritten.    *)
(***************************************************************************)
EXTENDS PhoenixStoreProofs

-----------------------------------------------------------------------------
(* The fields of the manifests the operations compute. *)

\* An append moves nextSeq on by one; it counts its records as active, or closes
\* them all as one segment that ends with the record appended.
LEMMA AppendFields ==
    ASSUME NEW m \in Manifests, NEW bytes \in Nat, NEW active \in Nat
    PROVE  LET n == NextManifestWithWalAppend(m, 1, bytes, active)
           IN  /\ n.generation = m.generation
               /\ n.checkpointFile = m.checkpointFile
               /\ n.derivedFile = m.derivedFile
               /\ n.lastCheckpointSeq = m.lastCheckpointSeq
               /\ n.nextSeq = m.nextSeq + 1
               /\ \/ n.closed = m.closed /\ n.activeCount = active
                  \/ \E s \in Segments : s.endSeq = m.nextSeq /\ n.closed = m.closed \cup {s}
  <1> DEFINE n == NextManifestWithWalAppend(m, 1, bytes, active)
             grown == [m EXCEPT !.nextSeq = m.nextSeq + 1,
                                !.activeBytes = bytes,
                                !.activeCount = active]
             segment == [startSeq |-> grown.nextSeq - active,
                         endSeq |-> grown.nextSeq - 1,
                         recordCount |-> active,
                         bytes |-> bytes]
             rolled == [grown EXCEPT !.closed = grown.closed \cup {segment},
                                     !.activeBytes = 0,
                                     !.activeCount = 0]
  <1>1. /\ grown.generation = m.generation /\ grown.checkpointFile = m.checkpointFile
        /\ grown.derivedFile = m.derivedFile /\ grown.lastCheckpointSeq = m.lastCheckpointSeq
        /\ grown.nextSeq = m.nextSeq + 1 /\ grown.closed = m.closed
        /\ grown.activeCount = active /\ m.nextSeq \in Nat
    BY DEF Manifests
  <1>2. grown \in Manifests
    <2>1. m.nextSeq + 1 \in Nat \ {0}
      BY <1>1
    <2> QED
      BY <2>1, GrownManifest
  <1>3. n = IF ShouldRollActiveSegment(grown) /\ grown.nextSeq > active /\ active > 0
            THEN rolled ELSE grown
    BY DEF NextManifestWithWalAppend
  <1> HIDE DEF n, grown
  <1>4. /\ rolled.generation = grown.generation /\ rolled.checkpointFile = grown.checkpointFile
        /\ rolled.derivedFile = grown.derivedFile
        /\ rolled.lastCheckpointSeq = grown.lastCheckpointSeq
        /\ rolled.nextSeq = grown.nextSeq /\ rolled.closed = grown.closed \cup {segment}
    BY <1>2 DEF Manifests
  <1>5. /\ segment.endSeq = m.nextSeq
        /\ grown.nextSeq > active => segment \in Segments
    BY <1>1 DEF Segments
  <1> HIDE DEF rolled, segment
  <1>6. CASE n = grown
    BY <1>1, <1>6 DEF n
  <1>7. CASE n = rolled /\ grown.nextSeq > active
    BY <1>1, <1>4, <1>5, <1>7 DEF n
  <1> QED
    BY <1>3, <1>6, <1>7

\* A content checkpoint keeps everything of the manifest but what it replaces.
LEMMA ContentFields ==
    ASSUME NEW m \in Manifests, NEW file, NEW lastSeq
    PROVE  LET n == FinalizeContentCheckpointManifest(m, file, lastSeq)
           IN  /\ n.generation = m.generation + 1
               /\ n.checkpointFile = file
               /\ n.derivedFile = m.derivedFile
               /\ n.lastCheckpointSeq = lastSeq
               /\ n.nextSeq = m.nextSeq
               /\ n.activeCount = 0
               /\ n.closed = m.closed \ Reclaimed(m, lastSeq)
  BY DEF FinalizeContentCheckpointManifest, Manifests

\* So does a derived checkpoint.
LEMMA DerivedFields ==
    ASSUME NEW m \in Manifests, NEW file
    PROVE  LET n == FinalizeDerivedCheckpointManifest(m, file)
           IN  /\ n.generation = m.generation + 1
               /\ n.checkpointFile = m.checkpointFile
               /\ n.derivedFile = file
               /\ n.lastCheckpointSeq = m.lastCheckpointSeq
               /\ n.nextSeq = m.nextSeq
               /\ n.activeCount = m.activeCount
               /\ n.closed = m.closed
  BY DEF FinalizeDerivedCheckpointManifest, Manifests

LEMMA EmptyFields ==
    /\ EmptyManifest.generation = 0
    /\ EmptyManifest.checkpointFile = NoFile
    /\ EmptyManifest.derivedFile = NoFile
    /\ EmptyManifest.lastCheckpointSeq = 0
    /\ EmptyManifest.nextSeq = 1
    /\ EmptyManifest.activeCount = 0
    /\ EmptyManifest.closed = {}
  BY DEF EmptyManifest

\* Without imports no task imports.
LEMMA NoImport ==
    ASSUME Imports = {}, IInv
    PROVE  pc # "import"
  <1>1. job.op # "import"
    BY DEF IInv, TypeInv, TypeOK, Tasks, NoJob
  <1> QED
    BY <1>1 DEF IInv, TypeInv, JobHere

\* What the manifest of each commit keeps of the one in memory.
LEMMA AppendKeeps ==
    ASSUME IInv, AppendWal
    PROVE  /\ next'.generation = manifest.generation
           /\ next'.checkpointFile = manifest.checkpointFile
           /\ next'.derivedFile = manifest.derivedFile
           /\ next'.lastCheckpointSeq = manifest.lastCheckpointSeq
           /\ next'.nextSeq = manifest.nextSeq + 1
           /\ \/ /\ next'.closed = manifest.closed
                 /\ next'.activeCount = CurrentManifest(disk).activeCount + 1
              \/ \E s \in Segments : /\ s.endSeq = manifest.nextSeq
                                     /\ next'.closed = manifest.closed \cup {s}
  <1> DEFINE log == Append(ActiveRecords(disk), Batch)
             active == CurrentManifest(disk).activeCount + 1
  <1>1. DiskOK(disk) /\ manifest \in Manifests
    BY DEF IInv, TypeInv, TypeOK, DiskOK
  <1>2. Len(log) \in Nat /\ active \in Nat
    <2>1. ActiveRecords(disk) \in Seq(Records) /\ Batch \in Records
      BY <1>1, ActiveRecordsType, BatchType DEF IInv, TypeInv, JobHere, AppendWal
    <2>2. CurrentManifest(disk).activeCount \in Nat
      BY <1>1, CurrentManifestType DEF Manifests
    <2> QED
      BY <2>1, <2>2
  <1>3. next' = NextManifestWithWalAppend(manifest, 1, Len(log), active)
    BY DEF AppendWal
  <1> HIDE DEF log, active
  <1>4. QED
    BY <1>1, <1>2, <1>3, AppendFields DEF active

-----------------------------------------------------------------------------
(* What the deferred derived load finds. *)

FlushSteps == {"exportDerived", "writeDerived"} \cup CommitOrAfter

\* A task is at a step of a flush exactly while `flush` says which.
FlushRuns ==
    /\ flush # "none" => pc \in {"writeContent"} \cup FlushSteps
    /\ pc \in {"committed", "prune"} => flush # "none"
    /\ pc = "writeContent" => flush = "content"
    /\ pc \in {"exportDerived", "writeDerived"} => flush = "derived"

\* While the derived partition waits to be loaded, the manifest names no
\* derived checkpoint (an import) or the one remembered when it was read; only
\* a derived flush moves it on, and that needs the partition loaded.
RememberedDerived ==
    /\ loadState # "ready" => manifest.derivedFile \in {NoFile, derivedMeta}
    /\ pc \in {"recover", "reloadReplay"} => derivedMeta = manifest.derivedFile
    /\ pc = "loadDerived" => loadState = "loading" /\ manifest.derivedFile # NoFile
    /\ (flush = "derived" /\ pc \in FlushSteps) => loadState = "ready"
    /\ (flush # "derived" /\ pc \in CommitOrAfter \cup {"apply"}) =>
          next.derivedFile = manifest.derivedFile

\* What a running task works on: callers, timers and the boot hydration leave it
\* and the files alone.
taskVars == <<disk, manifest, next, prune, flush, truncating, exported, pc, job, rtUp, rtContent,
              derivedMeta, loadState, faults>>

USE DEF runtimeVars, derivedVars, timerVars, frameVars, serviceVars, clientVars, vars, NextTask,
    DequeueInto, SkipTask, Enqueue, ClearFrame, EndJob, EndLoad, Settle, AcknowledgeReload,
    CountFault, AfterCommit, LoadStateOf, ContentTimerAfter, LoadManifest, RecoverRuntime,
    RecoverThrows, ResetRuntime, PruneFile, Restart, RequestMutation, RequestImport,
    TriggerSnapshot, EnsureDerivedLoaded, ChangeDerived, MarkDerivedDirty, ContentTimerFires,
    DerivedTimerFires, PauseSnapshots, ResumeSnapshots, StartMutation, AppendWal, ApplyBatch,
    ApplyThrows, ReloadRuntime, ReloadManifest, ReloadReplay, ReloadReplayThrows, StartLoad,
    LoadDerived, LoadDerivedThrows, ClearDerived, StartContentCheckpoint,
    StartDerivedCheckpoint, StartSnapshot, WriteContentCheckpoint, ExportDerived,
    WriteDerivedCheckpoint, BeginPrune, FinishFlush, StartImport, ImportSnapshot, CloseSegments,
    WriteBackup, WritePrimary, TruncateActive, FailTask, TaskThrows, RuntimeLost, WorkerDies,
    Crash, Rejects

\* The steps by what they work on.
LEMMA StepCases ==
    ASSUME [Next]_vars
    PROVE  \/ Boot \/ Restart \/ Mutate \/ Reload \/ Load \/ Checkpoint \/ Import \/ Commit
           \/ RuntimeLost \/ TaskThrows \/ WorkerDies \/ Crash
           \/ UNCHANGED taskVars
  <1>1. Callers => UNCHANGED taskVars
    BY Zenon DEF taskVars, Callers
  <1>2. UNCHANGED vars => UNCHANGED taskVars
    BY Zenon DEF taskVars
  <1> QED
    BY <1>1, <1>2, Zenon DEF Next, Progress

LEMMA FlushRunsStep ==
    ASSUME FlushRuns, [Next]_vars
    PROVE  FlushRuns'
  <1> USE DEF FlushRuns, FlushSteps, CommitOrAfter, CommitPoints
  <1>1. CASE UNCHANGED taskVars
    BY <1>1, Zenon DEF taskVars
  <1>2. CASE Boot \/ Restart
    BY <1>2, Zenon DEF Boot
  <1>3. CASE Mutate
    BY <1>3, Zenon DEF Mutate
  <1>4. CASE Reload
    BY <1>4, Zenon DEF Reload
  <1>5. CASE Load
    BY <1>5, Zenon DEF Load
  <1>6. CASE Checkpoint
    <2>1. CASE StartContentCheckpoint \/ StartDerivedCheckpoint \/ StartSnapshot
      BY <2>1, Zenon
    <2>2. CASE WriteContentCheckpoint \/ ExportDerived \/ WriteDerivedCheckpoint \/ BeginPrune
      BY <2>2, Zenon
    <2>3. CASE FinishFlush
      BY <2>3, Zenon DEF ThenDerived
    <2>4. CASE \E f \in prune : PruneFile(f)
      BY <2>4, Zenon
    <2> QED
      BY <1>6, <2>1, <2>2, <2>3, <2>4, Zenon DEF Checkpoint
  <1>7. CASE Import
    BY <1>7, Zenon DEF Import
  <1>8. CASE Commit
    BY <1>8, Zenon DEF Commit
  <1>9. CASE RuntimeLost \/ TaskThrows \/ WorkerDies \/ Crash
    BY <1>9, Zenon DEF RejectPoints, RuntimePoints
  <1> QED
    BY <1>1, <1>2, <1>3, <1>4, <1>5, <1>6, <1>7, <1>8, <1>9, StepCases, Zenon

LEMMA RememberedStep ==
    ASSUME RememberedDerived, FlushRuns, [Next]_vars,
           AppendWal \/ WriteContentCheckpoint => next'.derivedFile = manifest'.derivedFile
    PROVE  RememberedDerived'
  <1> USE DEF RememberedDerived, FlushRuns, FlushSteps, CommitOrAfter, CommitPoints
  <1>0. EmptyManifest.derivedFile = NoFile
    BY EmptyFields
  <1>1. CASE UNCHANGED taskVars
    BY <1>1, Zenon DEF taskVars
  <1>2. CASE Boot \/ Restart
    BY <1>0, <1>2, Zenon DEF Boot
  <1>3. CASE Mutate
    BY <1>3, Zenon DEF Mutate
  <1>4. CASE Reload
    BY <1>4, Zenon DEF Reload
  <1>5. CASE Load
    BY <1>5, Zenon DEF Load
  <1>6. CASE Checkpoint
    <2>1. CASE StartContentCheckpoint \/ StartDerivedCheckpoint \/ StartSnapshot
      BY <2>1, Zenon
    <2>2. CASE WriteContentCheckpoint \/ ExportDerived \/ WriteDerivedCheckpoint \/ BeginPrune
      BY <2>2, Zenon
    <2>3. CASE FinishFlush
      <3>1. loadState = "ready" \/ manifest'.derivedFile = manifest.derivedFile
        BY <2>3, Zenon
      <3>2. loadState' # "ready" => manifest'.derivedFile \in {NoFile, derivedMeta'}
        BY <2>3, <3>1, Zenon
      <3> QED
        BY <2>3, <3>2, Zenon DEF ThenDerived
    <2>4. ASSUME NEW f \in prune, PruneFile(f)
          PROVE  RememberedDerived'
      BY <2>4, Zenon
    <2> QED
      BY <1>6, <2>1, <2>2, <2>3, <2>4, Zenon DEF Checkpoint
  <1>7. CASE Import
    BY <1>0, <1>7, Zenon DEF Import
  <1>8. CASE Commit
    BY <1>8, Zenon DEF Commit
  <1>9. CASE RuntimeLost \/ TaskThrows \/ WorkerDies \/ Crash
    BY <1>0, <1>9, Zenon DEF RejectPoints, RuntimePoints
  <1> QED
    BY <1>1, <1>2, <1>3, <1>4, <1>5, <1>6, <1>7, <1>8, <1>9, StepCases, Zenon

HIDE DEF runtimeVars, derivedVars, timerVars, frameVars, serviceVars, clientVars, vars,
    NextTask, DequeueInto, SkipTask, Enqueue, ClearFrame, EndJob, EndLoad, Settle,
    AcknowledgeReload, CountFault, AfterCommit, LoadStateOf, ContentTimerAfter, LoadManifest,
    RecoverRuntime, RecoverThrows, ResetRuntime, PruneFile, Restart, RequestMutation,
    RequestImport, TriggerSnapshot, EnsureDerivedLoaded, ChangeDerived, MarkDerivedDirty,
    ContentTimerFires, DerivedTimerFires, PauseSnapshots, ResumeSnapshots, StartMutation,
    AppendWal, ApplyBatch, ApplyThrows, ReloadRuntime, ReloadManifest, ReloadReplay,
    ReloadReplayThrows, StartLoad, LoadDerived, LoadDerivedThrows, ClearDerived,
    StartContentCheckpoint, StartDerivedCheckpoint, StartSnapshot, WriteContentCheckpoint,
    ExportDerived, WriteDerivedCheckpoint, BeginPrune, FinishFlush, StartImport, ImportSnapshot,
    CloseSegments, WriteBackup, WritePrimary, TruncateActive, FailTask, TaskThrows, RuntimeLost,
    WorkerDies, Crash, Rejects

\* The load reads the checkpoint that the manifest in memory names, which a load
\* is still about to bring into the runtime, and finds it: no derived flush can
\* have replaced it since the manifest was read, whatever was appended, imported,
\* checkpointed, lost or rejected in between, as long as a reset removes what it
\* is told to (the manifest that a reset leaves may name a file that it removed).
THEOREM LoadReadsItsCheckpoint ==
    ASSUME ResetRemoves
    PROVE  Spec => []LoadReadsCurrentDerived
  <1>1. Init => FlushRuns /\ RememberedDerived
    BY DEF Init, FlushRuns, RememberedDerived, FlushSteps, CommitOrAfter, CommitPoints,
           EmptyManifest
  <1>2. IInv /\ FlushRuns /\ RememberedDerived /\ [Next]_vars
            => FlushRuns' /\ RememberedDerived'
    <2> SUFFICES ASSUME IInv, FlushRuns, RememberedDerived, [Next]_vars
                 PROVE  FlushRuns' /\ RememberedDerived'
      OBVIOUS
    <2>1. AppendWal => next'.derivedFile = manifest'.derivedFile
      BY AppendKeeps DEF AppendWal, serviceVars
    <2>2. WriteContentCheckpoint => next'.derivedFile = manifest'.derivedFile
      BY ContentFields DEF WriteContentCheckpoint, serviceVars, IInv, TypeInv, TypeOK
    <2> QED
      BY <2>1, <2>2, FlushRunsStep, RememberedStep
  <1>3. IInv /\ RememberedDerived => LoadReadsCurrentDerived
    <2> SUFFICES ASSUME IInv, RememberedDerived, pc = "loadDerived"
                 PROVE  LoadedFile = manifest.derivedFile /\ LoadedFile \in DOMAIN disk
      BY DEF LoadReadsCurrentDerived
    <2>1. manifest.derivedFile = derivedMeta /\ derivedMeta # NoFile
      BY DEF RememberedDerived
    <2>2. manifest.derivedFile \in DOMAIN disk
      BY <2>1 DEF IInv, MemoryRefersToDisk, References
    <2> QED
      BY <2>1, <2>2 DEF LoadedFile
  <1> QED
    BY <1>1, <1>2, <1>3, Invariance, PTL DEF Spec

-----------------------------------------------------------------------------
(* What a run without faults leaves on disk. *)

\* The files an append, a checkpoint and a commit write are among those of the
\* manifest they compute, which with the files to prune covers the one it replaces.
LEMMA AppendCollects ==
    ASSUME IInv, AppendWal
    PROVE  /\ DOMAIN disk' \subseteq DOMAIN disk \cup CollectManifestFiles(next')
           /\ CollectManifestFiles(manifest) \subseteq CollectManifestFiles(next')
  <1>1. DOMAIN disk' = DOMAIN disk \cup {ActiveLog}
    BY IInvTypes, AppendStep
  <1>2. /\ next'.checkpointFile = manifest.checkpointFile
        /\ next'.derivedFile = manifest.derivedFile
        /\ manifest.closed \subseteq next'.closed
    BY AppendKeeps
  <1> QED
    BY <1>1, <1>2 DEF CollectManifestFiles, References

LEMMA CheckpointCollects ==
    ASSUME IInv, WriteContentCheckpoint \/ WriteDerivedCheckpoint
    PROVE  /\ DOMAIN disk' \subseteq DOMAIN disk \cup CollectManifestFiles(next')
           /\ CollectManifestFiles(manifest) \subseteq CollectManifestFiles(next') \cup prune'
  <1>1. manifest \in Manifests /\ manifest.generation + 1 \in Nat
    BY DEF IInv, TypeInv, TypeOK, Manifests
  <1>2. CASE WriteContentCheckpoint
    <2> DEFINE file == ContentCheckpointFile(manifest.generation + 1)
               lastSeq == manifest.nextSeq - 1
    <2>1. file # NoFile
      BY <1>1, FileNames, FileKinds
    <2>2. /\ next' = FinalizeContentCheckpointManifest(manifest, file, lastSeq)
          /\ prune' = ContentPruneFiles(manifest, file, lastSeq)
          /\ DOMAIN disk' = DOMAIN disk \cup {file}
      BY <1>2 DEF WriteContentCheckpoint, WithFile
    <2> HIDE DEF file, lastSeq
    <2>3. /\ next'.checkpointFile = file
          /\ next'.derivedFile = manifest.derivedFile
          /\ next'.closed = manifest.closed \ Reclaimed(manifest, lastSeq)
      BY <1>1, <2>2, ContentFields
    <2> QED
      BY <2>1, <2>2, <2>3 DEF CollectManifestFiles, References, ContentPruneFiles
  <1>3. CASE WriteDerivedCheckpoint
    <2> DEFINE file == DerivedCheckpointFile(manifest.generation + 1)
    <2>1. file # NoFile
      BY <1>1, FileNames, FileKinds
    <2>2. /\ next' = FinalizeDerivedCheckpointManifest(manifest, file)
          /\ prune' = DerivedPruneFiles(manifest, file)
          /\ DOMAIN disk' = DOMAIN disk \cup {file}
      BY <1>3 DEF WriteDerivedCheckpoint, WithFile
    <2> HIDE DEF file
    <2>3. /\ next'.checkpointFile = manifest.checkpointFile
          /\ next'.derivedFile = file
          /\ next'.closed = manifest.closed
      BY <1>1, <2>2, DerivedFields
    <2> QED
      BY <2>1, <2>2, <2>3 DEF CollectManifestFiles, References, DerivedPruneFiles
  <1> QED
    BY <1>2, <1>3

LEMMA CommitCollects ==
    ASSUME Commit
    PROVE  DOMAIN disk' \subseteq DOMAIN disk \cup CollectManifestFiles(next)
  <1>1. CASE CloseSegments
    BY <1>1 DEF CloseSegments, WithClosedSegments, WithFiles, AppendedClosed,
                CollectManifestFiles, References
  <1>2. CASE WriteBackup \/ WritePrimary \/ TruncateActive
    BY <1>2 DEF WriteBackup, WritePrimary, TruncateActive, WithFile, CollectManifestFiles
  <1> QED
    BY <1>1, <1>2 DEF Commit

FaultFree ==
    faults = 0 =>
        /\ pc \notin {"recover", "reset"} \cup ReloadPoints
        /\ pc \in {"down", "boot"} => DOMAIN disk = {}
        /\ pc # "down" => rtUp

\* Only a checkpoint leaves files to prune.
OnlyFlushesPrune == (flush = "none" /\ pc \in CommitPoints \cup {"apply"}) => prune = {}

\* Every file is one of the manifest in memory or, during a commit, of the one it
\* writes or to be pruned.
KeptFiles ==
    faults = 0 =>
        /\ pc \in CommitOrAfter \cup {"apply"} =>
              DOMAIN disk \subseteq CollectManifestFiles(next) \cup prune
        /\ pc \notin CommitOrAfter \cup {"apply"} =>
              DOMAIN disk \subseteq CollectManifestFiles(manifest)

USE DEF runtimeVars, derivedVars, timerVars, frameVars, serviceVars, clientVars, vars, NextTask,
    DequeueInto, SkipTask, Enqueue, ClearFrame, EndJob, EndLoad, Settle, AcknowledgeReload,
    CountFault, AfterCommit, LoadStateOf, ContentTimerAfter, LoadManifest, RecoverRuntime,
    RecoverThrows, ResetRuntime, PruneFile, Restart, RequestMutation, RequestImport,
    TriggerSnapshot, EnsureDerivedLoaded, ChangeDerived, MarkDerivedDirty, ContentTimerFires,
    DerivedTimerFires, PauseSnapshots, ResumeSnapshots, StartMutation, AppendWal, ApplyBatch,
    ApplyThrows, ReloadRuntime, ReloadManifest, ReloadReplay, ReloadReplayThrows, StartLoad,
    LoadDerived, LoadDerivedThrows, ClearDerived, StartContentCheckpoint,
    StartDerivedCheckpoint, StartSnapshot, WriteContentCheckpoint, ExportDerived,
    WriteDerivedCheckpoint, BeginPrune, FinishFlush, StartImport, ImportSnapshot, CloseSegments,
    WriteBackup, WritePrimary, TruncateActive, FailTask, TaskThrows, RuntimeLost, WorkerDies,
    Crash, Rejects
LEMMA OnlyFlushesPruneStep ==
    ASSUME OnlyFlushesPrune, FlushRuns, pc \in {"idle", "append"} => prune = {}, [Next]_vars
    PROVE  OnlyFlushesPrune'
  <1> USE DEF OnlyFlushesPrune, FlushRuns, FlushSteps, CommitOrAfter, CommitPoints
  <1>1. CASE UNCHANGED taskVars
    BY <1>1, Zenon DEF taskVars
  <1>2. CASE Boot \/ Restart
    BY <1>2, Zenon DEF Boot
  <1>3. CASE Mutate
    BY <1>3, Zenon DEF Mutate
  <1>4. CASE Reload
    BY <1>4, Zenon DEF Reload
  <1>5. CASE Load
    BY <1>5, Zenon DEF Load
  <1>6. CASE Checkpoint
    <2>1. CASE StartContentCheckpoint \/ StartDerivedCheckpoint \/ StartSnapshot
      BY <2>1, Zenon
    <2>2. CASE WriteContentCheckpoint \/ ExportDerived \/ WriteDerivedCheckpoint \/ BeginPrune
      BY <2>2, Zenon
    <2>3. CASE FinishFlush
      BY <2>3, Zenon DEF ThenDerived
    <2>4. CASE \E f \in prune : PruneFile(f)
      BY <2>4, Zenon
    <2> QED
      BY <1>6, <2>1, <2>2, <2>3, <2>4, Zenon DEF Checkpoint
  <1>7. CASE Import
    BY <1>7, Zenon DEF Import
  <1>8. CASE Commit
    BY <1>8, Zenon DEF Commit
  <1>9. CASE RuntimeLost \/ TaskThrows \/ WorkerDies \/ Crash
    BY <1>9, Zenon DEF RejectPoints, RuntimePoints
  <1> QED
    BY <1>1, <1>2, <1>3, <1>4, <1>5, <1>6, <1>7, <1>8, <1>9, StepCases, Zenon

LEMMA FaultFreeStep ==
    ASSUME FaultFree, FlushRuns, faults + 1 # 0, [Next]_vars
    PROVE  FaultFree'
  <1> USE DEF FaultFree, FlushRuns, FlushSteps, CommitOrAfter, CommitPoints, ReloadPoints,
             HasManifest
  <1>1. CASE UNCHANGED taskVars
    BY <1>1, Zenon DEF taskVars
  <1>2. CASE Boot \/ Restart
    BY <1>2, Zenon DEF Boot
  <1>3. CASE Mutate
    BY <1>3, Zenon DEF Mutate
  <1>4. CASE Reload
    BY <1>4, Zenon DEF Reload
  <1>5. CASE Load
    BY <1>5, Zenon DEF Load
  <1>6. CASE Checkpoint
    <2>1. CASE StartContentCheckpoint \/ StartDerivedCheckpoint \/ StartSnapshot
      BY <2>1, Zenon
    <2>2. CASE WriteContentCheckpoint \/ ExportDerived \/ WriteDerivedCheckpoint \/ BeginPrune
      BY <2>2, Zenon
    <2>3. CASE FinishFlush
      BY <2>3, Zenon DEF ThenDerived
    <2>4. ASSUME NEW f \in prune, PruneFile(f)
          PROVE  FaultFree'
      BY <2>4, Zenon
    <2> QED
      BY <1>6, <2>1, <2>2, <2>3, <2>4, Zenon DEF Checkpoint
  <1>7. CASE Import
    BY <1>7, Zenon DEF Import
  <1>8. CASE Commit
    BY <1>8, Zenon DEF Commit
  <1>9. CASE RuntimeLost \/ TaskThrows \/ WorkerDies \/ Crash
    BY <1>9, Zenon DEF RejectPoints, RuntimePoints
  <1> QED
    BY <1>1, <1>2, <1>3, <1>4, <1>5, <1>6, <1>7, <1>8, <1>9, StepCases, Zenon

LEMMA KeptFilesStep ==
    ASSUME IInv, KeptFiles, FaultFree, FlushRuns, OnlyFlushesPrune,
           pc # "import", faults + 1 # 0, [Next]_vars
    PROVE  KeptFiles'
  <1> USE DEF KeptFiles, FaultFree, OnlyFlushesPrune, FlushRuns, FlushSteps, CommitOrAfter,
             CommitPoints, ReloadPoints, HasManifest
  <1>1. CASE UNCHANGED taskVars
    BY <1>1, Zenon DEF taskVars
  <1>2. CASE Boot \/ Restart
    BY <1>2, Zenon DEF Boot
  <1>3. CASE Mutate
    <2>1. CASE AppendWal
      <3>1. /\ pc = "append" /\ pc' = "close" /\ UNCHANGED faults
            /\ faults = 0 => DOMAIN disk \subseteq CollectManifestFiles(manifest)
        BY <2>1, Zenon
      <3>2. faults = 0 => DOMAIN disk' \subseteq CollectManifestFiles(next')
        BY <2>1, <3>1, AppendCollects
      <3> QED
        BY <3>1, <3>2, SMT DEF KeptFiles
    <2>2. CASE StartMutation \/ ApplyBatch \/ ApplyThrows
      BY <2>2, Zenon
    <2> QED
      BY <1>3, <2>1, <2>2, Zenon DEF Mutate
  <1>4. CASE Reload
    BY <1>4, Zenon DEF Reload
  <1>5. CASE Load
    BY <1>5, Zenon DEF Load
  <1>6. CASE Checkpoint
    <2>1. CASE StartContentCheckpoint \/ StartDerivedCheckpoint \/ StartSnapshot
      BY <2>1, Zenon
    <2>2. CASE WriteContentCheckpoint \/ WriteDerivedCheckpoint
      <3>1. /\ pc \in {"writeContent", "writeDerived"} /\ pc' = "close" /\ UNCHANGED faults
            /\ faults = 0 => DOMAIN disk \subseteq CollectManifestFiles(manifest)
        BY <2>2, Zenon
      <3>2. faults = 0 => DOMAIN disk' \subseteq CollectManifestFiles(next') \cup prune'
        BY <2>2, <3>1, CheckpointCollects
      <3> QED
        BY <3>1, <3>2, SMT DEF KeptFiles
    <2>5. CASE ExportDerived \/ BeginPrune
      BY <2>5, Zenon
    <2>3. CASE FinishFlush
      BY <2>3, Zenon DEF ThenDerived
    <2>4. ASSUME NEW f \in prune, PruneFile(f)
          PROVE  KeptFiles'
      BY <2>4, SMT DEF WithoutFile
    <2> QED
      BY <1>6, <2>1, <2>2, <2>3, <2>4, <2>5, Zenon DEF Checkpoint
  <1>7. CASE Import
    BY <1>7, Zenon DEF Import
  <1>8. CASE Commit
    <2>1. /\ pc \in CommitPoints /\ pc' \in CommitOrAfter \cup {"apply"}
          /\ UNCHANGED <<next, prune>>
          /\ faults' = 0 => faults = 0
      BY <1>8, Zenon DEF Commit
    <2>2. faults = 0 => DOMAIN disk' \subseteq CollectManifestFiles(next) \cup prune
      BY <1>8, <2>1, CommitCollects DEF KeptFiles
    <2> QED
      BY <2>1, <2>2, Zenon DEF KeptFiles
  <1>9. CASE RuntimeLost \/ TaskThrows \/ WorkerDies \/ Crash
    BY <1>9, Zenon DEF RejectPoints, RuntimePoints
  <1> QED
    BY <1>1, <1>2, <1>3, <1>4, <1>5, <1>6, <1>7, <1>8, <1>9, StepCases, Zenon

HIDE DEF runtimeVars, derivedVars, timerVars, frameVars, serviceVars, clientVars, vars,
    NextTask, DequeueInto, SkipTask, Enqueue, ClearFrame, EndJob, EndLoad, Settle,
    AcknowledgeReload, CountFault, AfterCommit, LoadStateOf, ContentTimerAfter, LoadManifest,
    RecoverRuntime, RecoverThrows, ResetRuntime, PruneFile, Restart, RequestMutation,
    RequestImport, TriggerSnapshot, EnsureDerivedLoaded, ChangeDerived, MarkDerivedDirty,
    ContentTimerFires, DerivedTimerFires, PauseSnapshots, ResumeSnapshots, StartMutation,
    AppendWal, ApplyBatch, ApplyThrows, ReloadRuntime, ReloadManifest, ReloadReplay,
    ReloadReplayThrows, StartLoad, LoadDerived, LoadDerivedThrows, ClearDerived,
    StartContentCheckpoint, StartDerivedCheckpoint, StartSnapshot, WriteContentCheckpoint,
    ExportDerived, WriteDerivedCheckpoint, BeginPrune, FinishFlush, StartImport, ImportSnapshot,
    CloseSegments, WriteBackup, WritePrimary, TruncateActive, FailTask, TaskThrows, RuntimeLost,
    WorkerDies, Crash, Rejects

\* A run without crashes, rejections and imports leaves no file behind: every
\* segment and checkpoint that a checkpoint supersedes is pruned by its own task.
THEOREM NothingOutlivesItsManifest ==
    ASSUME Imports = {}, ResetRemoves
    PROVE  Spec => []NoOrphanFiles
  <1> DEFINE Inv == FlushRuns /\ OnlyFlushesPrune /\ FaultFree /\ KeptFiles
  <1>1. Init => Inv
    BY DEF Init, FlushRuns, FlushSteps, OnlyFlushesPrune, FaultFree, KeptFiles,
           CommitOrAfter, CommitPoints, ReloadPoints
  <1>2. IInv /\ Inv /\ [Next]_vars => Inv'
    <2> SUFFICES ASSUME IInv, Inv, [Next]_vars
                 PROVE  Inv'
      OBVIOUS
    <2>1. faults + 1 # 0
      BY DEF IInv, TypeInv, TypeOK
    <2>2. pc # "import"
      BY NoImport
    <2>3. pc \in {"idle", "append"} => prune = {}
      BY DEF IInv, PruneUnreferenced
    <2> QED
      BY <2>1, <2>2, <2>3, FlushRunsStep, OnlyFlushesPruneStep, FaultFreeStep, KeptFilesStep
  <1>3. Inv => NoOrphanFiles
    BY DEF NoOrphanFiles, KeptFiles, CommitOrAfter, CommitPoints
  <1> HIDE DEF Inv
  <1> QED
    BY <1>1, <1>2, <1>3, Invariance, PTL DEF Spec

-----------------------------------------------------------------------------
(* Whether a file that is still named is ever written again: checkpoints are *)
(* named after generations.                                                  *)

\* The manifest's own checkpoints are of its generation or of an earlier one.
NamesOld(m) ==
    /\ m.checkpointFile # NoFile => m.checkpointFile[2] <= m.generation
    /\ m.derivedFile # NoFile => m.derivedFile[2] <= m.generation

ManifestsNameOld ==
    /\ NamesOld(manifest)
    /\ NamesOld(next)
    /\ \A f \in {ManifestFile, ManifestBak} \cap DOMAIN disk : NamesOld(disk[f])

\* A mutation commits within the generation in memory, a checkpoint a later one.
NextGeneration ==
    pc \in CommitOrAfter \cup {"apply"} =>
        /\ flush = "none" => next.generation = manifest.generation
        /\ flush # "none" => next.generation > manifest.generation

\* A checkpoint's manifest is in force, in the primary copy or, before there is
\* one, in the backup, and the service has not adopted it yet.
Committing ==
    /\ flush # "none"
    /\ \/ pc \in {"truncate", "committed", "prune"}
       \/ pc = "primary" /\ ManifestFile \notin DOMAIN disk

\* The manifest on disk is then no younger than the one being committed, and
\* else no younger than the one in memory, unless the write of a first primary
\* copy may have been rejected.
DiskNoYounger ==
    ManifestFile \in DOMAIN disk \/ "primary" \notin ThrowAt =>
        /\ Committing => DiskManifest.generation <= next.generation
        /\ (~ Committing /\ pc \notin {"down", "boot", "reset"}) =>
              DiskManifest.generation <= manifest.generation

\* The rejections that leave the service with a manifest older than the one on
\* disk: of a primary copy's write, and of the pruning after it.
StaleMemoryThrows == {"primary", "committed"}

LEMMA EmptyNamesOld == NamesOld(EmptyManifest)
  BY EmptyFields DEF NamesOld

LEMMA CurrentNamesOld ==
    ASSUME ManifestsNameOld
    PROVE  NamesOld(DiskManifest)
  BY EmptyNamesOld DEF ManifestsNameOld, DiskManifest, CurrentManifest

\* The manifests the operations compute.
LEMMA NextNamesOld ==
    ASSUME IInv, ManifestsNameOld, AppendWal \/ WriteContentCheckpoint \/ WriteDerivedCheckpoint
    PROVE  /\ NamesOld(next')
           /\ AppendWal => next'.generation = manifest.generation
           /\ ~ AppendWal => next'.generation = manifest.generation + 1
           /\ \A f \in {ManifestFile, ManifestBak} \cap DOMAIN disk' :
                 f \in DOMAIN disk /\ disk'[f] = disk[f]
  <1>1. /\ manifest \in Manifests /\ NamesOld(manifest)
        /\ manifest.generation \in Nat /\ manifest.generation + 1 \in Nat
    BY DEF IInv, TypeInv, TypeOK, Manifests, ManifestsNameOld
  <1>2. /\ manifest.checkpointFile # NoFile => manifest.checkpointFile[2] \in Nat
        /\ manifest.derivedFile # NoFile => manifest.derivedFile[2] \in Nat
    BY <1>1 DEF Manifests, ContentCheckpointFiles, DerivedCheckpointFiles
  <1>3. /\ ContentCheckpointFile(manifest.generation + 1)[2] = manifest.generation + 1
        /\ DerivedCheckpointFile(manifest.generation + 1)[2] = manifest.generation + 1
    BY <1>1 DEF ContentCheckpointFile, DerivedCheckpointFile
  <1>4. CASE AppendWal
    <2>1. NamesOld(next')
      BY <1>1, <1>4, AppendKeeps DEF NamesOld
    <2> QED
      BY <1>4, <2>1, AppendKeeps, IInvTypes, AppendStep, FileKinds
  <1>5. CASE WriteContentCheckpoint
    <2>1. next' = FinalizeContentCheckpointManifest(manifest,
                      ContentCheckpointFile(manifest.generation + 1), manifest.nextSeq - 1)
      BY <1>5 DEF WriteContentCheckpoint
    <2>2. /\ next'.generation = manifest.generation + 1
          /\ next'.checkpointFile = ContentCheckpointFile(manifest.generation + 1)
          /\ next'.derivedFile = manifest.derivedFile
      BY <1>1, <2>1, ContentFields
    <2>3. NamesOld(next')
      BY <1>1, <1>2, <1>3, <2>2 DEF NamesOld
    <2>4. ~ AppendWal
      BY <1>5 DEF AppendWal, WriteContentCheckpoint
    <2> QED
      BY <1>5, <2>2, <2>3, <2>4, IInvTypes, CheckpointStep
  <1>6. CASE WriteDerivedCheckpoint
    <2>1. next' = FinalizeDerivedCheckpointManifest(manifest,
                      DerivedCheckpointFile(manifest.generation + 1))
      BY <1>6 DEF WriteDerivedCheckpoint
    <2>2. /\ next'.generation = manifest.generation + 1
          /\ next'.derivedFile = DerivedCheckpointFile(manifest.generation + 1)
          /\ next'.checkpointFile = manifest.checkpointFile
      BY <1>1, <2>1, DerivedFields
    <2>3. NamesOld(next')
      BY <1>1, <1>2, <1>3, <2>2 DEF NamesOld
    <2>4. ~ AppendWal
      BY <1>6 DEF AppendWal, WriteDerivedCheckpoint
    <2> QED
      BY <1>6, <2>2, <2>3, <2>4, IInvTypes, CheckpointStep
  <1> QED
    BY <1>4, <1>5, <1>6

LEMMA NameOldStep ==
    ASSUME IInv, ManifestsNameOld, [Next]_vars
    PROVE  ManifestsNameOld'
  <1>1. NamesOld(manifest')
    BY ManifestChanges, EmptyNamesOld, CurrentNamesOld DEF ManifestsNameOld, DiskManifest
  <1>2. NamesOld(next')
    BY NextChanges, EmptyNamesOld, NextNamesOld DEF ManifestsNameOld
  <1>3. ASSUME NEW f \in {ManifestFile, ManifestBak} \cap DOMAIN disk'
        PROVE  NamesOld(disk'[f])
    <2>1. CASE f \in DOMAIN disk /\ disk'[f] = disk[f]
      BY <1>3, <2>1 DEF ManifestsNameOld
    <2>2. CASE AppendWal \/ WriteContentCheckpoint \/ WriteDerivedCheckpoint
      BY <1>3, <2>1, <2>2, NextNamesOld
    <2>3. CASE CloseSegments
      BY <1>3, <2>1, <2>3, IInvTypes, CloseStep
    <2>4. CASE WriteBackup \/ WritePrimary
      BY <1>3, <2>1, <2>4 DEF WriteBackup, WritePrimary, WithFile, ManifestsNameOld
    <2>5. CASE TruncateActive
      BY <1>3, <2>1, <2>5, FileKinds DEF TruncateActive, WithFile
    <2>6. CASE \E g \in prune : PruneFile(g)
      BY <1>3, <2>1, <2>6 DEF PruneFile, WithoutFile
    <2>7. CASE UNCHANGED disk
      BY <1>3, <2>1, <2>7
    <2> QED
      BY <2>2, <2>3, <2>4, <2>5, <2>6, <2>7, DiskChanges
  <1> QED
    BY <1>1, <1>2, <1>3 DEF ManifestsNameOld


\* The steps that change which manifest is in force.
LEMMA DiskManifestChanges ==
    ASSUME IInv, [Next]_vars
    PROVE  \/ /\ DiskManifest' = DiskManifest
              /\ ManifestFile \in DOMAIN disk' <=> ManifestFile \in DOMAIN disk
           \/ WriteBackup /\ DiskManifest' = next
              /\ ManifestFile \notin DOMAIN disk /\ ManifestFile \notin DOMAIN disk'
           \/ WritePrimary /\ DiskManifest' = next /\ ManifestFile \in DOMAIN disk'
           \/ /\ pc = "prune" /\ (\E f \in prune : PruneFile(f))
              /\ DiskManifest' \in {next, EmptyManifest}
           \/ pc = "reset" /\ \E f \in prune : PruneFile(f)
  <1> USE DEF DiskManifest
  <1>1. ASSUME \A f \in {ManifestFile, ManifestBak} \cap DOMAIN disk' :
                  f \in DOMAIN disk /\ disk'[f] = disk[f],
               DOMAIN disk \subseteq DOMAIN disk'
        PROVE  /\ DiskManifest' = DiskManifest
               /\ ManifestFile \in DOMAIN disk' <=> ManifestFile \in DOMAIN disk
    BY <1>1 DEF CurrentManifest
  <1>2. CASE AppendWal
    BY <1>1, <1>2, IInvTypes, AppendStep, FileKinds
  <1>3. CASE WriteContentCheckpoint \/ WriteDerivedCheckpoint
    BY <1>1, <1>3, IInvTypes, CheckpointStep
  <1>4. CASE CloseSegments
    BY <1>1, <1>4, IInvTypes, CloseStep
  <1>5. CASE WriteBackup
    BY <1>5, FileKinds DEF WriteBackup, WithFile, CurrentManifest
  <1>6. CASE WritePrimary
    BY <1>6 DEF WritePrimary, WithFile, CurrentManifest
  <1>7. CASE TruncateActive
    BY <1>1, <1>7, FileKinds DEF TruncateActive, WithFile
  <1>8. ASSUME NEW f \in prune, PruneFile(f)
        PROVE  \/ pc = "prune" /\ DiskManifest' \in {next, EmptyManifest}
               \/ pc = "reset"
    <2>1. CASE pc = "prune"
      <3>1. /\ DOMAIN disk' \subseteq DOMAIN disk
            /\ \A g \in DOMAIN disk' : disk'[g] = disk[g]
        BY <1>8, PruneFileStep DEF WithoutFile
      <3>2. \A g \in {ManifestFile, ManifestBak} \cap DOMAIN disk : disk[g] = next
        BY <2>1 DEF IInv, CommittedCopies
      <3> QED
        BY <2>1, <3>1, <3>2 DEF CurrentManifest
    <2> QED
      BY <1>8, <2>1 DEF PruneFile
  <1>9. CASE UNCHANGED disk
    BY <1>9
  <1> QED
    BY <1>2, <1>3, <1>4, <1>5, <1>6, <1>7, <1>8, <1>9, DiskChanges

USE DEF runtimeVars, derivedVars, timerVars, frameVars, serviceVars, clientVars, vars, NextTask,
    DequeueInto, SkipTask, Enqueue, ClearFrame, EndJob, EndLoad, Settle, AcknowledgeReload,
    CountFault, AfterCommit, LoadStateOf, ContentTimerAfter, LoadManifest, RecoverRuntime,
    RecoverThrows, ResetRuntime, PruneFile, Restart, RequestMutation, RequestImport,
    TriggerSnapshot, EnsureDerivedLoaded, ChangeDerived, MarkDerivedDirty, ContentTimerFires,
    DerivedTimerFires, PauseSnapshots, ResumeSnapshots, StartMutation, AppendWal, ApplyBatch,
    ApplyThrows, ReloadRuntime, ReloadManifest, ReloadReplay, ReloadReplayThrows, StartLoad,
    LoadDerived, LoadDerivedThrows, ClearDerived, StartContentCheckpoint,
    StartDerivedCheckpoint, StartSnapshot, WriteContentCheckpoint, ExportDerived,
    WriteDerivedCheckpoint, BeginPrune, FinishFlush, StartImport, ImportSnapshot, CloseSegments,
    WriteBackup, WritePrimary, TruncateActive, FailTask, TaskThrows, RuntimeLost, WorkerDies,
    Crash, Rejects
LEMMA NextGenerationStep ==
    ASSUME NextGeneration, FlushRuns,
           next.generation \in Nat, manifest.generation \in Nat,
           AppendWal => next'.generation = manifest.generation,
           WriteContentCheckpoint \/ WriteDerivedCheckpoint =>
               next'.generation > manifest.generation, [Next]_vars
    PROVE  NextGeneration'
  <1> USE DEF NextGeneration, FlushRuns, FlushSteps, CommitOrAfter, CommitPoints
  <1>1. CASE UNCHANGED taskVars
    BY <1>1, Zenon DEF taskVars
  <1>2. CASE Boot \/ Restart
    BY <1>2, Zenon DEF Boot
  <1>3. CASE Mutate
    BY <1>3, Zenon DEF Mutate
  <1>4. CASE Reload
    BY <1>4, Zenon DEF Reload
  <1>5. CASE Load
    BY <1>5, Zenon DEF Load
  <1>6. CASE Checkpoint
    <2>1. CASE StartContentCheckpoint \/ StartDerivedCheckpoint \/ StartSnapshot
      BY <2>1, Zenon
    <2>2. CASE WriteContentCheckpoint \/ ExportDerived \/ WriteDerivedCheckpoint \/ BeginPrune
      BY <2>2, Zenon
    <2>3. CASE FinishFlush
      BY <2>3, Zenon DEF ThenDerived
    <2>4. CASE \E f \in prune : PruneFile(f)
      BY <2>4, Zenon
    <2> QED
      BY <1>6, <2>1, <2>2, <2>3, <2>4, Zenon DEF Checkpoint
  <1>7. CASE Import
    BY <1>7, Zenon DEF Import
  <1>8. CASE Commit
    BY <1>8, Zenon DEF Commit
  <1>9. CASE RuntimeLost \/ TaskThrows \/ WorkerDies \/ Crash
    BY <1>9, Zenon DEF RejectPoints, RuntimePoints
  <1> QED
    BY <1>1, <1>2, <1>3, <1>4, <1>5, <1>6, <1>7, <1>8, <1>9, StepCases, Zenon

\* While a manifest stays in force, a commit may come to its primary copy, be
\* rejected or end, and a memory may be read again.
LEMMA SettledGenerations ==
    ASSUME DiskNoYounger, NextGeneration, FlushRuns, "committed" \notin ThrowAt, pc # "import",
           DiskManifest' = DiskManifest, CurrentManifest(disk) = DiskManifest,
           ManifestFile \in DOMAIN disk' <=> ManifestFile \in DOMAIN disk,
           ~ WritePrimary,
           DiskManifest.generation <= DiskManifest.generation,
           (pc = "reset" /\ prune = {}) => DiskManifest = EmptyManifest,
           EmptyManifest.generation <= EmptyManifest.generation,
           NextGeneration /\ pc \in CommitPoints /\ flush # "none"
               /\ DiskManifest.generation <= manifest.generation
               => DiskManifest.generation <= next.generation, [Next]_vars
    PROVE  DiskNoYounger'
  <1> USE DEF DiskNoYounger, NextGeneration, Committing, FlushRuns, FlushSteps, CommitOrAfter,
             CommitPoints, MayThrow, Here
  <1>1. CASE UNCHANGED taskVars
    BY <1>1, Zenon DEF taskVars
  <1>2. CASE Boot \/ Restart
    BY <1>2, Zenon DEF Boot
  <1>3. CASE Mutate
    BY <1>3, Zenon DEF Mutate
  <1>4. CASE Reload
    BY <1>4, Zenon DEF Reload
  <1>5. CASE Load
    BY <1>5, Zenon DEF Load
  <1>6. CASE Checkpoint
    <2>1. CASE StartContentCheckpoint \/ StartDerivedCheckpoint \/ StartSnapshot
      BY <2>1, Zenon
    <2>2. CASE WriteContentCheckpoint \/ ExportDerived \/ WriteDerivedCheckpoint \/ BeginPrune
      BY <2>2, Zenon
    <2>3. CASE FinishFlush
      BY <2>3, Zenon DEF ThenDerived
    <2>4. CASE \E f \in prune : PruneFile(f)
      BY <2>4, Zenon
    <2> QED
      BY <1>6, <2>1, <2>2, <2>3, <2>4, Zenon DEF Checkpoint
  <1>7. CASE Import
    BY <1>7, Zenon DEF Import
  <1>8. CASE Commit
    <2>1. CASE CloseSegments
      BY <2>1, Zenon
    <2>2. CASE WriteBackup
      BY <2>2, Zenon
    <2>3. CASE TruncateActive
      BY <2>3, Zenon
    <2> QED
      BY <1>8, <2>1, <2>2, <2>3, Zenon DEF Commit
  <1>9. CASE RuntimeLost \/ TaskThrows \/ WorkerDies \/ Crash
    BY <1>9, Zenon DEF RejectPoints, RuntimePoints
  <1> QED
    BY <1>1, <1>2, <1>3, <1>4, <1>5, <1>6, <1>7, <1>8, <1>9, StepCases, Zenon

HIDE DEF runtimeVars, derivedVars, timerVars, frameVars, serviceVars, clientVars, vars,
    NextTask, DequeueInto, SkipTask, Enqueue, ClearFrame, EndJob, EndLoad, Settle,
    AcknowledgeReload, CountFault, AfterCommit, LoadStateOf, ContentTimerAfter, LoadManifest,
    RecoverRuntime, RecoverThrows, ResetRuntime, PruneFile, Restart, RequestMutation,
    RequestImport, TriggerSnapshot, EnsureDerivedLoaded, ChangeDerived, MarkDerivedDirty,
    ContentTimerFires, DerivedTimerFires, PauseSnapshots, ResumeSnapshots, StartMutation,
    AppendWal, ApplyBatch, ApplyThrows, ReloadRuntime, ReloadManifest, ReloadReplay,
    ReloadReplayThrows, StartLoad, LoadDerived, LoadDerivedThrows, ClearDerived,
    StartContentCheckpoint, StartDerivedCheckpoint, StartSnapshot, WriteContentCheckpoint,
    ExportDerived, WriteDerivedCheckpoint, BeginPrune, FinishFlush, StartImport, ImportSnapshot,
    CloseSegments, WriteBackup, WritePrimary, TruncateActive, FailTask, TaskThrows, RuntimeLost,
    WorkerDies, Crash, Rejects

LEMMA GenerationStep ==
    ASSUME IInv, FlushRuns, NextGeneration, DiskNoYounger, [Next]_vars,
           Imports = {}, "committed" \notin ThrowAt
    PROVE  NextGeneration' /\ DiskNoYounger'
  <1>1. /\ manifest.generation \in Nat /\ next.generation \in Nat
        /\ DiskManifest.generation \in Nat
    BY CurrentManifestType DEF IInv, TypeInv, TypeOK, DiskOK, Manifests, DiskManifest
  <1>2. NextGeneration'
    <2>1. AppendWal => next'.generation = manifest.generation
      BY AppendKeeps
    <2>2. WriteContentCheckpoint => next'.generation = manifest.generation + 1
      BY ContentFields DEF WriteContentCheckpoint, IInv, TypeInv, TypeOK
    <2>3. WriteDerivedCheckpoint => next'.generation = manifest.generation + 1
      BY DerivedFields DEF WriteDerivedCheckpoint, IInv, TypeInv, TypeOK
    <2> QED
      BY <1>1, <2>1, <2>2, <2>3, NextGenerationStep
  <1>3. EmptyManifest.generation = 0
    BY EmptyFields
  <1>4. CASE WritePrimary
    <2>1. /\ UNCHANGED <<manifest, next, flush>> /\ pc = "primary"
          /\ pc' \in {"truncate", AfterCommit}
          /\ DiskManifest' = next
      BY <1>4 DEF WritePrimary, serviceVars, frameVars, DiskManifest, CurrentManifest, WithFile
    <2>2. flush = "none" => next.generation = manifest.generation
      BY <2>1 DEF NextGeneration, CommitOrAfter, CommitPoints
    <2>3. flush # "none" => Committing'
      BY <2>1 DEF AfterCommit, Committing
    <2> QED
      BY <1>1, <1>2, <2>1, <2>2, <2>3 DEF DiskNoYounger, Committing
  <1>5. CASE /\ DiskManifest' = DiskManifest
             /\ ManifestFile \in DOMAIN disk' <=> ManifestFile \in DOMAIN disk
             /\ ~ WritePrimary
    <2>1. pc # "import"
      BY NoImport
    <2>2. (pc = "reset" /\ prune = {}) => DiskManifest = EmptyManifest
      BY DEF IInv, PruneUnreferenced, DiskManifest, CurrentManifest
    <2>3. NextGeneration /\ pc \in CommitPoints /\ flush # "none"
              /\ DiskManifest.generation <= manifest.generation
              => DiskManifest.generation <= next.generation
      BY <1>1 DEF NextGeneration, CommitOrAfter
    <2>4. /\ DiskManifest.generation <= DiskManifest.generation
          /\ EmptyManifest.generation <= EmptyManifest.generation
          /\ CurrentManifest(disk) = DiskManifest
      BY <1>1, <1>3 DEF DiskManifest
    <2> QED
      BY <1>2, <1>5, <2>1, <2>2, <2>3, <2>4, SettledGenerations
  <1>6. CASE WriteBackup /\ DiskManifest' = next /\ ManifestFile \notin DOMAIN disk'
    <2>1. /\ UNCHANGED <<manifest, next, flush>> /\ pc = "backup" /\ pc' = "primary"
      BY <1>6 DEF WriteBackup, serviceVars, frameVars
    <2>2. flush = "none" => next.generation = manifest.generation
      BY <2>1 DEF NextGeneration, CommitOrAfter, CommitPoints
    <2> QED
      BY <1>1, <1>2, <1>6, <2>1, <2>2 DEF DiskNoYounger, Committing
  <1>7. CASE /\ pc = "prune" /\ (\E f \in prune : PruneFile(f))
             /\ DiskManifest' \in {next, EmptyManifest}
    <2>1. UNCHANGED <<pc, flush, next>> /\ flush # "none"
      BY <1>7 DEF PruneFile, FlushRuns
    <2> QED
      BY <1>1, <1>2, <1>3, <1>7, <2>1 DEF DiskNoYounger, Committing
  <1>8. CASE pc = "reset" /\ \E f \in prune : PruneFile(f)
    BY <1>2, <1>8 DEF PruneFile, DiskNoYounger, Committing
  <1> QED
    BY <1>2, <1>4, <1>5, <1>6, <1>7, <1>8, DiskManifestChanges

\* A checkpoint is written to a file that the manifest in force does not name.
LEMMA NewCheckpointName ==
    ASSUME IInv, ManifestsNameOld, DiskNoYounger, pc \in {"writeContent", "writeDerived"},
           ManifestFile \in DOMAIN disk \/ "primary" \notin ThrowAt
    PROVE  References(DiskManifest)
               \cap {ContentCheckpointFile(manifest.generation + 1),
                     DerivedCheckpointFile(manifest.generation + 1)} = {}
  <1>1. DiskManifest \in Manifests /\ manifest \in Manifests
    BY CurrentManifestType DEF IInv, TypeInv, TypeOK, DiskOK, DiskManifest
  <1>2. /\ DiskManifest.generation \in Nat /\ manifest.generation \in Nat
        /\ NamesOld(DiskManifest)
    BY <1>1, CurrentNamesOld DEF Manifests
  <1>3. DiskManifest.generation <= manifest.generation
    BY DEF DiskNoYounger, Committing
  <1>4. SUFFICES ASSUME NEW f \in References(DiskManifest)
                 PROVE  f \notin {ContentCheckpointFile(manifest.generation + 1),
                                  DerivedCheckpointFile(manifest.generation + 1)}
    OBVIOUS
  <1>5. CASE f \in SegmentFiles
    BY <1>2, <1>5, FileNames, FileKinds
  <1>6. CASE f \in {DiskManifest.checkpointFile, DiskManifest.derivedFile} \ {NoFile}
    <2>1. f[2] <= DiskManifest.generation
      BY <1>2, <1>6 DEF NamesOld
    <2>2. f[2] \in Nat
      BY <1>1, <1>6 DEF Manifests, ContentCheckpointFiles, DerivedCheckpointFiles
    <2>3. f[2] # manifest.generation + 1
      BY <1>2, <1>3, <2>1, <2>2
    <2> QED
      BY <2>3 DEF ContentCheckpointFile, DerivedCheckpointFile
  <1>7. \A s \in DiskManifest.closed : FileOf(s) \in SegmentFiles
    BY <1>1, FileNames DEF Manifests
  <1> QED
    BY <1>4, <1>5, <1>6, <1>7 DEF References

\* Nothing is written over, or removed from, what the manifest in force names.
LEMMA NothingOverwritten ==
    ASSUME IInv, ManifestsNameOld, DiskNoYounger, [Next]_vars, pc # "reset",
           "primary" \notin ThrowAt, NEW f \in References(DiskManifest)
    PROVE  f \in DOMAIN disk' /\ disk'[f] = disk[f]
  <1>1. /\ DiskOK(disk) /\ DiskManifest \in Manifests
        /\ manifest \in Manifests /\ next \in Manifests
    BY CurrentManifestType DEF IInv, TypeInv, TypeOK, DiskOK, DiskManifest
  <1>2. f \in DOMAIN disk
    BY CurrentManifestRefers DEF IInv, DiskManifest
  <1>3. f \in ContentCheckpointFiles \cup DerivedCheckpointFiles \cup SegmentFiles
    BY <1>1, ReferencesAreData
  <1>4. f \notin {ManifestFile, ManifestBak, ActiveLog}
    BY <1>3, FileKinds
  <1>6. CASE AppendWal
    BY <1>2, <1>4, <1>6, IInvTypes, AppendStep
  <1>7. (WriteContentCheckpoint \/ WriteDerivedCheckpoint) =>
            f \notin {ContentCheckpointFile(manifest.generation + 1),
                     DerivedCheckpointFile(manifest.generation + 1)}
    BY NewCheckpointName DEF WriteContentCheckpoint, WriteDerivedCheckpoint
  <1>8. CASE WriteContentCheckpoint \/ WriteDerivedCheckpoint
    BY <1>2, <1>7, <1>8 DEF WriteContentCheckpoint, WriteDerivedCheckpoint, WithFile
  <1>9. CASE CloseSegments
    <2>1. f \notin AppendedClosed(disk, next)
      <3>1. AppendedClosed(disk, next) \subseteq SegmentFiles
        BY <1>1, FileNames DEF AppendedClosed, Manifests
      <3>2. /\ DiskManifest.checkpointFile \notin SegmentFiles
            /\ DiskManifest.derivedFile \notin SegmentFiles
        BY <1>1, FileKinds DEF Manifests
      <3> QED
        BY <3>1, <3>2 DEF References, AppendedClosed, DiskManifest
    <2> QED
      BY <1>2, <1>9, <2>1 DEF CloseSegments, WithClosedSegments, WithFiles
  <1>10. CASE WriteBackup \/ WritePrimary \/ TruncateActive
    BY <1>2, <1>4, <1>10 DEF WriteBackup, WritePrimary, TruncateActive, WithFile
  <1>11. ASSUME NEW g \in prune, PruneFile(g)
         PROVE  f \in DOMAIN disk' /\ disk'[f] = disk[f]
    <2>1. pc = "prune"
      BY <1>11 DEF PruneFile
    <2>2. DiskManifest \in {next, EmptyManifest}
      BY <2>1 DEF IInv, CommittedCopies, DiskManifest, CurrentManifest
    <2>3. f \in References(next)
      BY <2>2, EmptyManifestFacts
    <2>4. f # g
      BY <1>11, <2>1, <2>3 DEF IInv, PruneUnreferenced, CommitOrAfter
    <2> QED
      BY <1>2, <1>11, <2>4 DEF PruneFile, WithoutFile
  <1>12. CASE UNCHANGED disk
    BY <1>2, <1>12
  <1> QED
    BY <1>6, <1>8, <1>9, <1>10, <1>11, <1>12, DiskChanges

\* While nothing is imported and no rejection leaves the service with a manifest
\* older than the one on disk, a checkpoint or a closed segment is written once:
\* no crash lets a later commit, pruning or append reuse the name of a file that
\* a restart would still read.
THEOREM FilesInForceAreNotOverwritten ==
    ASSUME Imports = {}, ResetRemoves, ThrowAt \cap StaleMemoryThrows = {}
    PROVE  Spec => ReferencedFilesImmutable
  <1> DEFINE Inv == FlushRuns /\ ManifestsNameOld /\ NextGeneration /\ DiskNoYounger
  <1>1. Init => Inv
    BY EmptyNamesOld DEF Init, FlushRuns, FlushSteps, ManifestsNameOld, NextGeneration,
       DiskNoYounger, Committing, CommitOrAfter, CommitPoints
  <1>2. IInv /\ Inv /\ [Next]_vars => Inv'
    BY FlushRunsStep, NameOldStep, GenerationStep DEF StaleMemoryThrows
  <1> DEFINE Kept == pc # "reset" => \A f \in References(DiskManifest) :
                                         f \in DOMAIN disk' /\ disk'[f] = disk[f]
  <1>3. IInv /\ Inv /\ [Next]_vars => [Kept]_disk
    BY NothingOverwritten DEF StaleMemoryThrows
  <1> HIDE DEF Inv
  <1> QED
    BY <1>1, <1>2, <1>3, Invariance, PTL DEF Spec, ReferencedFilesImmutable

=============================================================================
