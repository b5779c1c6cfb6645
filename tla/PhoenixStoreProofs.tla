------------------------- MODULE PhoenixStoreProofs -------------------------
(***************************************************************************)
(* For every value of the constants: the store is type correct and a       *)
(* derived flush never waits for a load that is queued behind it; and, as  *)
(* long as a reset removes what it is told to, the two manifest copies     *)
(* never name a file that does not exist and a boot finds the files it     *)
(* recovers from.                                                          *)
(***************************************************************************)
EXTENDS PhoenixStore, TLAPS

-----------------------------------------------------------------------------
(* The inductive invariant. *)

CommitOrAfter == CommitPoints \cup {"committed", "prune"}

\* The running task is one that can be where it is.
JobHere ==
    /\ pc \in {"append", "apply"} => job.op = "mutate"
    /\ pc = "import" => job.op = "import"
    /\ pc \in {"writeContent", "exportDerived", "writeDerived"} => flush # "none"
    /\ (pc \in CommitPoints /\ flush = "none") => job.op = "mutate"
    /\ pc \in ReloadPoints => job.op = "mutate"

TypeInv == TypeOK /\ JobHere

\* The manifest in memory names existing files, but while they are pruned.
MemoryRefersToDisk ==
    pc \notin {"reset", "prune"} => References(manifest) \subseteq DOMAIN disk

\* The manifest being committed names files that exist or, before the segments
\* are closed, that the closing creates from a log that is not empty.
NextRefersToDisk ==
    /\ pc = "close" =>
          \A f \in References(next) :
              \/ f \in DOMAIN disk
              \/ f \in {FileOf(s) : s \in next.closed} /\ ActiveRecords(disk) # <<>>
    /\ pc \in (CommitOrAfter \cup {"apply"}) \ {"close"} => References(next) \subseteq DOMAIN disk

\* Once both copies are written they are the manifest being committed.
CommittedCopies ==
    /\ (pc = "primary" /\ ManifestBak \in DOMAIN disk) => disk[ManifestBak] = next
    /\ pc \in {"truncate", "committed", "prune"} =>
          \A f \in {ManifestFile, ManifestBak} \cap DOMAIN disk : disk[f] = next

\* What is pruned is not referred to: by the manifest committed, or by a
\* manifest copy that a reset has still to remove.
PruneUnreferenced ==
    /\ pc \in {"down", "boot", "recover", "idle", "append"} => prune = {}
    /\ pc \in CommitOrAfter => prune \cap References(next) = {}
    /\ pc = "reset" => {ManifestFile, ManifestBak} \cap DOMAIN disk \subseteq prune

\* What most of it needs of the faults: a reset removes what it is told to.  A
\* manifest copy that it leaves names files that it removed.
ResetRemoves == "reset" \notin ThrowAt

\* The assumption is a conjunct so that the lemmas need not repeat it.
IInv ==
    /\ ResetRemoves
    /\ TypeInv
    /\ NoDanglingReference
    /\ MemoryRefersToDisk
    /\ NextRefersToDisk
    /\ CommittedCopies
    /\ PruneUnreferenced

-----------------------------------------------------------------------------
(* Lemmas about files and manifests. *)

DiskOK(d) ==
    /\ DOMAIN d \subseteq FileIds
    /\ \A f \in DOMAIN d : FileType(f, d[f])

\* The kinds of file do not overlap.
LEMMA FileKinds ==
    /\ ManifestFile # ManifestBak /\ ManifestFile # ActiveLog /\ ManifestBak # ActiveLog
    /\ \A f \in {ManifestFile, ManifestBak, ActiveLog, NoFile} :
          f \notin ContentCheckpointFiles \cup DerivedCheckpointFiles \cup SegmentFiles
    /\ NoFile \notin FileIds
    /\ ContentCheckpointFiles \cap DerivedCheckpointFiles = {}
    /\ ContentCheckpointFiles \cap SegmentFiles = {}
    /\ DerivedCheckpointFiles \cap SegmentFiles = {}
  BY DEF ManifestFile, ManifestBak, ActiveLog, NoFile, ContentCheckpointFiles,
         DerivedCheckpointFiles, SegmentFiles, FileIds

\* The files named after generations and sequence numbers.
LEMMA FileNames ==
    /\ \A g \in Nat : ContentCheckpointFile(g) \in ContentCheckpointFiles
    /\ \A g \in Nat : DerivedCheckpointFile(g) \in DerivedCheckpointFiles
    /\ \A s \in Segments : FileOf(s) \in SegmentFiles
    /\ \A s, t \in Segments : FileOf(s) = FileOf(t) => s.endSeq = t.endSeq
  BY DEF ContentCheckpointFile, DerivedCheckpointFile, FileOf, SegmentFile, Segments,
         ContentCheckpointFiles, DerivedCheckpointFiles, SegmentFiles

\* What a manifest refers to is a checkpoint or a segment.
LEMMA ReferencesAreData ==
    ASSUME NEW m \in Manifests
    PROVE  References(m) \subseteq
               ContentCheckpointFiles \cup DerivedCheckpointFiles \cup SegmentFiles
  BY FileNames DEF References, Manifests

LEMMA EmptyManifestFacts ==
    EmptyManifest \in Manifests /\ References(EmptyManifest) = {}
  BY DEF EmptyManifest, Manifests, References, NoFile

\* A disk stays typed when a value of the file's type is written to it.
LEMMA WithFileOK ==
    ASSUME NEW d, DiskOK(d), NEW f \in FileIds, NEW v, FileType(f, v)
    PROVE  DiskOK(WithFile(d, f, v))
  BY DEF DiskOK, WithFile

LEMMA WithFilesOK ==
    ASSUME NEW d, DiskOK(d), NEW F \in SUBSET FileIds, NEW v, \A f \in F : FileType(f, v)
    PROVE  DiskOK(WithFiles(d, F, v))
  BY DEF DiskOK, WithFiles

LEMMA WithoutFileOK ==
    ASSUME NEW d, DiskOK(d), NEW f
    PROVE  DiskOK(WithoutFile(d, f))
  BY DEF DiskOK, WithoutFile

LEMMA CurrentManifestType ==
    ASSUME NEW d, DiskOK(d)
    PROVE  CurrentManifest(d) \in Manifests
  BY EmptyManifestFacts DEF DiskOK, CurrentManifest, FileType

LEMMA ActiveRecordsType ==
    ASSUME NEW d, DiskOK(d)
    PROVE  ActiveRecords(d) \in Seq(Records)
  BY DEF DiskOK, ActiveRecords, FileType

-----------------------------------------------------------------------------
(* Lemmas about the manifests the operations compute. *)

\* Updating the fields of a manifest within their types.
LEMMA GrownManifest ==
    ASSUME NEW m \in Manifests, NEW seq \in Nat \ {0}, NEW bytes \in Nat, NEW active \in Nat
    PROVE  [m EXCEPT !.nextSeq = seq, !.activeBytes = bytes, !.activeCount = active] \in Manifests
  BY Zenon DEF Manifests

LEMMA RolledManifest ==
    ASSUME NEW m \in Manifests, NEW closed \in SUBSET Segments, NEW zero \in Nat
    PROVE  [m EXCEPT !.closed = closed, !.activeBytes = zero, !.activeCount = zero] \in Manifests
  BY Zenon DEF Manifests

LEMMA ContentCheckpointManifest ==
    ASSUME NEW m \in Manifests, NEW generation \in Nat, NEW file \in ContentCheckpointFiles,
           NEW lastSeq \in Nat, NEW zero \in Nat, NEW closed \in SUBSET Segments
    PROVE  [m EXCEPT !.generation = generation, !.checkpointFile = file,
                     !.lastCheckpointSeq = lastSeq, !.activeBytes = zero, !.activeCount = zero,
                     !.closed = closed] \in Manifests
  BY Zenon DEF Manifests

LEMMA DerivedCheckpointManifest ==
    ASSUME NEW m \in Manifests, NEW generation \in Nat, NEW file \in DerivedCheckpointFiles
    PROVE  [m EXCEPT !.generation = generation, !.derivedFile = file] \in Manifests
  BY Zenon DEF Manifests

LEMMA AppendManifestFacts ==
    ASSUME NEW m \in Manifests, NEW bytes \in Nat, NEW active \in Nat
    PROVE  LET n == NextManifestWithWalAppend(m, 1, bytes, active)
           IN  /\ n \in Manifests
               /\ References(n) \subseteq References(m) \cup {FileOf(s) : s \in n.closed}
  <1> DEFINE grown == [m EXCEPT !.nextSeq = m.nextSeq + 1,
                                !.activeBytes = bytes,
                                !.activeCount = active]
             segment == [startSeq |-> grown.nextSeq - active,
                         endSeq |-> grown.nextSeq - 1,
                         recordCount |-> active,
                         bytes |-> bytes]
             rolled == [grown EXCEPT !.closed = grown.closed \cup {segment},
                                     !.activeBytes = 0,
                                     !.activeCount = 0]
  <1>1. grown \in Manifests
    <2>1. m.nextSeq + 1 \in Nat \ {0}
      BY DEF Manifests
    <2> QED
      BY <2>1, GrownManifest
  <1>2. /\ grown.checkpointFile = m.checkpointFile
        /\ grown.derivedFile = m.derivedFile
        /\ grown.closed = m.closed
    BY DEF Manifests
  <1>3. CASE ShouldRollActiveSegment(grown) /\ grown.nextSeq > active /\ active > 0
    <2>1. segment \in Segments
      BY <1>1, <1>3 DEF Segments, Manifests
    <2>2. rolled \in Manifests
      <3>1. grown.closed \cup {segment} \in SUBSET Segments
        BY <1>1, <2>1 DEF Manifests
      <3> QED
        BY <1>1, <3>1, RolledManifest
    <2>3. /\ rolled.checkpointFile = m.checkpointFile
          /\ rolled.derivedFile = m.derivedFile
      BY <1>1, <1>2 DEF Manifests
    <2>4. NextManifestWithWalAppend(m, 1, bytes, active) = rolled
      BY <1>3 DEF NextManifestWithWalAppend
    <2> QED
      BY <2>2, <2>3, <2>4 DEF References
  <1>4. CASE ~ (ShouldRollActiveSegment(grown) /\ grown.nextSeq > active /\ active > 0)
    <2>1. NextManifestWithWalAppend(m, 1, bytes, active) = grown
      BY <1>4 DEF NextManifestWithWalAppend
    <2> QED
      BY <1>1, <1>2, <2>1 DEF References
  <1> QED
    BY <1>3, <1>4

\* A content checkpoint refers to its file and to what it kept; it prunes none
\* of that: a segment is reclaimed or kept by its last sequence number.
LEMMA ContentManifestFacts ==
    ASSUME NEW m \in Manifests, NEW file \in ContentCheckpointFiles, NEW lastSeq \in Nat
    PROVE  LET n == FinalizeContentCheckpointManifest(m, file, lastSeq)
           IN  /\ n \in Manifests
               /\ References(n) \subseteq References(m) \cup {file}
               /\ ContentPruneFiles(m, file, lastSeq) \subseteq FileIds
               /\ ContentPruneFiles(m, file, lastSeq) \cap References(n) = {}
  <1> DEFINE n == FinalizeContentCheckpointManifest(m, file, lastSeq)
  <1>1. n \in Manifests
    <2>1. m.generation + 1 \in Nat
      BY DEF Manifests
    <2>2. m.closed \ Reclaimed(m, lastSeq) \in SUBSET Segments
      BY DEF Manifests
    <2> QED
      BY <2>1, <2>2, ContentCheckpointManifest DEF FinalizeContentCheckpointManifest
  <1>2. /\ n.checkpointFile = file
        /\ n.derivedFile = m.derivedFile
        /\ n.closed = m.closed \ Reclaimed(m, lastSeq)
    BY DEF FinalizeContentCheckpointManifest, Manifests
  <1>3. m.closed \subseteq Segments /\ Reclaimed(m, lastSeq) \subseteq m.closed
    BY DEF Manifests, Reclaimed
  <1>4. References(n) \subseteq References(m) \cup {file}
    BY <1>2 DEF References
  <1>5. ContentPruneFiles(m, file, lastSeq) \subseteq FileIds
    BY <1>3, FileNames DEF ContentPruneFiles, Manifests, FileIds
  <1>6. {FileOf(s) : s \in Reclaimed(m, lastSeq)} \cap {FileOf(s) : s \in n.closed} = {}
    BY <1>2, <1>3, FileNames DEF Reclaimed
  <1>7. {FileOf(s) : s \in Reclaimed(m, lastSeq)} \subseteq SegmentFiles
    BY <1>3, FileNames
  <1>8. {FileOf(s) : s \in n.closed} \subseteq SegmentFiles
    BY <1>2, <1>3, FileNames
  <1>9. /\ m.checkpointFile \in ContentCheckpointFiles \cup {NoFile}
        /\ n.derivedFile \in DerivedCheckpointFiles \cup {NoFile}
    BY <1>2 DEF Manifests
  <1>10. ContentPruneFiles(m, file, lastSeq) \cap References(n) = {}
    BY <1>2, <1>6, <1>7, <1>8, <1>9, FileKinds DEF ContentPruneFiles, References
  <1> QED
    BY <1>1, <1>4, <1>5, <1>10

LEMMA DerivedManifestFacts ==
    ASSUME NEW m \in Manifests, NEW file \in DerivedCheckpointFiles
    PROVE  LET n == FinalizeDerivedCheckpointManifest(m, file)
           IN  /\ n \in Manifests
               /\ References(n) \subseteq References(m) \cup {file}
               /\ DerivedPruneFiles(m, file) \subseteq FileIds
               /\ DerivedPruneFiles(m, file) \cap References(n) = {}
  <1> DEFINE n == FinalizeDerivedCheckpointManifest(m, file)
  <1>1. n \in Manifests
    <2>1. m.generation + 1 \in Nat
      BY DEF Manifests
    <2> QED
      BY <2>1, DerivedCheckpointManifest DEF FinalizeDerivedCheckpointManifest
  <1>2. /\ n.checkpointFile = m.checkpointFile
        /\ n.derivedFile = file
        /\ n.closed = m.closed
    BY DEF FinalizeDerivedCheckpointManifest, Manifests
  <1>3. References(n) \subseteq References(m) \cup {file}
    BY <1>2 DEF References
  <1>4. /\ m.checkpointFile \in ContentCheckpointFiles \cup {NoFile}
        /\ m.derivedFile \in DerivedCheckpointFiles \cup {NoFile}
        /\ {FileOf(s) : s \in m.closed} \subseteq SegmentFiles
    BY FileNames DEF Manifests
  <1>5. DerivedPruneFiles(m, file) \subseteq FileIds
    BY <1>4 DEF DerivedPruneFiles, FileIds
  <1>6. DerivedPruneFiles(m, file) \cap References(n) = {}
    BY <1>2, <1>4, FileKinds DEF DerivedPruneFiles, References
  <1> QED
    BY <1>1, <1>3, <1>5, <1>6

-----------------------------------------------------------------------------
(* Lemmas about what recovery reads. *)

LEMMA RecordAtType ==
    ASSUME NEW d, DiskOK(d), NEW m, NEW p \in LogPositions(d, m),
           m \in Manifests
    PROVE  RecordAt(d, p) \in Records
  <1>1. PICK f \in LogFiles(m) \cap DOMAIN d : p \in {f} \X DOMAIN d[f]
    BY DEF LogPositions
  <1>2. f \in {ActiveLog} \cup SegmentFiles
    BY FileNames DEF LogFiles, Manifests
  <1>3. d[f] \in Seq(Records)
    BY <1>1, <1>2 DEF DiskOK, FileType
  <1>4. p[1] = f /\ p[2] \in DOMAIN d[f]
    BY <1>1
  <1> QED
    BY <1>3, <1>4 DEF RecordAt

LEMMA CheckpointType ==
    ASSUME NEW d, DiskOK(d), NEW m \in Manifests, m.checkpointFile \in DOMAIN d \cup {NoFile}
    PROVE  CheckpointContent(d, m) \in SUBSET Records
  <1>1. CASE m.checkpointFile = NoFile
    BY <1>1 DEF CheckpointContent
  <1>2. CASE m.checkpointFile # NoFile
    <2>1. m.checkpointFile \in ContentCheckpointFiles
      BY <1>2 DEF Manifests
    <2>3. m.checkpointFile \in DOMAIN d
      BY <1>2
    <2>4. d[m.checkpointFile] \in SUBSET Records
      BY <2>1, <2>3 DEF DiskOK, FileType
    <2> QED
      BY <1>2, <2>4 DEF CheckpointContent
  <1> QED
    BY <1>1, <1>2

LEMMA RecoveredType ==
    ASSUME NEW d, DiskOK(d), NEW m \in Manifests, Recoverable(d, m)
    PROVE  Recovered(d, m) \in SUBSET Records
  <1>1. ReplayedPositions(d, m) \subseteq LogPositions(d, m)
    BY DEF ReplayedPositions
  <1>2. {RecordAt(d, p) : p \in ReplayedPositions(d, m)} \subseteq Records
    BY <1>1, RecordAtType
  <1>3. m.checkpointFile \in DOMAIN d \cup {NoFile}
    BY FileKinds DEF Recoverable, References, Manifests
  <1> QED
    BY <1>2, <1>3, CheckpointType DEF Recovered

-----------------------------------------------------------------------------
(* Which actions change what.  Each lemma goes through every action of Next. *)

USE DEF runtimeVars, derivedVars, timerVars, frameVars, serviceVars, clientVars, vars,
    Next, Progress, Boot, Callers, Mutate, Reload, Load, Checkpoint, Import, Commit,
    NextTask, DequeueInto, SkipTask, Enqueue, ClearFrame, EndJob, EndLoad, Settle,
    AcknowledgeReload, CountFault, AfterCommit, LoadStateOf, ContentTimerAfter,
    LoadManifest, RecoverRuntime, RecoverThrows, ResetRuntime, PruneFile, Restart,
    RequestMutation, RequestImport, TriggerSnapshot, EnsureDerivedLoaded, ChangeDerived,
    MarkDerivedDirty, ContentTimerFires, DerivedTimerFires, PauseSnapshots,
    ResumeSnapshots, StartMutation, AppendWal, ApplyBatch, ApplyThrows, ReloadRuntime,
    ReloadManifest, ReloadReplay, ReloadReplayThrows, StartLoad, LoadDerived,
    LoadDerivedThrows, ClearDerived, StartContentCheckpoint, StartDerivedCheckpoint,
    StartSnapshot, WriteContentCheckpoint, ExportDerived, WriteDerivedCheckpoint,
    BeginPrune, FinishFlush, StartImport, ImportSnapshot, CloseSegments, WriteBackup,
    WritePrimary, TruncateActive, FailTask, TaskThrows, RuntimeLost, WorkerDies, Crash,
    Rejects

\* The actions that write files, and what all the others leave alone.
LEMMA DiskChanges ==
    ASSUME [Next]_vars
    PROVE  \/ AppendWal \/ WriteContentCheckpoint \/ WriteDerivedCheckpoint
           \/ CloseSegments \/ WriteBackup \/ WritePrimary \/ TruncateActive
           \/ \E f \in prune : PruneFile(f)
           \/ /\ UNCHANGED disk
              /\ pc' \in {"close", "backup", "primary", "truncate", "committed", "apply"} =>
                    UNCHANGED <<pc, next, prune>>
              /\ pc' = "prune" => pc \in {"committed", "prune"} /\ UNCHANGED <<next, prune>>
              /\ pc' = "reset" => RecoverThrows \/ UNCHANGED <<pc, prune>>
  BY Zenon

LEMMA ManifestChanges ==
    ASSUME [Next]_vars
    PROVE  \/ UNCHANGED manifest /\ (pc' \in {"reset", "prune"} \/ pc \notin {"reset", "prune"})
           \/ manifest' = EmptyManifest
           \/ manifest' = CurrentManifest(disk) /\ UNCHANGED disk
           \/ /\ manifest' = next
              /\ pc \in {"apply", "committed", "prune"}
              /\ UNCHANGED disk
  BY Zenon DEF RejectPoints, RuntimePoints

LEMMA NextChanges ==
    ASSUME [Next]_vars
    PROVE  \/ UNCHANGED next \/ next' = EmptyManifest
           \/ AppendWal \/ WriteContentCheckpoint \/ WriteDerivedCheckpoint
  BY Zenon

LEMMA PruneChanges ==
    ASSUME [Next]_vars
    PROVE  \/ UNCHANGED prune \/ prune' = {} \/ \E f \in prune : prune' = prune \ {f}
           \/ prune' = CollectManifestFiles(manifest)
           \/ WriteContentCheckpoint \/ WriteDerivedCheckpoint
  BY Zenon

LEMMA ContentChanges ==
    ASSUME [Next]_vars
    PROVE  \/ UNCHANGED rtContent \/ rtContent' = {}
           \/ Recoverable(disk, manifest) /\ rtContent' = Recovered(disk, manifest)
           \/ rtContent' = rtContent \cup {Batch} /\ pc = "apply"
           \/ ReloadReplayThrows \/ ImportSnapshot
  BY Zenon

LEMMA DerivedChanges ==
    ASSUME [Next]_vars
    PROVE  /\ \/ rtDerived' \in {rtDerived, 0, rtDerived + 1}
              \/ LoadedFile \in DOMAIN disk /\ rtDerived' = disk[LoadedFile]
           /\ exported' \in {exported, 0, rtDerived}
           /\ derivedMeta' \in {derivedMeta, NoFile, CurrentManifest(disk).derivedFile}
  <1>1. \/ rtDerived' \in {rtDerived, 0, rtDerived + 1}
        \/ LoadedFile \in DOMAIN disk /\ rtDerived' = disk[LoadedFile]
    BY Zenon
  <1>2. exported' \in {exported, 0, rtDerived}
    BY Zenon
  <1>3. derivedMeta' \in {derivedMeta, NoFile, CurrentManifest(disk).derivedFile}
    BY Zenon
  <1> QED
    BY <1>1, <1>2, <1>3, Zenon

LEMMA ChainChanges ==
    ASSUME [Next]_vars
    PROVE  /\ \/ UNCHANGED chain \/ chain' = <<>>
              \/ \E t \in Tasks : chain' = Append(chain, t)
              \/ chain # <<>> /\ chain' = Tail(chain)
           /\ UNCHANGED job \/ job' = NoJob \/ (chain # <<>> /\ job' = Head(chain))
  BY Zenon DEF Tasks

\* The variables that only take the values of a small set.
LEMMA FlagChanges ==
    ASSUME TypeOK, [Next]_vars
    PROVE  /\ derivedDirty' \in BOOLEAN /\ contentTimer' \in BOOLEAN
           /\ derivedTimer' \in BOOLEAN /\ truncating' \in BOOLEAN /\ marking' \in BOOLEAN
           /\ loadState' \in {"cold", "loading", "ready"}
           /\ hydration' \in {"pending", "running", "done"}
           /\ flush' \in {"none", "content", "derived"}
           /\ pc' \in Points
           /\ status' \in [Requests -> {"new", "queued", "acked", "rejected", "lost"}]
           /\ rtUp' \in BOOLEAN
           /\ faults' \in {faults, faults + 1}
  <1>1. derivedDirty' \in BOOLEAN /\ contentTimer' \in BOOLEAN
    BY Zenon DEF TypeOK
  <1>2. derivedTimer' \in BOOLEAN /\ truncating' \in BOOLEAN /\ marking' \in BOOLEAN
    BY Zenon DEF TypeOK, ShouldTruncateActive
  <1>3. loadState' \in {"cold", "loading", "ready"}
    BY Zenon DEF TypeOK
  <1>4. hydration' \in {"pending", "running", "done"}
    BY Zenon DEF TypeOK
  <1>5. flush' \in {"none", "content", "derived"}
    BY Zenon DEF TypeOK
  <1>6. pc' \in Points
    <2>1. pc \in Points
      BY DEF TypeOK
    <2> QED
      BY <2>1, Zenon DEF Points, BootPoints, CommitPoints, ReloadPoints, LoadPoints,
                           FlushPoints
  <1>7. status' \in [Requests -> {"new", "queued", "acked", "rejected", "lost"}]
    BY Zenon DEF TypeOK
  <1>8. faults' \in {faults, faults + 1}
    BY Zenon DEF TypeOK
  <1>9. rtUp' \in BOOLEAN
    BY Zenon DEF TypeOK
  <1> QED
    BY <1>1, <1>2, <1>3, <1>4, <1>5, <1>6, <1>7, <1>8, <1>9, Zenon

LEMMA JobStep ==
    ASSUME JobHere, [Next]_vars
    PROVE  JobHere'
  BY Zenon DEF JobHere, CommitPoints, ReloadPoints

\* Nothing is left to prune when a task starts.
LEMMA NothingToPrune ==
    ASSUME [Next]_vars,
           pc \in {"down", "boot", "recover", "idle", "append"} => prune = {},
           pc' \in {"down", "boot", "recover", "idle", "append"}
    PROVE  prune' = {}
  BY Zenon

\* Nothing but a task changes the load state, and the flush runs alone.
LEMMA FlushStep ==
    ASSUME FlushNeverAwaitsItself, [Next]_vars
    PROVE  FlushNeverAwaitsItself'
  BY Zenon DEF FlushNeverAwaitsItself, ThenDerived


HIDE DEF runtimeVars, derivedVars, timerVars, frameVars, serviceVars, clientVars, vars,
    Next, Progress, Boot, Callers, Mutate, Reload, Load, Checkpoint, Import, Commit,
    NextTask, DequeueInto, SkipTask, Enqueue, ClearFrame, EndJob, EndLoad, Settle,
    AcknowledgeReload, CountFault, AfterCommit, LoadStateOf, ContentTimerAfter,
    LoadManifest, RecoverRuntime, RecoverThrows, ResetRuntime, PruneFile, Restart,
    RequestMutation, RequestImport, TriggerSnapshot, EnsureDerivedLoaded, ChangeDerived,
    MarkDerivedDirty, ContentTimerFires, DerivedTimerFires, PauseSnapshots,
    ResumeSnapshots, StartMutation, AppendWal, ApplyBatch, ApplyThrows, ReloadRuntime,
    ReloadManifest, ReloadReplay, ReloadReplayThrows, StartLoad, LoadDerived,
    LoadDerivedThrows, ClearDerived, StartContentCheckpoint, StartDerivedCheckpoint,
    StartSnapshot, WriteContentCheckpoint, ExportDerived, WriteDerivedCheckpoint,
    BeginPrune, FinishFlush, StartImport, ImportSnapshot, CloseSegments, WriteBackup,
    WritePrimary, TruncateActive, FailTask, TaskThrows, RuntimeLost, WorkerDies, Crash,
    Rejects

-----------------------------------------------------------------------------
(* Type correctness is preserved. *)

\* The values of each kind of file.
LEMMA FileTypes ==
    ASSUME NEW v
    PROVE  /\ \A f \in {ManifestFile, ManifestBak} : v \in Manifests => FileType(f, v)
           /\ \A f \in {ActiveLog} \cup SegmentFiles : v \in Seq(Records) => FileType(f, v)
           /\ \A f \in ContentCheckpointFiles : v \in SUBSET Records => FileType(f, v)
           /\ \A f \in DerivedCheckpointFiles : v \in Nat => FileType(f, v)
  BY FileKinds DEF FileType

LEMMA BatchType ==
    ASSUME TypeOK, job.op = "mutate"
    PROVE  Batch \in Records
  <1>1. job.arg \in Mutations
    BY DEF TypeOK, Tasks, NoJob
  <1>2. manifest.nextSeq \in Nat
    BY DEF TypeOK, Manifests
  <1> QED
    BY <1>1, <1>2 DEF Batch, Records

\* The records appended and the manifest counted from them.
LEMMA AppendStep ==
    ASSUME TypeInv, AppendWal
    PROVE  /\ DiskOK(disk')
           /\ next' \in Manifests
           /\ References(next') \subseteq References(manifest) \cup {FileOf(s) : s \in next'.closed}
           /\ DOMAIN disk' = DOMAIN disk \cup {ActiveLog}
           /\ disk'[ActiveLog] # <<>>
           /\ \A f \in DOMAIN disk : f # ActiveLog => disk'[f] = disk[f]
  <1> DEFINE log == Append(ActiveRecords(disk), Batch)
             active == CurrentManifest(disk).activeCount + 1
  <1>1. DiskOK(disk) /\ manifest \in Manifests
    BY DEF TypeInv, TypeOK, DiskOK
  <1>2. ActiveRecords(disk) \in Seq(Records)
    BY <1>1, ActiveRecordsType
  <1>3. Batch \in Records
    BY BatchType DEF TypeInv, JobHere, AppendWal
  <1>4. log \in Seq(Records) /\ log # <<>> /\ Len(log) \in Nat
    BY <1>2, <1>3
  <1>5. active \in Nat
    BY <1>1, CurrentManifestType DEF Manifests
  <1>6. /\ disk' = WithFile(disk, ActiveLog, log)
        /\ next' = NextManifestWithWalAppend(manifest, 1, Len(log), active)
    BY DEF AppendWal
  <1>7. DiskOK(disk')
    BY <1>1, <1>4, <1>6, WithFileOK, FileTypes DEF FileIds
  <1>8. /\ next' \in Manifests
        /\ References(next') \subseteq References(manifest) \cup {FileOf(s) : s \in next'.closed}
    BY <1>1, <1>4, <1>5, <1>6, AppendManifestFacts
  <1>9. /\ DOMAIN disk' = DOMAIN disk \cup {ActiveLog}
        /\ disk'[ActiveLog] # <<>>
        /\ \A f \in DOMAIN disk : f # ActiveLog => disk'[f] = disk[f]
    BY <1>4, <1>6 DEF WithFile
  <1> QED
    BY <1>7, <1>8, <1>9

\* A checkpoint writes its file and computes a manifest that refers to it.
LEMMA CheckpointStep ==
    ASSUME TypeInv, WriteContentCheckpoint \/ WriteDerivedCheckpoint
    PROVE  /\ DiskOK(disk')
           /\ next' \in Manifests
           /\ prune' \subseteq FileIds
           /\ prune' \cap References(next') = {}
           /\ References(next') \subseteq References(manifest) \cup DOMAIN disk'
           /\ DOMAIN disk \subseteq DOMAIN disk'
           /\ \A f \in {ManifestFile, ManifestBak} \cap DOMAIN disk' :
                 f \in DOMAIN disk /\ disk'[f] = disk[f]
  <1>1. /\ DiskOK(disk) /\ manifest \in Manifests
        /\ rtContent \in SUBSET Records /\ exported \in Nat
    BY DEF TypeInv, TypeOK, DiskOK
  <1>2. manifest.generation + 1 \in Nat /\ manifest.nextSeq - 1 \in Nat
    BY <1>1 DEF Manifests
  <1>3. CASE WriteContentCheckpoint
    <2> DEFINE file == ContentCheckpointFile(manifest.generation + 1)
    <2>1. file \in ContentCheckpointFiles
      BY <1>2, FileNames
    <2>2. /\ disk' = WithFile(disk, file, rtContent)
          /\ next' = FinalizeContentCheckpointManifest(manifest, file, manifest.nextSeq - 1)
          /\ prune' = ContentPruneFiles(manifest, file, manifest.nextSeq - 1)
      BY <1>3 DEF WriteContentCheckpoint
    <2>3. DiskOK(disk')
      BY <1>1, <2>1, <2>2, WithFileOK, FileTypes DEF FileIds
    <2>4. /\ DOMAIN disk' = DOMAIN disk \cup {file}
          /\ \A f \in DOMAIN disk : f # file => disk'[f] = disk[f]
      BY <2>2 DEF WithFile
    <2>5. file \notin {ManifestFile, ManifestBak}
      BY <2>1, FileKinds
    <2> HIDE DEF file
    <2>6. /\ next' \in Manifests
          /\ References(next') \subseteq References(manifest) \cup {file}
          /\ prune' \subseteq FileIds
          /\ prune' \cap References(next') = {}
      BY <1>1, <1>2, <2>1, <2>2, ContentManifestFacts
    <2> QED
      BY <2>3, <2>4, <2>5, <2>6
  <1>4. CASE WriteDerivedCheckpoint
    <2> DEFINE file == DerivedCheckpointFile(manifest.generation + 1)
    <2>1. file \in DerivedCheckpointFiles
      BY <1>2, FileNames
    <2>2. /\ disk' = WithFile(disk, file, exported)
          /\ next' = FinalizeDerivedCheckpointManifest(manifest, file)
          /\ prune' = DerivedPruneFiles(manifest, file)
      BY <1>4 DEF WriteDerivedCheckpoint
    <2>3. DiskOK(disk')
      BY <1>1, <2>1, <2>2, WithFileOK, FileTypes DEF FileIds
    <2>4. /\ DOMAIN disk' = DOMAIN disk \cup {file}
          /\ \A f \in DOMAIN disk : f # file => disk'[f] = disk[f]
      BY <2>2 DEF WithFile
    <2>5. file \notin {ManifestFile, ManifestBak}
      BY <2>1, FileKinds
    <2> HIDE DEF file
    <2>6. /\ next' \in Manifests
          /\ References(next') \subseteq References(manifest) \cup {file}
          /\ prune' \subseteq FileIds
          /\ prune' \cap References(next') = {}
      BY <1>1, <2>1, <2>2, DerivedManifestFacts
    <2> QED
      BY <2>3, <2>4, <2>5, <2>6
  <1> QED
    BY <1>3, <1>4

\* Closing creates the segments that the manifest on disk does not list.
LEMMA CloseStep ==
    ASSUME TypeInv, CloseSegments
    PROVE  /\ DiskOK(disk')
           /\ DOMAIN disk \subseteq DOMAIN disk'
           /\ ActiveRecords(disk) # <<>> => AppendedClosed(disk, next) \subseteq DOMAIN disk'
           /\ \A f \in {ManifestFile, ManifestBak} \cap DOMAIN disk' :
                 f \in DOMAIN disk /\ disk'[f] = disk[f]
  <1>1. DiskOK(disk) /\ next \in Manifests
    BY DEF TypeInv, TypeOK, DiskOK
  <1>2. AppendedClosed(disk, next) \subseteq SegmentFiles
    BY <1>1, FileNames DEF AppendedClosed, Manifests
  <1>3. disk' = WithClosedSegments(disk, next)
    BY DEF CloseSegments
  <1>4. CASE ActiveRecords(disk) = <<>>
    BY <1>1, <1>3, <1>4 DEF WithClosedSegments
  <1>5. CASE ActiveRecords(disk) # <<>>
    <2>1. disk' = WithFiles(disk, AppendedClosed(disk, next), ActiveRecords(disk))
      BY <1>3, <1>5 DEF WithClosedSegments
    <2>2. ActiveRecords(disk) \in Seq(Records)
      BY <1>1, ActiveRecordsType
    <2>3. AppendedClosed(disk, next) \in SUBSET FileIds
      BY <1>2 DEF FileIds
    <2>4. \A f \in AppendedClosed(disk, next) : FileType(f, ActiveRecords(disk))
      BY <1>2, <2>2, FileTypes
    <2>5. DiskOK(disk')
      BY <1>1, <2>1, <2>3, <2>4, WithFilesOK
    <2>6. AppendedClosed(disk, next) \cap {ManifestFile, ManifestBak} = {}
      BY <1>2, FileKinds
    <2> QED
      BY <2>1, <2>5, <2>6 DEF WithFiles
  <1> QED
    BY <1>4, <1>5

LEMMA DiskTypeStep ==
    ASSUME TypeInv, [Next]_vars
    PROVE  DiskOK(disk')
  <1>1. DiskOK(disk) /\ next \in Manifests
    BY DEF TypeInv, TypeOK, DiskOK
  <1>2. CASE AppendWal
    BY <1>2, AppendStep
  <1>3. CASE WriteContentCheckpoint \/ WriteDerivedCheckpoint
    BY <1>3, CheckpointStep
  <1>4. CASE CloseSegments
    BY <1>4, CloseStep
  <1>5. CASE WriteBackup
    BY <1>1, <1>5, WithFileOK, FileTypes DEF WriteBackup, FileIds
  <1>6. CASE WritePrimary
    BY <1>1, <1>6, WithFileOK, FileTypes DEF WritePrimary, FileIds
  <1>7. CASE TruncateActive
    <2>1. <<>> \in Seq(Records)
      OBVIOUS
    <2> QED
      BY <1>1, <1>7, <2>1, WithFileOK, FileTypes DEF TruncateActive, FileIds
  <1>8. CASE \E f \in prune : PruneFile(f)
    BY <1>1, <1>8, WithoutFileOK DEF PruneFile
  <1>9. CASE UNCHANGED disk
    BY <1>1, <1>9
  <1> QED
    BY <1>2, <1>3, <1>4, <1>5, <1>6, <1>7, <1>8, <1>9, DiskChanges

LEMMA ManifestTypeStep ==
    ASSUME TypeInv, [Next]_vars
    PROVE  manifest' \in Manifests /\ next' \in Manifests
  <1>1. DiskOK(disk) /\ manifest \in Manifests /\ next \in Manifests
    BY DEF TypeInv, TypeOK, DiskOK
  <1>2. CurrentManifest(disk) \in Manifests
    BY <1>1, CurrentManifestType
  <1>3. manifest' \in Manifests
    BY <1>1, <1>2, EmptyManifestFacts, ManifestChanges
  <1>4. next' \in Manifests
    BY <1>1, EmptyManifestFacts, NextChanges, AppendStep, CheckpointStep
  <1> QED
    BY <1>3, <1>4

LEMMA PruneTypeStep ==
    ASSUME TypeInv, [Next]_vars
    PROVE  prune' \in SUBSET FileIds
  <1>1. prune \in SUBSET FileIds /\ manifest \in Manifests
    BY DEF TypeInv, TypeOK
  <1>2. CollectManifestFiles(manifest) \in SUBSET FileIds
    BY <1>1, ReferencesAreData DEF CollectManifestFiles, FileIds
  <1> QED
    BY <1>1, <1>2, PruneChanges, CheckpointStep

LEMMA RuntimeTypeStep ==
    ASSUME TypeInv, [Next]_vars
    PROVE  /\ rtContent' \in SUBSET Records
           /\ rtDerived' \in Nat
           /\ exported' \in Nat
           /\ derivedMeta' \in DerivedCheckpointFiles \cup {NoFile}
  <1>1. /\ DiskOK(disk) /\ manifest \in Manifests
        /\ rtContent \in SUBSET Records /\ rtDerived \in Nat /\ exported \in Nat
        /\ derivedMeta \in DerivedCheckpointFiles \cup {NoFile}
    BY DEF TypeInv, TypeOK, DiskOK
  <1>2. rtContent' \in SUBSET Records
    <2>1. CASE rtContent' = rtContent \cup {Batch} /\ pc = "apply"
      <3>1. job.op = "mutate"
        BY <2>1 DEF TypeInv, JobHere
      <3> QED
        BY <1>1, <2>1, <3>1, BatchType DEF TypeInv
    <2>2. CASE ReloadReplayThrows
      <3>1. ReplayedPositions(disk, manifest) \subseteq LogPositions(disk, manifest)
        BY DEF ReplayedPositions
      <3>2. \A p \in ReplayedPositions(disk, manifest) : RecordAt(disk, p) \in Records
        BY <1>1, <3>1, RecordAtType
      <3>3. manifest.checkpointFile \in DOMAIN disk \cup {NoFile} =>
                CheckpointContent(disk, manifest) \in SUBSET Records
        BY <1>1, CheckpointType
      <3>4. \A c \in PartialRecoveries(disk, manifest) : c \in SUBSET Records
        BY <3>2, <3>3 DEF PartialRecoveries, Recovered
      <3> QED
        BY <1>1, <2>2, <3>4 DEF ReloadReplayThrows
    <2>3. CASE ImportSnapshot
      <3>1. job.arg \in Imports
        BY <2>3 DEF ImportSnapshot, TypeInv, JobHere, TypeOK, Tasks, NoJob
      <3> QED
        BY <2>3, <3>1 DEF ImportSnapshot, Records
    <2>4. CASE UNCHANGED rtContent \/ rtContent' = {}
      BY <1>1, <2>4
    <2>5. CASE Recoverable(disk, manifest) /\ rtContent' = Recovered(disk, manifest)
      BY <1>1, <2>5, RecoveredType
    <2> QED
      BY <2>1, <2>2, <2>3, <2>4, <2>5, ContentChanges
  <1>3. rtDerived' \in Nat
    <2>1. CASE LoadedFile \in DOMAIN disk /\ rtDerived' = disk[LoadedFile]
      <3>1. LoadedFile \in DerivedCheckpointFiles \cup {NoFile}
        BY <1>1 DEF LoadedFile, Manifests
      <3>2. LoadedFile \in DOMAIN disk /\ LoadedFile \in FileIds
        BY <1>1, <2>1 DEF DiskOK
      <3>3. LoadedFile \in DerivedCheckpointFiles
        BY <3>1, <3>2, FileKinds
      <3>4. disk[LoadedFile] \in Nat
        BY <1>1, <3>2, <3>3 DEF DiskOK, FileType
      <3> QED
        BY <2>1, <3>4
    <2>2. CASE rtDerived' \in {rtDerived, 0, rtDerived + 1}
      BY <1>1, <2>2
    <2> QED
      BY <2>1, <2>2, DerivedChanges
  <1>4. exported' \in Nat
    BY <1>1, DerivedChanges
  <1>5. derivedMeta' \in DerivedCheckpointFiles \cup {NoFile}
    <2>1. CurrentManifest(disk).derivedFile \in DerivedCheckpointFiles \cup {NoFile}
      BY <1>1, CurrentManifestType DEF Manifests
    <2> QED
      BY <1>1, <2>1, DerivedChanges
  <1> QED
    BY <1>2, <1>3, <1>4, <1>5

LEMMA ChainTypeStep ==
    ASSUME TypeInv, [Next]_vars
    PROVE  chain' \in Seq(Tasks) /\ job' \in Tasks \cup {NoJob}
  <1>1. chain \in Seq(Tasks) /\ job \in Tasks \cup {NoJob}
    BY DEF TypeInv, TypeOK
  <1>2. chain # <<>> => Head(chain) \in Tasks /\ Tail(chain) \in Seq(Tasks)
    BY <1>1
  <1>3. chain' \in Seq(Tasks)
    <2>1. \A t \in Tasks : Append(chain, t) \in Seq(Tasks)
      BY <1>1
    <2>2. <<>> \in Seq(Tasks)
      OBVIOUS
    <2> QED
      BY <1>1, <1>2, <2>1, <2>2, ChainChanges, Zenon
  <1>4. job' \in Tasks \cup {NoJob}
    BY <1>1, <1>2, ChainChanges, Zenon
  <1> QED
    BY <1>3, <1>4

LEMMA TypeStep ==
    ASSUME TypeInv, [Next]_vars
    PROVE  TypeInv'
  <1>1. TypeOK /\ JobHere
    BY DEF TypeInv
  <1>2. faults' \in Nat
    BY <1>1, FlagChanges DEF TypeOK
  <1>3. DiskOK(disk')
    BY DiskTypeStep
  <1>4. TypeOK'
    BY <1>1, <1>2, <1>3, FlagChanges, ManifestTypeStep, PruneTypeStep, RuntimeTypeStep,
       ChainTypeStep DEF TypeOK, DiskOK
  <1> QED
    BY <1>1, <1>4, JobStep DEF TypeInv

-----------------------------------------------------------------------------
(* References are preserved. *)

LEMMA IInvTypes ==
    ASSUME IInv
    PROVE  TypeInv
  BY DEF IInv

\* A file that is pruned goes, or stays where a checkpoint's pruning failed.
LEMMA PruneFileStep ==
    ASSUME IInv, NEW f, PruneFile(f)
    PROVE  /\ pc \in {"reset", "prune"} /\ UNCHANGED <<pc, next>> /\ prune' = prune \ {f}
           /\ disk' = WithoutFile(disk, f) \/ (pc = "prune" /\ UNCHANGED disk)
  BY DEF PruneFile, MayThrow, Here, IInv, ResetRemoves

\* No file disappears but those that are pruned.
LEMMA DiskGrows ==
    ASSUME IInv, [Next]_vars
    PROVE  DOMAIN disk \subseteq DOMAIN disk' \/ \E f \in prune : PruneFile(f)
  <1>1. CASE WriteBackup \/ WritePrimary \/ TruncateActive
    BY <1>1 DEF WriteBackup, WritePrimary, TruncateActive, WithFile
  <1> QED
    BY <1>1, DiskChanges, IInvTypes, AppendStep, CheckpointStep, CloseStep

\* The manifest a load reads names existing files.
LEMMA CurrentManifestRefers ==
    ASSUME NoDanglingReference
    PROVE  References(CurrentManifest(disk)) \subseteq DOMAIN disk
  BY EmptyManifestFacts DEF NoDanglingReference, CurrentManifest

LEMMA NoDanglingStep ==
    ASSUME IInv, [Next]_vars
    PROVE  NoDanglingReference'
  <1>1. /\ NoDanglingReference /\ DiskOK(disk)
        /\ next \in Manifests
        /\ prune \subseteq FileIds
    BY DEF IInv, TypeInv, TypeOK, DiskOK
  <1>2. SUFFICES ASSUME NEW f \in {ManifestFile, ManifestBak}, f \in DOMAIN disk'
                 PROVE  References(disk'[f]) \subseteq DOMAIN disk'
    BY DEF NoDanglingReference
  <1>3. ASSUME DOMAIN disk \subseteq DOMAIN disk', f \in DOMAIN disk, disk'[f] = disk[f]
        PROVE  References(disk'[f]) \subseteq DOMAIN disk'
    BY <1>1, <1>2, <1>3 DEF NoDanglingReference
  <1>4. CASE AppendWal
    BY <1>2, <1>3, <1>4, IInvTypes, AppendStep, FileKinds
  <1>5. CASE WriteContentCheckpoint \/ WriteDerivedCheckpoint
    BY <1>2, <1>3, <1>5, IInvTypes, CheckpointStep
  <1>6. CASE CloseSegments
    BY <1>2, <1>3, <1>6, IInvTypes, CloseStep
  <1>7. CASE WriteBackup
    <2>1. References(next) \subseteq DOMAIN disk
      BY <1>7 DEF WriteBackup, IInv, NextRefersToDisk, CommitOrAfter, CommitPoints
    <2>2. CASE f = ManifestBak
      BY <1>7, <2>1, <2>2 DEF WriteBackup, WithFile
    <2>3. CASE f # ManifestBak
      BY <1>2, <1>3, <1>7, <2>3 DEF WriteBackup, WithFile
    <2> QED
      BY <2>2, <2>3
  <1>8. CASE WritePrimary
    <2>1. References(next) \subseteq DOMAIN disk
      BY <1>8 DEF WritePrimary, IInv, NextRefersToDisk, CommitOrAfter, CommitPoints
    <2>2. CASE f = ManifestFile
      BY <1>8, <2>1, <2>2 DEF WritePrimary, WithFile
    <2>3. CASE f # ManifestFile
      BY <1>2, <1>3, <1>8, <2>3 DEF WritePrimary, WithFile
    <2> QED
      BY <2>2, <2>3
  <1>9. CASE TruncateActive
    BY <1>2, <1>3, <1>9, FileKinds DEF TruncateActive, WithFile
  <1>10. ASSUME NEW g \in prune, PruneFile(g), disk' = WithoutFile(disk, g)
         PROVE  References(disk'[f]) \subseteq DOMAIN disk'
    <2>1. /\ DOMAIN disk' = DOMAIN disk \ {g}
          /\ f \in DOMAIN disk /\ f # g /\ disk'[f] = disk[f]
      BY <1>2, <1>10 DEF WithoutFile
    <2>2. References(disk[f]) \subseteq DOMAIN disk
      BY <1>1, <1>2, <2>1 DEF NoDanglingReference
    <2>3. g \notin References(disk[f])
      <3>1. CASE pc = "prune"
        <4>1. disk[f] = next
          BY <1>2, <2>1, <3>1 DEF IInv, CommittedCopies
        <4>2. prune \cap References(next) = {}
          BY <3>1 DEF IInv, PruneUnreferenced, CommitOrAfter
        <4> QED
          BY <1>10, <4>1, <4>2
      <3>2. CASE pc = "reset"
        <4>1. f \in prune
          BY <1>2, <2>1, <3>2 DEF IInv, PruneUnreferenced
        <4>2. PruneRank(g) <= PruneRank(f) /\ PruneRank(f) \in {0, 1}
          BY <1>2, <1>10, <4>1, FileKinds DEF PruneFile, PruneRank
        <4>3. g \in {ManifestFile, ManifestBak}
          BY <1>1, <1>10, <4>2, FileKinds DEF PruneRank, FileIds
        <4>4. disk[f] \in Manifests
          BY <1>1, <1>2, <2>1 DEF DiskOK, FileType
        <4> QED
          BY <4>3, <4>4, ReferencesAreData, FileKinds
      <3> QED
        BY <1>10, <3>1, <3>2 DEF PruneFile
    <2> QED
      BY <2>1, <2>2, <2>3
  <1>11. CASE UNCHANGED disk
    BY <1>2, <1>3, <1>11
  <1> QED
    BY <1>4, <1>5, <1>6, <1>7, <1>8, <1>9, <1>10, <1>11, PruneFileStep, DiskChanges

LEMMA MemoryRefersStep ==
    ASSUME IInv, [Next]_vars
    PROVE  MemoryRefersToDisk'
  <1>1. SUFFICES ASSUME pc' \notin {"reset", "prune"}
                 PROVE  References(manifest') \subseteq DOMAIN disk'
    BY DEF MemoryRefersToDisk
  <1>2. DOMAIN disk \subseteq DOMAIN disk'
    BY <1>1, DiskGrows DEF PruneFile
  <1>3. CASE UNCHANGED manifest /\ pc \notin {"reset", "prune"}
    BY <1>2, <1>3 DEF IInv, MemoryRefersToDisk
  <1>4. CASE manifest' = EmptyManifest
    BY <1>4, EmptyManifestFacts
  <1>5. CASE manifest' = CurrentManifest(disk)
    BY <1>2, <1>5, CurrentManifestRefers DEF IInv
  <1>6. CASE manifest' = next /\ pc \in {"apply", "committed", "prune"}
    BY <1>2, <1>6 DEF IInv, NextRefersToDisk, CommitOrAfter
  <1> QED
    BY <1>1, <1>3, <1>4, <1>5, <1>6, ManifestChanges

LEMMA NextRefersStep ==
    ASSUME IInv, [Next]_vars
    PROVE  NextRefersToDisk'
  <1> USE DEF CommitOrAfter, CommitPoints
  <1>1. /\ NextRefersToDisk
        /\ NoDanglingReference
        /\ MemoryRefersToDisk
    BY DEF IInv
  <1>2. CASE AppendWal
    <2>1. pc' = "close" /\ pc = "append"
      BY <1>2 DEF AppendWal
    <2>2. ActiveRecords(disk') # <<>>
      BY <1>2, IInvTypes, AppendStep DEF ActiveRecords
    <2>3. References(manifest) \subseteq DOMAIN disk
      BY <1>1, <2>1 DEF MemoryRefersToDisk
    <2>4. \A f \in References(next') :
              f \in DOMAIN disk' \/ f \in {FileOf(s) : s \in next'.closed}
      BY <1>2, <2>3, IInvTypes, AppendStep
    <2>5. ActiveRecords(disk)' = ActiveRecords(disk')
      BY DEF ActiveRecords
    <2> QED
      BY <2>1, <2>2, <2>4, <2>5 DEF NextRefersToDisk
  <1>3. CASE WriteContentCheckpoint \/ WriteDerivedCheckpoint
    <2>1. pc' = "close" /\ pc \in {"writeContent", "writeDerived"}
      BY <1>3 DEF WriteContentCheckpoint, WriteDerivedCheckpoint
    <2>2. References(next') \subseteq DOMAIN disk'
      BY <1>1, <1>3, <2>1, IInvTypes, CheckpointStep DEF MemoryRefersToDisk
    <2> QED
      BY <2>1, <2>2 DEF NextRefersToDisk
  <1>4. CASE CloseSegments
    <2>1. pc = "close" /\ pc' = "backup" /\ UNCHANGED next
      BY <1>4 DEF CloseSegments
    <2>2. {FileOf(s) : s \in CurrentManifest(disk).closed} \subseteq DOMAIN disk
      BY <1>1, CurrentManifestRefers DEF References
    <2>3. \A f \in References(next) : f \in DOMAIN disk'
      BY <1>1, <1>4, <2>1, <2>2, IInvTypes, CloseStep DEF NextRefersToDisk, AppendedClosed
    <2> QED
      BY <2>1, <2>3 DEF NextRefersToDisk
  <1>5. CASE WriteBackup \/ WritePrimary \/ TruncateActive
    <2>1. /\ pc \in {"backup", "primary", "truncate"} /\ pc' # "close"
          /\ UNCHANGED next
      BY <1>5 DEF WriteBackup, WritePrimary, TruncateActive, AfterCommit, frameVars
    <2>2. DOMAIN disk \subseteq DOMAIN disk'
      BY <2>1, DiskGrows DEF PruneFile
    <2> QED
      BY <1>1, <2>1, <2>2 DEF NextRefersToDisk
  <1>6. ASSUME NEW f \in prune, PruneFile(f)
        PROVE  NextRefersToDisk'
    <2>1. /\ pc \in {"reset", "prune"} /\ UNCHANGED <<pc, next>>
          /\ DOMAIN disk \ {f} \subseteq DOMAIN disk'
      BY <1>6, PruneFileStep DEF WithoutFile
    <2>2. pc = "prune" => f \notin References(next)
      BY <1>6 DEF IInv, PruneUnreferenced
    <2> QED
      BY <1>1, <2>1, <2>2 DEF NextRefersToDisk
  <1>7. CASE /\ UNCHANGED disk
             /\ pc' \in {"close", "backup", "primary", "truncate", "committed", "apply"} =>
                   UNCHANGED <<pc, next, prune>>
             /\ pc' = "prune" => pc \in {"committed", "prune"} /\ UNCHANGED <<next, prune>>
    BY <1>1, <1>7 DEF NextRefersToDisk, ActiveRecords
  <1> QED
    BY <1>2, <1>3, <1>4, <1>5, <1>6, <1>7, DiskChanges

LEMMA CommittedCopiesStep ==
    ASSUME IInv, [Next]_vars
    PROVE  CommittedCopies'
  <1>1. CommittedCopies
    BY DEF IInv
  <1>2. CASE AppendWal \/ WriteContentCheckpoint \/ WriteDerivedCheckpoint \/ CloseSegments
    BY <1>2 DEF AppendWal, WriteContentCheckpoint, WriteDerivedCheckpoint, CloseSegments,
                CommittedCopies
  <1>3. CASE WriteBackup
    BY <1>3 DEF WriteBackup, WithFile, frameVars, CommittedCopies
  <1>4. CASE WritePrimary
    <2>1. pc = "primary" /\ pc' # "primary" /\ UNCHANGED next
      BY <1>4 DEF WritePrimary, AfterCommit, frameVars
    <2>2. \A f \in {ManifestFile, ManifestBak} \cap DOMAIN disk' : disk'[f] = next
      BY <1>1, <1>4, <2>1 DEF WritePrimary, WithFile, CommittedCopies
    <2> QED
      BY <2>1, <2>2 DEF CommittedCopies
  <1>5. CASE TruncateActive
    <2>1. pc = "truncate" /\ pc' # "primary" /\ UNCHANGED next
      BY <1>5 DEF TruncateActive, AfterCommit, frameVars
    <2>2. \A f \in {ManifestFile, ManifestBak} \cap DOMAIN disk' :
              f \in DOMAIN disk /\ disk'[f] = disk[f]
      BY <1>5, FileKinds DEF TruncateActive, WithFile
    <2> QED
      BY <1>1, <2>1, <2>2 DEF CommittedCopies
  <1>6. CASE \E f \in prune : PruneFile(f)
    BY <1>1, <1>6, PruneFileStep DEF WithoutFile, CommittedCopies
  <1>7. CASE /\ UNCHANGED disk
             /\ pc' \in {"close", "backup", "primary", "truncate", "committed", "apply"} =>
                   UNCHANGED <<pc, next, prune>>
             /\ pc' = "prune" => pc \in {"committed", "prune"} /\ UNCHANGED <<next, prune>>
    BY <1>1, <1>7 DEF CommittedCopies
  <1> QED
    BY <1>2, <1>3, <1>4, <1>5, <1>6, <1>7, DiskChanges

LEMMA PruneUnreferencedStep ==
    ASSUME IInv, [Next]_vars
    PROVE  PruneUnreferenced'
  <1>1. PruneUnreferenced
    BY DEF IInv
  <1>2. pc' \in {"down", "boot", "recover", "idle", "append"} => prune' = {}
    BY <1>1, NothingToPrune DEF PruneUnreferenced
  <1>3. pc' \in CommitOrAfter => prune' \cap References(next') = {}
    <2> USE DEF CommitOrAfter, CommitPoints
    <2>1. CASE AppendWal
      BY <1>1, <2>1 DEF AppendWal, PruneUnreferenced
    <2>2. CASE WriteContentCheckpoint \/ WriteDerivedCheckpoint
      BY <2>2, IInvTypes, CheckpointStep
    <2>3. CASE CloseSegments \/ WriteBackup \/ WritePrimary \/ TruncateActive
      BY <1>1, <2>3 DEF CloseSegments, WriteBackup, WritePrimary, TruncateActive, frameVars,
                        PruneUnreferenced
    <2>4. CASE \E f \in prune : PruneFile(f)
      BY <1>1, <2>4 DEF PruneFile, PruneUnreferenced
    <2>5. CASE /\ pc' \in {"close", "backup", "primary", "truncate", "committed", "apply"} =>
                     UNCHANGED <<pc, next, prune>>
               /\ pc' = "prune" => pc \in {"committed", "prune"} /\ UNCHANGED <<next, prune>>
      BY <1>1, <2>5 DEF PruneUnreferenced
    <2> QED
      BY <2>1, <2>2, <2>3, <2>4, <2>5, DiskChanges
  <1>4. pc' = "reset" => {ManifestFile, ManifestBak} \cap DOMAIN disk' \subseteq prune'
    <2>1. CASE \/ AppendWal \/ WriteContentCheckpoint \/ WriteDerivedCheckpoint
               \/ CloseSegments \/ WriteBackup \/ WritePrimary \/ TruncateActive
      BY <2>1 DEF AppendWal, WriteContentCheckpoint, WriteDerivedCheckpoint, CloseSegments,
                  WriteBackup, WritePrimary, TruncateActive, AfterCommit
    <2>2. ASSUME NEW f \in prune, PruneFile(f), pc' = "reset"
          PROVE  {ManifestFile, ManifestBak} \cap DOMAIN disk' \subseteq prune'
      <3>1. pc = "reset" /\ prune' = prune \ {f} /\ DOMAIN disk' = DOMAIN disk \ {f}
        BY <2>2, PruneFileStep DEF WithoutFile
      <3> QED
        BY <1>1, <3>1 DEF PruneUnreferenced
    <2>3. CASE RecoverThrows
      BY <2>3 DEF RecoverThrows, CollectManifestFiles
    <2>4. CASE UNCHANGED disk /\ (pc' = "reset" => UNCHANGED <<pc, prune>>)
      BY <1>1, <2>4 DEF PruneUnreferenced
    <2> QED
      BY <2>1, <2>2, <2>3, <2>4, DiskChanges
  <1> QED
    BY <1>2, <1>3, <1>4 DEF PruneUnreferenced

-----------------------------------------------------------------------------
(* The theorems. *)

LEMMA InitTypes == Init => TypeInv
  <1> SUFFICES ASSUME Init PROVE TypeInv
    OBVIOUS
  <1> USE DEF Init
  <1>1. manifest \in Manifests /\ next \in Manifests
    BY EmptyManifestFacts
  <1>2. chain \in Seq(Tasks) /\ job \in Tasks \cup {NoJob} /\ pc \in Points
    BY DEF Points
  <1>3. status \in [Requests -> {"new", "queued", "acked", "rejected", "lost"}]
    OBVIOUS
  <1>4. TypeOK
    BY <1>1, <1>2, <1>3 DEF TypeOK
  <1>5. JobHere
    BY DEF JobHere, CommitPoints, ReloadPoints
  <1> QED
    BY <1>4, <1>5 DEF TypeInv

LEMMA InitIInv ==
    ASSUME ResetRemoves
    PROVE  Init => IInv
  <1> SUFFICES ASSUME Init PROVE IInv
    OBVIOUS
  <1>1. DOMAIN disk = {}
    BY DEF Init
  <1>2. NoDanglingReference /\ CommittedCopies /\ PruneUnreferenced
    BY <1>1 DEF Init, NoDanglingReference, CommittedCopies, PruneUnreferenced, CommitOrAfter,
                CommitPoints
  <1>3. MemoryRefersToDisk /\ NextRefersToDisk
    BY EmptyManifestFacts DEF Init, MemoryRefersToDisk, NextRefersToDisk, CommitOrAfter,
                              CommitPoints
  <1> QED
    BY <1>2, <1>3, InitTypes DEF IInv

LEMMA StepIInv == IInv /\ [Next]_vars => IInv'
  BY IInvTypes, TypeStep, NoDanglingStep, MemoryRefersStep, NextRefersStep, CommittedCopiesStep,
     PruneUnreferencedStep DEF IInv

LEMMA Invariance ==
    ASSUME ResetRemoves
    PROVE  Spec => []IInv
  BY InitIInv, StepIInv, PTL DEF Spec

\* Every file, manifest, queue entry and program point of the service keeps its
\* type, whatever is asked, crashes or rejects.
THEOREM TypeCorrect == Spec => []TypeOK
  <1>1. TypeInv => TypeOK
    BY DEF TypeInv
  <1>2. TypeInv /\ [Next]_vars => TypeInv'
    BY TypeStep
  <1> QED
    BY <1>1, <1>2, InitTypes, PTL DEF Spec

\* commitPhoenixManifest and prunePhoenixFiles never leave a manifest copy that
\* names a missing checkpoint or segment, with crashes anywhere and rejections of
\* every await, a checkpoint's pruning included, as long as a reset removes the
\* files it is told to.
THEOREM ManifestsNeverDangle ==
    ASSUME ResetRemoves
    PROVE  Spec => []NoDanglingReference
  <1>1. IInv => NoDanglingReference
    BY DEF IInv
  <1> QED
    BY <1>1, Invariance, PTL

\* As long as a reset removes the files it is told to, every file that the boot
\* has to read is there when it comes to recover the runtime: what makes
\* initializeInternal reset the store is then an await that rejects.
THEOREM BootFindsItsFiles ==
    ASSUME ResetRemoves
    PROVE  Spec => [](pc = "recover" => Recoverable(disk, manifest))
  <1>1. IInv => (pc = "recover" => Recoverable(disk, manifest))
    BY DEF IInv, MemoryRefersToDisk, Recoverable
  <1> QED
    BY <1>1, Invariance, PTL

\* flushDerivedCheckpoint never awaits ensureDerivedLoaded inside the task chain.
THEOREM FlushNeverWaits == Spec => []FlushNeverAwaitsItself
  <1>1. Init => FlushNeverAwaitsItself
    BY DEF Init, FlushNeverAwaitsItself
  <1>2. FlushNeverAwaitsItself /\ [Next]_vars => FlushNeverAwaitsItself'
    BY FlushStep
  <1> QED
    BY <1>1, <1>2, PTL DEF Spec

=============================================================================
