--------------------------- MODULE PhoenixStoreLog ---------------------------
(***************************************************************************)
(* What the store's callers may rely on: a runtime that answers holds what *)
(* a restart would rebuild, an acknowledged mutation is in it for good,    *)
(* and the store implements the durable log of ContentLog.  All three come *)
(* from one fact, which is the invariant of the first parts: no two        *)
(* records known to the files in force, to the commit on its way or to the *)
(* runtime have one number, so two contents with the same numbers are the  *)
(* same.  An import breaks it, since it starts numbers again; the last     *)
(* part proves with imports that a runtime holds what a restart would      *)
(* rebuild, from an invariant of the log alone.                            *)
(***************************************************************************)
EXTENDS PhoenixStoreContent, FiniteSetTheorems

-----------------------------------------------------------------------------
(* One version of every record.                                             *)

OneRecord(S) == \A r1, r2 \in S : r1.seq = r2.seq => r1 = r2

\* What a restart would read: the checkpoint and the log of the manifest in
\* force.  What the next commit would make it read instead, and what the runtime
\* serves.
Logged(m) == RecordsOf(disk, LogFiles(m))
Stored == CheckpointContent(disk, DiskManifest) \cup Logged(DiskManifest)
Offered == IF Uncommitted THEN CheckpointContent(disk, next) ELSE {}
Served == IF rtUp /\ pc \notin Unserving THEN rtContent ELSE {}
Known == Stored \cup Offered \cup Served

\* A mutation's record is in the log and the runtime has not taken it.
Pending == flush = "none" /\ pc \in {"close", "backup", "primary", "truncate", "apply"}

\* Nobody knows two records for one number.
OneVersion == OneRecord(Known)

\* The record of a pending mutation is the last one; otherwise the log holds no
\* number that the manifest in force has not handed out.
BatchIsLast ==
    IF Pending
    THEN \A r \in Known : r.seq < manifest.nextSeq \/ r = Batch
    ELSE \A r \in Logged(DiskManifest) : r.seq < DiskManifest.nextSeq

\* The segments of the manifest being committed hold records of the one in force.
SameLog == pc \in {"backup", "primary"} => Logged(next) \subseteq Logged(DiskManifest)

BatchLogged == (flush = "none" /\ pc = "close") => Batch \in RecordsOf(disk, {ActiveLog})

LogInv ==
    /\ DurableInv
    /\ OneVersion
    /\ BatchIsLast
    /\ SameLog
    /\ BatchLogged

-----------------------------------------------------------------------------
(* Contents made of known records. *)

\* Two contents with one record for each number, of records that nobody knows in
\* two versions, are the same.
LEMMA SameContent ==
    ASSUME NEW S, OneRecord(S), NEW A, A \subseteq S, NEW B, B \subseteq S,
           NEW n, OneRecordEach(A, n), OneRecordEach(B, n)
    PROVE  A = B
  <1>1. \A r \in A : \E s \in B : s.seq = r.seq
    <2>1. SUFFICES ASSUME NEW r \in A
                   PROVE  \E s \in B : s.seq = r.seq
      OBVIOUS
    <2>2. r.seq \in {s.seq : s \in B}
      BY DEF OneRecordEach
    <2> QED
      BY <2>2
  <1>2. \A s \in B : \E r \in A : r.seq = s.seq
    <2>1. SUFFICES ASSUME NEW s \in B
                   PROVE  \E r \in A : r.seq = s.seq
      OBVIOUS
    <2>2. s.seq \in {r.seq : r \in A}
      BY DEF OneRecordEach
    <2> QED
      BY <2>2
  <1> QED
    BY <1>1, <1>2 DEF OneRecord

\* A recovery makes nothing up.
LEMMA RecoveredIsStored ==
    ASSUME NEW d, NEW m
    PROVE  Recovered(d, m) \subseteq CheckpointContent(d, m) \cup RecordsOf(d, LogFiles(m))
  <1>1. ReplayedPositions(d, m) \subseteq LogPositions(d, m)
    BY DEF ReplayedPositions
  <1>2. {RecordAt(d, p) : p \in ReplayedPositions(d, m)} \subseteq RecordsOf(d, LogFiles(m))
    BY <1>1, RecordsAtPositions
  <1> QED
    BY <1>2 DEF Recovered

\* What a restart rebuilds, with or without a manifest to start from.
LEMMA DurableIsRecovered ==
    ASSUME IInv, ContentInv
    PROVE  /\ OneRecordEach(DurableContent, DiskManifest.nextSeq)
           /\ DurableContent \subseteq Stored
           /\ DiskManifest.nextSeq \in Nat \ {0}
  <1>1. OneRecordEach(Recovered(disk, DiskManifest), DiskManifest.nextSeq)
    BY RecoveredOnce
  <1>2. ~ HasManifest(disk) => OneRecordEach({}, DiskManifest.nextSeq)
    BY EmptyFields DEF HasManifest, DiskManifest, CurrentManifest, OneRecordEach
  <1>3. Recovered(disk, DiskManifest) \subseteq Stored
    BY RecoveredIsStored DEF Stored, Logged
  <1>4. DiskManifest.nextSeq \in Nat \ {0}
    BY ManifestsAtHand DEF Manifests
  <1> QED
    BY <1>1, <1>2, <1>3, <1>4, DiskRecoverable DEF DurableContent

\* While a commit of a mutation ends, its record is in what a restart rebuilds.
LEMMA BatchIsStored ==
    ASSUME IInv, ContentInv, BatchIsLast, Pending, DiskManifest.nextSeq = manifest.nextSeq + 1
    PROVE  Batch \in DurableContent
  <1>1. /\ OneRecordEach(DurableContent, DiskManifest.nextSeq)
        /\ DurableContent \subseteq Stored
    BY DurableIsRecovered
  <1>2. manifest.nextSeq \in Nat \ {0}
    BY ManifestsAtHand DEF Manifests
  <1>3. manifest.nextSeq \in 1 .. DiskManifest.nextSeq - 1
    BY <1>2
  <1>4. PICK r \in DurableContent : r.seq = manifest.nextSeq
    BY <1>1, <1>3 DEF OneRecordEach
  <1>5. r \in Known
    BY <1>1 DEF Known
  <1>6. ~ (r.seq < manifest.nextSeq)
    BY <1>2, <1>4
  <1> QED
    BY <1>5, <1>6 DEF BatchIsLast

-----------------------------------------------------------------------------
(* The steps that write files make no record known but the appended one.    *)

\* The service's memory and its runtime take no part in a write.
LEMMA WritesFrame ==
    ASSUME NoReset, WritesFiles
    PROVE  /\ UNCHANGED <<manifest, job, flush, rtUp, rtContent, status>>
           /\ Batch' = Batch
           /\ Served' = Served
  <1>1. UNCHANGED <<manifest, job, flush, rtUp, rtContent, status>>
    BY Zenon DEF WritesFiles, AppendWal, WriteContentCheckpoint, WriteDerivedCheckpoint,
       CloseSegments, WriteBackup, WritePrimary, TruncateActive, PruneFile,
       runtimeVars, serviceVars, clientVars, frameVars
  <1>2. /\ pc \in {"append", "writeContent", "writeDerived", "close", "backup", "primary",
                   "truncate", "prune"}
        /\ pc' \in {"close", "backup", "primary", "truncate", "apply", "committed", "prune"}
    BY Zenon DEF NoReset, WritesFiles, AppendWal, WriteContentCheckpoint, WriteDerivedCheckpoint,
       CloseSegments, WriteBackup, WritePrimary, TruncateActive, PruneFile, AfterCommit
  <1>3. pc \notin Unserving /\ pc' \notin Unserving
    BY <1>2 DEF Unserving, ReloadPoints
  <1> QED
    BY <1>1, <1>3 DEF Served, Batch

\* A mutation's commit goes on, and a flush or an idle store stays as it is,
\* without a new record or number.
LEMMA LastStays ==
    ASSUME BatchIsLast, Known' \subseteq Known, UNCHANGED manifest, Batch' = Batch,
           Pending, Pending'
    PROVE  BatchIsLast'
  BY DEF BatchIsLast

LEMMA CountStays ==
    ASSUME BatchIsLast, ~ Pending, ~ Pending',
           Logged(DiskManifest)' \subseteq Logged(DiskManifest),
           DiskManifest'.nextSeq = DiskManifest.nextSeq
    PROVE  BatchIsLast'
  BY DEF BatchIsLast

\* The numbers of what is known before an append.
LEMMA BatchIsNew ==
    ASSUME DurableInv, BatchIsLast, pc = "append"
    PROVE  \A r \in Known : r.seq < manifest.nextSeq
  <1>1. Agree(disk, manifest, DiskManifest) /\ Founded(disk, DiskManifest)
    BY DEF DurableInv, ContentInv, MemoryAgrees, SoundDisk
  <1>2. /\ manifest.nextSeq \in Nat /\ DiskManifest.lastCheckpointSeq \in Nat
        /\ manifest.nextSeq = DiskManifest.nextSeq
        /\ DiskManifest.lastCheckpointSeq < manifest.nextSeq
    BY <1>1, ManifestsAtHand DEF DurableInv, Manifests, Agree, Founded
  <1>3. ASSUME NEW r \in CheckpointContent(disk, DiskManifest)
        PROVE  r.seq < manifest.nextSeq
    <2>1. r.seq \in 1 .. (DiskManifest.lastCheckpointSeq + 1) - 1
      BY <1>1, <1>3 DEF Founded, OneRecordEach
    <2> QED
      BY <1>2, <2>1
  <1>4. \A r \in Logged(DiskManifest) : r.seq < manifest.nextSeq
    BY <1>2 DEF BatchIsLast, Pending
  <1>5. ASSUME NEW r \in Served
        PROVE  r.seq < manifest.nextSeq
    <2>1. r \in rtContent /\ OneRecordEach(rtContent, manifest.nextSeq)
      BY <1>5 DEF Served, DurableInv, ContentInv, ServesOnce
    <2>2. r.seq \in 1 .. manifest.nextSeq - 1
      BY <2>1 DEF OneRecordEach
    <2> QED
      BY <1>2, <2>2
  <1>6. Offered = {}
    BY DEF Offered, Uncommitted
  <1> QED
    BY <1>3, <1>4, <1>5, <1>6 DEF Known, Stored

LEMMA AppendLog ==
    ASSUME LogInv, AppendWal
    PROVE  /\ Known' \subseteq Known \cup {Batch}
           /\ OneRecord(Known \cup {Batch})
           /\ BatchIsLast' /\ SameLog' /\ BatchLogged'
  <1>1. pc = "append" /\ pc' = "close" /\ flush = "none"
    BY DEF AppendWal, LogInv, DurableInv, FlushRuns, FlushSteps, CommitOrAfter, CommitPoints
  <1>2. /\ UNCHANGED <<manifest, flush>> /\ Batch' = Batch /\ Served' = Served
    BY WritesFrame DEF WritesFiles, LogInv, DurableInv, ContentInv
  <1>3. Agree(disk, manifest, DiskManifest)
    BY <1>1 DEF LogInv, DurableInv, ContentInv, MemoryAgrees
  <1>4. /\ DiskManifest' = DiskManifest
        /\ CheckpointContent(disk', DiskManifest) = CheckpointContent(disk, DiskManifest)
        /\ CheckpointContent(disk', next') = CheckpointContent(disk, DiskManifest)
        /\ \A F : ActiveLog \in F => RecordsOf(disk', F) = RecordsOf(disk, F) \cup {Batch}
    BY <1>3, AppendWrites DEF LogInv, DurableInv, Agree
  <1>5. ActiveLog \in LogFiles(DiskManifest)
    BY DEF LogFiles
  <1>6. Stored' = Stored \cup {Batch}
    BY <1>4, <1>5 DEF Stored, Logged
  <1>7. Offered' \subseteq Stored
    BY <1>4 DEF Offered, Stored
  <1>8. Known' \subseteq Known \cup {Batch}
    BY <1>2, <1>6, <1>7 DEF Known
  <1>9. \A r \in Known : r.seq < manifest.nextSeq
    BY <1>1, BatchIsNew DEF LogInv
  <1>10. Batch.seq = manifest.nextSeq /\ manifest.nextSeq \in Nat
    BY ManifestsAtHand DEF Batch, LogInv, DurableInv, Manifests
  <1>11. OneRecord(Known \cup {Batch})
    <2>1. \A r \in Known : r.seq # Batch.seq
      BY <1>9, <1>10
    <2> QED
      BY <2>1 DEF LogInv, OneVersion, OneRecord
  <1>12. Pending'
    BY <1>1, <1>2 DEF Pending
  <1>13. BatchIsLast'
    BY <1>2, <1>8, <1>9, <1>12 DEF BatchIsLast
  <1>14. SameLog' /\ BatchLogged'
    BY <1>1, <1>2, <1>4 DEF SameLog, BatchLogged
  <1> QED
    BY <1>8, <1>11, <1>13, <1>14

LEMMA CheckpointLog ==
    ASSUME LogInv, WriteContentCheckpoint \/ WriteDerivedCheckpoint
    PROVE  Known' \subseteq Known /\ BatchIsLast' /\ SameLog' /\ BatchLogged'
  <1>1. pc \in {"writeContent", "writeDerived"} /\ pc' = "close" /\ flush # "none"
    BY DEF WriteContentCheckpoint, WriteDerivedCheckpoint, LogInv, DurableInv, FlushRuns
  <1>2. /\ UNCHANGED <<manifest, flush>> /\ Batch' = Batch /\ Served' = Served
    BY WritesFrame DEF WritesFiles, LogInv, DurableInv, ContentInv
  <1>3. Agree(disk, manifest, DiskManifest)
    BY <1>1 DEF LogInv, DurableInv, ContentInv, MemoryAgrees
  <1>4. /\ DiskManifest' = DiskManifest
        /\ CheckpointContent(disk', DiskManifest) = CheckpointContent(disk, DiskManifest)
        /\ RecordsOf(disk', LogFiles(DiskManifest)) = RecordsOf(disk, LogFiles(DiskManifest))
        /\ CheckpointContent(disk', next') \in
               {CheckpointContent(disk, DiskManifest), Served}
    <2>1. CASE WriteContentCheckpoint
      <3>1. rtUp /\ pc \notin Unserving
        BY <2>1, Zenon DEF WriteContentCheckpoint, Unserving, ReloadPoints
      <3>2. Served = rtContent
        BY <3>1 DEF Served
      <3> QED
        BY <2>1, <3>2, ContentCheckpointWrites DEF LogInv, DurableInv
    <2>2. CASE WriteDerivedCheckpoint
      BY <1>3, <2>2, DerivedCheckpointWrites DEF LogInv, DurableInv, Agree
    <2> QED
      BY <2>1, <2>2
  <1>5. Stored' = Stored
    BY <1>4 DEF Stored, Logged
  <1>6. Offered' \subseteq Known
    BY <1>4 DEF Offered, Stored, Known
  <1>7. Known' \subseteq Known
    BY <1>2, <1>5, <1>6 DEF Known
  <1>8. BatchIsLast'
    BY <1>1, <1>2, <1>4, CountStays DEF Pending, LogInv, Logged
  <1> QED
    BY <1>1, <1>2, <1>7, <1>8 DEF SameLog, BatchLogged

LEMMA CloseLog ==
    ASSUME LogInv, CloseSegments
    PROVE  Known' \subseteq Known /\ BatchIsLast' /\ SameLog' /\ BatchLogged'
  <1>1. pc = "close" /\ pc' = "backup" /\ UNCHANGED next
    BY DEF CloseSegments
  <1>2. /\ UNCHANGED <<manifest, flush>> /\ Batch' = Batch /\ Served' = Served
    BY WritesFrame DEF WritesFiles, LogInv, DurableInv, ContentInv
  <1>3. Agree(disk, manifest, DiskManifest)
    BY <1>1 DEF LogInv, DurableInv, ContentInv, MemoryAgrees
  <1>4. /\ DiskManifest' = DiskManifest
        /\ \A m \in {DiskManifest, next} : CheckpointContent(disk', m) = CheckpointContent(disk, m)
        /\ RecordsOf(disk', LogFiles(DiskManifest)) = RecordsOf(disk, LogFiles(DiskManifest))
    BY CloseWrites DEF LogInv, DurableInv
  <1>5. Known' = Known
    <2>1. Stored' = Stored
      BY <1>4 DEF Stored, Logged
    <2>2. Offered' = Offered
      BY <1>1, <1>4 DEF Offered, Uncommitted
    <2> QED
      BY <1>2, <2>1, <2>2 DEF Known
  <1>6. BatchIsLast'
    <2>1. CASE flush = "none"
      BY <1>1, <1>2, <1>5, <2>1, LastStays DEF Pending, LogInv
    <2>2. CASE flush # "none"
      BY <1>2, <1>4, <2>2, CountStays DEF Pending, LogInv, Logged
    <2> QED
      BY <2>1, <2>2
  <1>7. ASSUME NEW f \in LogFiles(next) \cap DOMAIN disk', NEW k \in DOMAIN disk'[f]
        PROVE  disk'[f][k] \in Logged(DiskManifest)
    <2>1. CASE f \in LogFiles(DiskManifest)
      <3>1. f \in DOMAIN disk /\ disk'[f] = disk[f]
        BY <1>7, <2>1, CloseWrites DEF LogInv, DurableInv
      <3> QED
        BY <1>7, <2>1, <3>1 DEF Logged, RecordsOf
    <2>2. CASE f \notin LogFiles(DiskManifest)
      <3>1. f \in AppendedClosed(disk, next)
        BY <2>2, CloseWrites DEF LogInv, DurableInv
      <3>2. flush = "none"
        <4>1. SUFFICES ASSUME flush # "none"
                       PROVE  FALSE
          OBVIOUS
        <4>2. next.closed \subseteq DiskManifest.closed
          BY <1>1, <1>3, <4>1
             DEF LogInv, DurableInv, ContentInv, CommitShape, Uncommitted, Agree
        <4>3. AppendedClosed(disk, next) = {}
          BY <4>2 DEF AppendedClosed, DiskManifest
        <4> QED
          BY <3>1, <4>3
      <3>3. Batch \in RecordsOf(disk, {ActiveLog})
        BY <1>1, <3>2 DEF LogInv, BatchLogged
      <3>4. ActiveLog \in DOMAIN disk /\ DOMAIN disk[ActiveLog] # {}
        BY <3>3 DEF RecordsOf
      <3>5. ActiveRecords(disk) = disk[ActiveLog] /\ ActiveRecords(disk) # <<>>
        BY <3>4 DEF ActiveRecords
      <3>6. disk'[f] = disk[ActiveLog]
        BY <3>1, <3>5, CloseWrites DEF LogInv, DurableInv
      <3>7. ActiveLog \in LogFiles(DiskManifest)
        BY DEF LogFiles
      <3> QED
        BY <1>7, <3>4, <3>6, <3>7 DEF Logged, RecordsOf
    <2> QED
      BY <2>1, <2>2
  <1>8. SameLog'
    <2>1. RecordsOf(disk', LogFiles(next)) \subseteq Logged(DiskManifest)
      BY <1>7 DEF RecordsOf
    <2> QED
      BY <1>1, <1>4, <2>1 DEF SameLog, Logged
  <1> QED
    BY <1>1, <1>5, <1>6, <1>8 DEF BatchLogged

\* The first copy of a commit's manifest moves nothing but which of two
\* checkpoints is read; so does the second.
LEMMA BackupLog ==
    ASSUME LogInv, WriteBackup
    PROVE  Known' \subseteq Known /\ BatchIsLast' /\ SameLog' /\ BatchLogged'
  <1>1. pc = "backup" /\ pc' = "primary" /\ UNCHANGED next
    BY DEF WriteBackup, frameVars
  <1>2. /\ UNCHANGED <<manifest, flush>> /\ Batch' = Batch /\ Served' = Served
    BY WritesFrame DEF WritesFiles, LogInv, DurableInv, ContentInv
  <1>3. Agree(disk, manifest, DiskManifest) /\ Logged(next) \subseteq Logged(DiskManifest)
    BY <1>1 DEF LogInv, DurableInv, ContentInv, MemoryAgrees, SameLog
  <1>4. /\ DiskManifest' \in {DiskManifest, next}
        /\ \A m \in {DiskManifest, next} :
              /\ CheckpointContent(disk', m) = CheckpointContent(disk, m)
              /\ RecordsOf(disk', LogFiles(m)) = RecordsOf(disk, LogFiles(m))
    BY BackupWrites DEF LogInv, DurableInv
  <1>5. Offered' = Offered /\ Offered = CheckpointContent(disk, next)
    BY <1>1, <1>4 DEF Offered, Uncommitted
  <1>6. Logged(DiskManifest)' \subseteq Logged(DiskManifest)
    BY <1>3, <1>4 DEF Logged
  <1>7. Known' \subseteq Known
    BY <1>2, <1>4, <1>5, <1>6 DEF Known, Stored
  <1>8. BatchIsLast'
    <2>1. CASE flush = "none"
      BY <1>1, <1>2, <1>7, <2>1, LastStays DEF Pending, LogInv
    <2>2. CASE flush # "none"
      <3>1. next.nextSeq = DiskManifest.nextSeq
        BY <1>1, <1>3, <2>2 DEF LogInv, DurableInv, ContentInv, CommitShape, Uncommitted, Agree
      <3> QED
        BY <1>2, <1>4, <1>6, <2>2, <3>1, CountStays DEF Pending, LogInv
    <2> QED
      BY <2>1, <2>2
  <1>9. SameLog'
    BY <1>1, <1>3, <1>4, BackupWrites DEF SameLog, Logged, LogInv, DurableInv
  <1> QED
    BY <1>1, <1>7, <1>8, <1>9 DEF BatchLogged

LEMMA PrimaryLog ==
    ASSUME LogInv, WritePrimary
    PROVE  Known' \subseteq Known /\ BatchIsLast' /\ SameLog' /\ BatchLogged'
  <1>1. /\ pc = "primary" /\ pc' \in {"truncate", AfterCommit} /\ UNCHANGED next
    BY DEF WritePrimary, frameVars
  <1>2. /\ UNCHANGED <<manifest, flush>> /\ Batch' = Batch /\ Served' = Served
    BY WritesFrame DEF WritesFiles, LogInv, DurableInv, ContentInv
  <1>3. Logged(next) \subseteq Logged(DiskManifest)
    BY <1>1 DEF LogInv, SameLog
  <1>4. /\ DiskManifest' = next
        /\ CheckpointContent(disk', next) = CheckpointContent(disk, next)
        /\ RecordsOf(disk', LogFiles(next)) = RecordsOf(disk, LogFiles(next))
    BY PrimaryWrites DEF LogInv, DurableInv
  <1>5. pc' \notin {"close", "backup", "primary"}
    BY <1>1 DEF AfterCommit
  <1>6. Offered' = {} /\ Offered = CheckpointContent(disk, next)
    BY <1>1, <1>5 DEF Offered, Uncommitted
  <1>7. Logged(DiskManifest)' \subseteq Logged(DiskManifest)
    BY <1>3, <1>4 DEF Logged
  <1>8. Known' \subseteq Known
    BY <1>2, <1>4, <1>6, <1>7 DEF Known, Stored
  <1>9. BatchIsLast'
    <2>1. CASE flush = "none"
      BY <1>1, <1>2, <1>8, <2>1, LastStays DEF Pending, LogInv, AfterCommit
    <2>2. CASE flush # "none"
      <3>1. next.nextSeq = DiskManifest.nextSeq
        BY <1>1, <2>2 DEF LogInv, DurableInv, ContentInv, CommitShape, MemoryAgrees,
           Uncommitted, Agree
      <3> QED
        BY <1>2, <1>4, <1>7, <2>2, <3>1, CountStays DEF Pending, LogInv
    <2> QED
      BY <2>1, <2>2
  <1> QED
    BY <1>5, <1>8, <1>9 DEF SameLog, BatchLogged

\* A truncation and a pruning only take records away.
LEMMA RemovalLog ==
    ASSUME LogInv, TruncateActive \/ \E f \in prune : PruneFile(f)
    PROVE  Known' \subseteq Known /\ BatchIsLast' /\ SameLog' /\ BatchLogged'
  <1>1. /\ pc \in {"truncate", "prune"} /\ pc' \in {"prune", "apply", "committed"}
        /\ UNCHANGED next
        /\ pc = "truncate" => pc' = AfterCommit
        /\ pc = "prune" => pc' = "prune" /\ flush # "none"
    BY DEF TruncateActive, PruneFile, frameVars, LogInv, DurableInv, ContentInv, NoReset,
       AfterCommit, FlushRuns
  <1>2. /\ UNCHANGED <<manifest, flush>> /\ Batch' = Batch /\ Served' = Served
    BY WritesFrame DEF WritesFiles, LogInv, DurableInv, ContentInv
  <1>3. /\ DiskManifest = next /\ DiskManifest' = next
        /\ CheckpointContent(disk', next) = CheckpointContent(disk, next)
        /\ RecordsOf(disk', LogFiles(next)) \subseteq RecordsOf(disk, LogFiles(next))
    <2>1. CASE TruncateActive
      BY <2>1, TruncateWrites DEF LogInv, DurableInv
    <2>2. CASE \E f \in prune : PruneFile(f)
      BY <2>2, PruneWrites DEF LogInv, DurableInv
    <2> QED
      BY <2>1, <2>2
  <1>4. Logged(DiskManifest)' \subseteq Logged(DiskManifest)
    BY <1>3 DEF Logged
  <1>5. Offered' = {}
    BY <1>1 DEF Offered, Uncommitted
  <1>6. Known' \subseteq Known
    BY <1>2, <1>3, <1>4, <1>5 DEF Known, Stored
  <1>7. BatchIsLast'
    <2>1. CASE flush = "none"
      BY <1>1, <1>2, <1>6, <2>1, LastStays DEF Pending, LogInv, AfterCommit
    <2>2. CASE flush # "none"
      BY <1>2, <1>3, <1>4, <2>2, CountStays DEF Pending, LogInv
    <2> QED
      BY <2>1, <2>2
  <1> QED
    BY <1>1, <1>6, <1>7 DEF SameLog, BatchLogged

-----------------------------------------------------------------------------
(* Nor do the others.                                                       *)

USE DEF runtimeVars, derivedVars, timerVars, frameVars, serviceVars, clientVars, vars, NextTask,
    DequeueInto, SkipTask, Enqueue, ClearFrame, EndJob, EndLoad, Settle, AcknowledgeReload,
    CountFault, AfterCommit, LoadStateOf, ContentTimerAfter, LoadManifest, RecoverRuntime,
    RecoverThrows, ResetRuntime, PruneFile, Restart, RequestMutation, RequestImport,
    TriggerSnapshot, EnsureDerivedLoaded, ChangeDerived, MarkDerivedDirty, ContentTimerFires,
    DerivedTimerFires, PauseSnapshots, ResumeSnapshots, StartMutation, AppendWal, ApplyBatch,
    ApplyThrows, ReloadRuntime, ReloadManifest, ReloadReplay, ReloadReplayThrows, StartLoad,
    LoadDerived, LoadDerivedThrows, ClearDerived, StartContentCheckpoint,
    StartDerivedCheckpoint, StartSnapshot, WriteContentCheckpoint, ExportDerived,
    WriteDerivedCheckpoint, BeginPrune, FinishFlush, StartImport, ImportSnapshot, CloseSegments,
    WriteBackup, WritePrimary, TruncateActive, FailTask, TaskThrows, RuntimeLost, WorkerDies,
    Crash, Rejects

\* A commit of a mutation keeps its task, and nobody interrupts it before its
\* manifest is in force.
LEMMA QuietJob ==
    ASSUME FlushRuns, QuietStep
    PROVE  pc' \in CommitOrAfter \cup {"apply"} => UNCHANGED job
  <1> USE DEF FlushRuns, FlushSteps, CommitOrAfter, CommitPoints
  <1>1. CASE UNCHANGED taskVars
    BY <1>1, Zenon DEF taskVars
  <1>2. CASE Boot \/ Restart
    BY <1>2, Zenon DEF Boot
  <1>3. CASE StartMutation \/ ApplyBatch \/ ApplyThrows
    BY <1>3, Zenon
  <1>4. CASE Reload
    BY <1>4, Zenon DEF Reload
  <1>5. CASE Load
    BY <1>5, Zenon DEF Load
  <1>6. CASE StartContentCheckpoint \/ StartDerivedCheckpoint \/ StartSnapshot
    BY <1>6, Zenon
  <1>7. CASE ExportDerived \/ BeginPrune
    BY <1>7, Zenon
  <1>8. CASE FinishFlush
    BY <1>8, Zenon DEF ThenDerived
  <1>9. CASE Import
    BY <1>9, Zenon DEF Import
  <1>10. CASE RuntimeLost \/ TaskThrows \/ WorkerDies \/ Crash
    BY <1>10, Zenon DEF RejectPoints, RuntimePoints
  <1> QED
    BY <1>1, <1>2, <1>3, <1>4, <1>5, <1>6, <1>7, <1>8, <1>9, <1>10, Zenon DEF QuietStep

LEMMA QuietPending ==
    ASSUME flush = "none", pc \in {"close", "backup", "primary"},
           "uncommitted" \notin ThrowAt, "uncommitted" \notin CrashAt, QuietStep
    PROVE  flush' = "none" /\ pc' = pc
  <1> USE DEF MayThrow, Here
  <1>1. CASE UNCHANGED taskVars
    BY <1>1, Zenon DEF taskVars
  <1>2. CASE Boot \/ Restart
    BY <1>2, Zenon DEF Boot
  <1>3. CASE StartMutation \/ ApplyBatch \/ ApplyThrows
    BY <1>3, Zenon
  <1>4. CASE Reload
    BY <1>4, Zenon DEF Reload
  <1>5. CASE Load
    BY <1>5, Zenon DEF Load
  <1>6. CASE StartContentCheckpoint \/ StartDerivedCheckpoint \/ StartSnapshot
    BY <1>6, Zenon
  <1>7. CASE ExportDerived \/ BeginPrune
    BY <1>7, Zenon
  <1>8. CASE FinishFlush
    BY <1>8, Zenon DEF ThenDerived
  <1>9. CASE Import
    BY <1>9, Zenon DEF Import
  <1>10. CASE RuntimeLost \/ TaskThrows \/ WorkerDies \/ Crash
    BY <1>10, Zenon DEF RejectPoints, RuntimePoints
  <1> QED
    BY <1>1, <1>2, <1>3, <1>4, <1>5, <1>6, <1>7, <1>8, <1>9, <1>10, Zenon DEF QuietStep

\* What the runtime serves is what it served, what it recovered or, after a
\* commit, one record more.
LEMMA QuietServed ==
    ASSUME pc # "import", pc # "reset", pc = "boot" => rtContent = {},
           ThrowAt \cap {"reload", "reloadManifest", "reloadReplay"} = {},
           pc = "reloadReplay" => Recoverable(disk, manifest), QuietStep
    PROVE  (rtUp' /\ pc' \notin Unserving) =>
               \/ rtContent' = {}
               \/ rtUp /\ pc \notin Unserving /\ rtContent' = rtContent
               \/ pc \in {"recover", "reloadReplay"} /\ rtContent' = Recovered(disk, manifest)
               \/ rtUp /\ pc = "apply" /\ rtContent' = rtContent \cup {Batch}
  <1> USE DEF Unserving, ReloadPoints, MayThrow, Here
  <1>1. CASE UNCHANGED taskVars
    BY <1>1, Zenon DEF taskVars
  <1>2. CASE Boot \/ Restart
    BY <1>2, Zenon DEF Boot
  <1>3. CASE StartMutation \/ ApplyBatch \/ ApplyThrows
    BY <1>3, Zenon
  <1>4. CASE Reload
    BY <1>4, Zenon DEF Reload
  <1>5. CASE Load
    BY <1>5, Zenon DEF Load
  <1>6. CASE StartContentCheckpoint \/ StartDerivedCheckpoint \/ StartSnapshot
    BY <1>6, Zenon
  <1>7. CASE ExportDerived \/ BeginPrune
    BY <1>7, Zenon
  <1>8. CASE FinishFlush
    BY <1>8, Zenon DEF ThenDerived
  <1>9. CASE Import
    BY <1>9, Zenon DEF Import
  <1>10. CASE RuntimeLost \/ TaskThrows \/ WorkerDies \/ Crash
    BY <1>10, Zenon DEF RejectPoints, RuntimePoints
  <1> QED
    BY <1>1, <1>2, <1>3, <1>4, <1>5, <1>6, <1>7, <1>8, <1>9, <1>10, Zenon DEF QuietStep

HIDE DEF runtimeVars, derivedVars, timerVars, frameVars, serviceVars, clientVars, vars,
    NextTask, DequeueInto, SkipTask, Enqueue, ClearFrame, EndJob, EndLoad, Settle,
    AcknowledgeReload, CountFault, AfterCommit, LoadStateOf, ContentTimerAfter, LoadManifest,
    RecoverRuntime, RecoverThrows, ResetRuntime, PruneFile, Restart, RequestMutation,
    RequestImport, TriggerSnapshot, EnsureDerivedLoaded, ChangeDerived, MarkDerivedDirty,
    ContentTimerFires, DerivedTimerFires, PauseSnapshots, ResumeSnapshots, StartMutation,
    AppendWal, ApplyBatch, ApplyThrows, ReloadRuntime, ReloadManifest, ReloadReplay,
    ReloadReplayThrows, StartLoad, LoadDerived, LoadDerivedThrows, ClearDerived,
    StartContentCheckpoint, StartDerivedCheckpoint, StartSnapshot, WriteContentCheckpoint,
    ExportDerived, WriteDerivedCheckpoint, BeginPrune, FinishFlush, StartImport, ImportSnapshot,
    CloseSegments, WriteBackup, WritePrimary, TruncateActive, FailTask, TaskThrows, RuntimeLost,
    WorkerDies, Crash, Rejects

\* What the constants have to rule out beyond FaultAssumption: a crash between
\* the append of a record and the write of the manifest that counts it, after
\* which the log holds a record whose number is given out again.
LogAssumption ==
    /\ Imports = {}
    /\ ThrowAt \subseteq BenignThrows
    /\ "uncommitted" \notin CrashAt

LEMMA LoggedType ==
    ASSUME IInv
    PROVE  Logged(DiskManifest) \subseteq Records
  BY ManifestsAtHand, RecordsAtPositions, RecordAtType DEF Logged

\* A mutation that is past the write of its manifest.
LEMMA CommittedBatch ==
    ASSUME IInv, ContentInv, flush = "none",
           pc \in {"truncate", "apply"} \/ (pc = "primary" /\ ~ HasPrimary)
    PROVE  DiskManifest = next /\ DiskManifest.nextSeq = manifest.nextSeq + 1
  BY DEF ContentInv, MemoryAgrees, CommitShape, Committed, Uncommitted

LEMMA QuietLog ==
    ASSUME LogAssumption, LogInv, QuietStep
    PROVE  Known' \subseteq Known /\ BatchIsLast' /\ SameLog' /\ BatchLogged'
  <1>1. /\ UNCHANGED disk
        /\ pc' \in CommitOrAfter \cup {"apply"} =>
              /\ UNCHANGED <<manifest, next, flush, job>>
              /\ pc' = pc \/ (pc = "committed" /\ pc' = "prune")
    BY QuietCommit, QuietJob DEF LogInv, DurableInv
  <1>2. DiskManifest' = DiskManifest /\ Stored' = Stored
            /\ Logged(DiskManifest)' = Logged(DiskManifest)
    BY <1>1 DEF DiskManifest, Stored, Logged
  <1>3. Offered' \subseteq Offered
    BY <1>1 DEF Offered, Uncommitted, CommitOrAfter, CommitPoints
  <1>4. pc # "import" /\ pc # "reset"
    BY NoImport DEF LogAssumption, LogInv, DurableInv, ContentInv, NoReset
  <1>5. Served' \subseteq Known
    <2>1. SUFFICES ASSUME rtUp', pc' \notin Unserving
                   PROVE  rtContent' \subseteq Known
      BY DEF Served
    <2>2. /\ ThrowAt \cap {"reload", "reloadManifest", "reloadReplay"} = {}
          /\ pc = "boot" => rtContent = {}
          /\ pc = "reloadReplay" => Recoverable(disk, manifest)
      BY DEF LogAssumption, BenignThrows, LogInv, DurableInv, ContentInv, ServesOnce, IInv,
         MemoryRefersToDisk, Recoverable
    <2>3. \/ rtContent' = {}
          \/ rtUp /\ pc \notin Unserving /\ rtContent' = rtContent
          \/ pc \in {"recover", "reloadReplay"} /\ rtContent' = Recovered(disk, manifest)
          \/ rtUp /\ pc = "apply" /\ rtContent' = rtContent \cup {Batch}
      BY <1>4, <2>1, <2>2, QuietServed
    <2>4. CASE rtContent' = {}
      BY <2>4
    <2>5. CASE rtUp /\ pc \notin Unserving /\ rtContent' = rtContent
      BY <2>5 DEF Known, Served
    <2>6. CASE pc \in {"recover", "reloadReplay"} /\ rtContent' = Recovered(disk, manifest)
      <3>1. Agree(disk, manifest, DiskManifest)
        BY <2>6 DEF LogInv, DurableInv, ContentInv, MemoryAgrees
      <3>2. CheckpointContent(disk, manifest) \cup RecordsOf(disk, LogFiles(manifest)) = Stored
        BY <3>1 DEF Agree, Stored, Logged, LogFiles
      <3> QED
        BY <2>6, <3>2, RecoveredIsStored DEF Known
    <2>7. CASE rtUp /\ pc = "apply" /\ rtContent' = rtContent \cup {Batch}
      <3>1. flush = "none" /\ pc \notin Unserving
        BY <2>7 DEF LogInv, DurableInv, FlushRuns, FlushSteps, CommitOrAfter, CommitPoints,
           Unserving, ReloadPoints
      <3>2. Batch \in DurableContent
        BY <2>7, <3>1, CommittedBatch, BatchIsStored DEF LogInv, DurableInv, Pending
      <3>3. Batch \in Known
        BY <3>2, DurableIsRecovered DEF LogInv, DurableInv, Known
      <3> QED
        BY <2>7, <3>1, <3>3 DEF Known, Served
    <2> QED
      BY <2>3, <2>4, <2>5, <2>6, <2>7
  <1>6. Known' \subseteq Known
    BY <1>2, <1>3, <1>5 DEF Known
  <1>7. BatchIsLast'
    <2>1. CASE Pending'
      <3>1. Pending /\ UNCHANGED <<manifest, job>>
        BY <1>1, <2>1 DEF Pending, CommitOrAfter, CommitPoints
      <3> QED
        BY <1>6, <2>1, <3>1, LastStays DEF LogInv, Batch
    <2>2. CASE ~ Pending' /\ ~ Pending
      BY <1>2, <2>2, CountStays DEF LogInv
    <2>3. CASE ~ Pending' /\ Pending
      <3>1. flush = "none" /\ pc \in {"truncate", "apply"}
        <4>1. "uncommitted" \notin ThrowAt /\ "uncommitted" \notin CrashAt
          BY DEF LogAssumption, BenignThrows
        <4> QED
          BY <2>3, <4>1, QuietPending DEF Pending
      <3>2. DiskManifest.nextSeq = manifest.nextSeq + 1
        BY <3>1, CommittedBatch DEF LogInv, DurableInv
      <3>3. manifest.nextSeq \in Nat /\ Batch.seq = manifest.nextSeq
        BY ManifestsAtHand DEF LogInv, DurableInv, Manifests, Batch
      <3>4. ASSUME NEW r \in Logged(DiskManifest)
            PROVE  r.seq < DiskManifest.nextSeq
        <4>1. r.seq \in Nat
          BY <3>4, LoggedType DEF LogInv, DurableInv, Records
        <4>2. r.seq < manifest.nextSeq \/ r = Batch
          BY <2>3, <3>4 DEF LogInv, BatchIsLast, Known, Stored
        <4> QED
          BY <3>2, <3>3, <4>1, <4>2
      <3> QED
        BY <1>2, <2>3, <3>4 DEF BatchIsLast
    <2> QED
      BY <2>1, <2>2, <2>3
  <1>8. SameLog'
    BY <1>1 DEF SameLog, Logged, LogInv, DiskManifest, CommitOrAfter, CommitPoints
  <1>9. BatchLogged'
    BY <1>1 DEF BatchLogged, LogInv, Batch, CommitOrAfter, CommitPoints
  <1> QED
    BY <1>6, <1>7, <1>8, <1>9

-----------------------------------------------------------------------------
(* The invariant and the first theorem.                                     *)

\* A step makes no record known but the one it appends, in one version.
LEMMA KnownGrows ==
    ASSUME LogAssumption, LogInv, [Next]_vars
    PROVE  /\ Known' \subseteq Known \cup {Batch}
           /\ OneRecord(Known \cup Known')
           /\ BatchIsLast' /\ SameLog' /\ BatchLogged'
  <1>1. OneRecord(Known)
    BY DEF LogInv, OneVersion
  <1>2. CASE AppendWal
    BY <1>2, AppendLog DEF OneRecord
  <1>3. CASE WritesFiles /\ ~ AppendWal
    <2>1. Known' \subseteq Known /\ BatchIsLast' /\ SameLog' /\ BatchLogged'
      BY <1>3, CheckpointLog, CloseLog, BackupLog, PrimaryLog, RemovalLog DEF WritesFiles
    <2> QED
      BY <1>1, <2>1 DEF OneRecord
  <1>4. CASE QuietStep
    BY <1>1, <1>4, QuietLog DEF OneRecord
  <1> QED
    BY <1>2, <1>3, <1>4, WriteOrQuiet

LEMMA InitLog ==
    ASSUME ResetRemoves
    PROVE  Init => LogInv
  <1> SUFFICES ASSUME Init
               PROVE  LogInv
    OBVIOUS
  <1>1. DurableInv
    BY InitDurable
  <1>2. disk = [f \in {} |-> EmptyManifest] /\ pc = "down"
    BY DEF Init
  <1>3. DOMAIN disk = {} /\ DiskManifest = EmptyManifest
    BY <1>2 DEF DiskManifest, CurrentManifest
  <1>4. Stored = {} /\ Logged(DiskManifest) = {}
    BY <1>3, EmptyFields DEF Stored, Logged, CheckpointContent, RecordsOf
  <1>5. Known = {}
    BY <1>2, <1>4 DEF Known, Offered, Served, Uncommitted, Unserving
  <1> QED
    BY <1>1, <1>2, <1>4, <1>5 DEF LogInv, OneVersion, OneRecord, BatchIsLast, Pending, SameLog,
       BatchLogged

LEMMA StepLog ==
    ASSUME LogAssumption, LogInv, [Next]_vars
    PROVE  LogInv'
  <1>1. FaultAssumption
    BY DEF LogAssumption, FaultAssumption
  <1>2. DurableInv'
    BY <1>1, StepDurable DEF LogInv
  <1>3. OneVersion'
    BY KnownGrows DEF OneVersion, OneRecord
  <1> QED
    BY <1>2, <1>3, KnownGrows DEF LogInv

\* Between tasks, a runtime that answers holds exactly the content that a restart
\* would rebuild from the files: the batches the service applied one by one, the
\* recovery after a failed apply and the checkpoints taken from the runtime come
\* to the same records, whatever crashed or was rejected before.
THEOREM RestartChangesNothing ==
    ASSUME LogAssumption
    PROVE  Spec => []ServedIsRecoverable
  <1>0. ResetRemoves
    BY DEF ResetRemoves, LogAssumption, BenignThrows
  <1>1. LogInv /\ [Next]_vars => LogInv'
    BY StepLog
  <1>2. LogInv => ServedIsRecoverable
    <2> SUFFICES ASSUME LogInv, pc = "idle", rtUp
                 PROVE  rtContent = DurableContent
      BY DEF ServedIsRecoverable
    <2>1. /\ OneRecordEach(DurableContent, DiskManifest.nextSeq)
          /\ DurableContent \subseteq Known
      BY DurableIsRecovered DEF LogInv, DurableInv, Known
    <2>2. pc \notin Unserving
      BY DEF Unserving, ReloadPoints
    <2>3. OneRecordEach(rtContent, manifest.nextSeq) /\ rtContent \subseteq Known
      BY <2>2 DEF LogInv, DurableInv, ContentInv, ServesOnce, Known, Served
    <2>4. manifest.nextSeq = DiskManifest.nextSeq
      BY DEF LogInv, DurableInv, ContentInv, MemoryAgrees, Agree
    <2> QED
      BY <2>1, <2>3, <2>4, SameContent DEF LogInv, OneVersion
  <1> QED
    BY <1>0, <1>1, <1>2, InitLog, PTL DEF Spec

-----------------------------------------------------------------------------
(* How the durable content evolves.                                         *)

\* The write of the manifest copy that a mutation's commit turns on.
Switches ==
    /\ flush = "none"
    /\ (WriteBackup /\ ~ HasPrimary) \/ (WritePrimary /\ HasPrimary)

\* What holds of the durable content in every state.
DurableFacts ==
    /\ OneRecordEach(DurableContent, DiskManifest.nextSeq)
    /\ DurableContent \subseteq Known
    /\ DiskManifest.nextSeq \in Nat \ {0}
    /\ (Pending /\ DiskManifest.nextSeq = manifest.nextSeq + 1) => Batch \in DurableContent

LEMMA DurableHere == LogInv => DurableFacts
  <1> SUFFICES ASSUME LogInv
               PROVE  DurableFacts
    OBVIOUS
  <1>1. IInv /\ ContentInv /\ BatchIsLast
    BY DEF LogInv, DurableInv
  <1> QED
    BY <1>1, DurableIsRecovered, BatchIsStored DEF DurableFacts, Known

LEMMA DurableNext == LogInv' => DurableFacts'
  BY DurableHere, PTL

\* Only a switch changes what numbers the manifest in force has handed out.
LEMMA NumbersStay ==
    ASSUME LogInv, [Next]_vars, ~ Switches
    PROVE  DiskManifest'.nextSeq = DiskManifest.nextSeq
  <1>1. CASE AppendWal
    BY <1>1, AppendWrites DEF LogInv, DurableInv
  <1>2. CASE WriteContentCheckpoint \/ WriteDerivedCheckpoint
    BY <1>2, ContentCheckpointWrites, DerivedCheckpointWrites DEF LogInv, DurableInv
  <1>3. CASE CloseSegments
    BY <1>3, CloseWrites DEF LogInv, DurableInv
  <1>4. CASE WriteBackup
    <2>1. CASE HasPrimary
      BY <1>4, <2>1, BackupWrites DEF LogInv, DurableInv
    <2>2. CASE ~ HasPrimary
      <3>1. pc = "backup" /\ flush # "none"
        BY <1>4, <2>2 DEF Switches, WriteBackup
      <3>2. next.nextSeq = DiskManifest.nextSeq
        BY <3>1 DEF LogInv, DurableInv, ContentInv, CommitShape, MemoryAgrees, Uncommitted, Agree
      <3> QED
        BY <1>4, <2>2, <3>2, BackupWrites DEF LogInv, DurableInv
    <2> QED
      BY <2>1, <2>2
  <1>5. CASE WritePrimary
    <2>1. DiskManifest' = next /\ pc = "primary"
      BY <1>5, PrimaryWrites DEF LogInv, DurableInv, WritePrimary
    <2>2. CASE HasPrimary
      <3>1. flush # "none"
        BY <1>5, <2>2 DEF Switches
      <3> QED
        BY <2>1, <2>2, <3>1
           DEF LogInv, DurableInv, ContentInv, CommitShape, MemoryAgrees, Uncommitted, Agree
    <2>3. CASE ~ HasPrimary
      BY <2>1, <2>3 DEF LogInv, DurableInv, ContentInv, MemoryAgrees
    <2> QED
      BY <2>2, <2>3
  <1>6. CASE TruncateActive
    BY <1>6, TruncateWrites DEF LogInv, DurableInv
  <1>7. CASE \E f \in prune : PruneFile(f)
    BY <1>7, PruneWrites DEF LogInv, DurableInv
  <1>8. CASE QuietStep
    BY <1>8, QuietCommit DEF DiskManifest, LogInv, DurableInv
  <1> QED
    BY <1>1, <1>2, <1>3, <1>4, <1>5, <1>6, <1>7, <1>8, WriteOrQuiet DEF WritesFiles

\* A switch hands out the number of its mutation.
LEMMA SwitchCounts ==
    ASSUME LogInv, Switches
    PROVE  /\ manifest.nextSeq = DiskManifest.nextSeq
           /\ DiskManifest'.nextSeq = manifest.nextSeq + 1
           /\ Pending' /\ UNCHANGED <<manifest, job, status>> /\ Batch' = Batch
           /\ pc' \in {"truncate", "apply"} \/ (pc' = "primary" /\ ~ HasPrimary')
  <1>1. /\ pc \in {"backup", "primary"} /\ flush = "none"
        /\ pc = "primary" => HasPrimary
        /\ pc' \in {"truncate", "apply"} \/ (pc' = "primary" /\ ~ HasPrimary)
    BY DEF Switches, WriteBackup, WritePrimary, AfterCommit
  <1>2. /\ Agree(disk, manifest, DiskManifest)
        /\ next.nextSeq = manifest.nextSeq + 1
    BY <1>1 DEF LogInv, DurableInv, ContentInv, MemoryAgrees, CommitShape, Uncommitted
  <1>3. UNCHANGED <<manifest, job, flush, status>> /\ Batch' = Batch
    BY WritesFrame DEF WritesFiles, Switches, LogInv, DurableInv, ContentInv
  <1>4. DiskManifest' = next
    BY BackupWrites, PrimaryWrites DEF Switches, LogInv, DurableInv
  <1>5. pc' = "primary" => ~ HasPrimary'
    BY <1>1, BackupWrites DEF Switches, LogInv, DurableInv, WritePrimary, AfterCommit
  <1> QED
    BY <1>1, <1>2, <1>3, <1>4, <1>5 DEF Pending, Agree

\* What a restart would rebuild stays as it is, or grows by the record of the
\* mutation whose manifest is written.
LEMMA DurableGrows ==
    ASSUME LogAssumption, LogInv, [Next]_vars
    PROVE  \/ DurableContent' = DurableContent
           \/ Switches /\ DurableContent' = DurableContent \cup {Batch}
  <1> DEFINE K == Known \cup Known'
  <1>1. DurableFacts /\ DurableFacts' /\ OneRecord(K)
    BY DurableHere, DurableNext, StepLog, KnownGrows
  <1>2. DurableContent \subseteq K /\ DurableContent' \subseteq K
    BY <1>1 DEF DurableFacts
  <1>3. /\ OneRecordEach(DurableContent, DiskManifest.nextSeq)
        /\ OneRecordEach(DurableContent', DiskManifest'.nextSeq)
        /\ DiskManifest.nextSeq \in Nat \ {0}
    BY <1>1 DEF DurableFacts
  <1>4. CASE ~ Switches
    <2> HIDE DEF K
    <2>1. DiskManifest'.nextSeq = DiskManifest.nextSeq
      BY <1>4, NumbersStay
    <2> QED
      BY <1>1, <1>2, <1>3, <2>1, SameContent
  <1>5. CASE Switches
    <2>1. /\ Batch.seq = DiskManifest.nextSeq
          /\ DiskManifest'.nextSeq = DiskManifest.nextSeq + 1
          /\ Batch \in DurableContent'
      BY <1>1, <1>5, SwitchCounts DEF DurableFacts, Batch
    <2> HIDE DEF K
    <2>2. OneRecordEach(DurableContent \cup {Batch}, DiskManifest'.nextSeq)
      BY <1>3, <2>1, BatchIsNext
    <2>3. DurableContent \cup {Batch} \subseteq K
      BY <1>2, <2>1
    <2>4. DurableContent' = DurableContent \cup {Batch}
      BY <1>1, <1>2, <1>3, <2>2, <2>3, SameContent
    <2> QED
      BY <1>5, <2>4
  <1> QED
    BY <1>4, <1>5

-----------------------------------------------------------------------------
(* The callers' requests on their way through the chain.                    *)

\* What a step does to the running task, the chain and the answers: nothing or
\* an end without an answer, a task without a caller, the start of a task, a
\* request, an answer, or a crash.
GoesOn == UNCHANGED <<status, chain>> /\ (UNCHANGED job \/ job' = NoJob)

Waits ==
    /\ UNCHANGED <<status, job>>
    /\ \E op \in {"checkpoint", "derived", "snapshot", "load"} : chain' = Append(chain, [op |-> op])

Starts ==
    /\ UNCHANGED status
    /\ chain # <<>> /\ chain' = Tail(chain)
    /\ UNCHANGED job \/ job' = Head(chain)

Asks(r) ==
    /\ status[r] = "new"
    /\ status' = [status EXCEPT ![r] = "queued"]
    /\ UNCHANGED job
    /\ \E op \in {"mutate", "import"} : chain' = Append(chain, [op |-> op, arg |-> r])

Answers(answer) ==
    /\ job.op = "mutate"
    /\ job' = NoJob
    /\ UNCHANGED chain
    /\ status' = [status EXCEPT ![job.arg] = answer]

USE DEF runtimeVars, derivedVars, timerVars, frameVars, serviceVars, clientVars, vars, NextTask,
    DequeueInto, SkipTask, Enqueue, ClearFrame, EndJob, EndLoad, Settle, AcknowledgeReload,
    CountFault, AfterCommit, LoadStateOf, ContentTimerAfter, LoadManifest, RecoverRuntime,
    RecoverThrows, ResetRuntime, PruneFile, Restart, RequestMutation, RequestImport,
    TriggerSnapshot, EnsureDerivedLoaded, ChangeDerived, MarkDerivedDirty, ContentTimerFires,
    DerivedTimerFires, PauseSnapshots, ResumeSnapshots, StartMutation, AppendWal, ApplyBatch,
    ApplyThrows, ReloadRuntime, ReloadManifest, ReloadReplay, ReloadReplayThrows, StartLoad,
    LoadDerived, LoadDerivedThrows, ClearDerived, StartContentCheckpoint,
    StartDerivedCheckpoint, StartSnapshot, WriteContentCheckpoint, ExportDerived,
    WriteDerivedCheckpoint, BeginPrune, FinishFlush, StartImport, ImportSnapshot, CloseSegments,
    WriteBackup, WritePrimary, TruncateActive, FailTask, TaskThrows, RuntimeLost, WorkerDies,
    Crash, Rejects

LEMMA QueueSteps ==
    ASSUME JobHere, job.op # "import", [Next]_vars
    PROVE  \/ GoesOn \/ Waits \/ Starts \/ (\E r \in Requests : Asks(r))
           \/ Answers("rejected")
           \/ Answers("acked") /\ pc \in {"apply"} \cup ReloadPoints \cup LoadPoints
           \/ Crash
  <1> USE DEF GoesOn, Waits, Starts, Asks, Answers, JobHere, ReloadPoints, LoadPoints, Requests
  <1>1. CASE Boot \/ Restart
    BY <1>1, Zenon DEF Boot
  <1>2. CASE Mutate
    BY <1>2, Zenon DEF Mutate
  <1>3. CASE Reload
    BY <1>3, Zenon DEF Reload
  <1>4. CASE Load
    BY <1>4, Zenon DEF Load
  <1>5. CASE Checkpoint
    BY <1>5, Zenon DEF Checkpoint, ThenDerived
  <1>6. CASE Import
    BY <1>6, Zenon DEF Import
  <1>7. CASE Commit
    BY <1>7, Zenon DEF Commit
  <1>8. CASE RuntimeLost \/ TaskThrows \/ WorkerDies
    BY <1>8, Zenon DEF RejectPoints, RuntimePoints
  <1>9. CASE Crash
    BY <1>9, Zenon
  <1>10. CASE Callers
    BY <1>10, Zenon DEF Callers
  <1>11. CASE UNCHANGED vars
    BY <1>11, Zenon
  <1> QED
    BY <1>1, <1>2, <1>3, <1>4, <1>5, <1>6, <1>7, <1>8, <1>9, <1>10, <1>11, Zenon DEF Next, Progress

\* A mutation whose apply failed came to the reload from its commit.
LEMMA ReloadsAfterCommit ==
    ASSUME [Next]_vars, job'.op = "mutate", pc' \in ReloadPoints \cup LoadPoints
    PROVE  UNCHANGED job /\ pc \in {"apply"} \cup ReloadPoints \cup LoadPoints
  <1> USE DEF ReloadPoints, LoadPoints
  <1>1. CASE UNCHANGED taskVars
    BY <1>1, Zenon DEF taskVars
  <1>2. CASE Boot \/ Restart
    BY <1>2, Zenon DEF Boot
  <1>3. CASE Mutate
    BY <1>3, Zenon DEF Mutate
  <1>4. CASE Reload
    BY <1>4, Zenon DEF Reload
  <1>5. CASE Load
    BY <1>5, Zenon DEF Load
  <1>6. CASE Checkpoint
    BY <1>6, Zenon DEF Checkpoint, ThenDerived
  <1>7. CASE Import
    BY <1>7, Zenon DEF Import
  <1>8. CASE Commit
    BY <1>8, Zenon DEF Commit
  <1>9. CASE RuntimeLost \/ TaskThrows \/ WorkerDies \/ Crash
    BY <1>9, Zenon DEF RejectPoints, RuntimePoints
  <1> QED
    BY <1>1, <1>2, <1>3, <1>4, <1>5, <1>6, <1>7, <1>8, <1>9, StepCases, Zenon

HIDE DEF runtimeVars, derivedVars, timerVars, frameVars, serviceVars, clientVars, vars,
    NextTask, DequeueInto, SkipTask, Enqueue, ClearFrame, EndJob, EndLoad, Settle,
    AcknowledgeReload, CountFault, AfterCommit, LoadStateOf, ContentTimerAfter, LoadManifest,
    RecoverRuntime, RecoverThrows, ResetRuntime, PruneFile, Restart, RequestMutation,
    RequestImport, TriggerSnapshot, EnsureDerivedLoaded, ChangeDerived, MarkDerivedDirty,
    ContentTimerFires, DerivedTimerFires, PauseSnapshots, ResumeSnapshots, StartMutation,
    AppendWal, ApplyBatch, ApplyThrows, ReloadRuntime, ReloadManifest, ReloadReplay,
    ReloadReplayThrows, StartLoad, LoadDerived, LoadDerivedThrows, ClearDerived,
    StartContentCheckpoint, StartDerivedCheckpoint, StartSnapshot, WriteContentCheckpoint,
    ExportDerived, WriteDerivedCheckpoint, BeginPrune, FinishFlush, StartImport, ImportSnapshot,
    CloseSegments, WriteBackup, WritePrimary, TruncateActive, FailTask, TaskThrows, RuntimeLost,
    WorkerDies, Crash, Rejects

\* The mutations that are running or in the chain: one for each caller that waits.
QueuedOnce ==
    /\ job.op = "mutate" => status[job.arg] = "queued"
    /\ \A k \in DOMAIN chain : chain[k].op = "mutate" =>
          /\ status[chain[k].arg] = "queued"
          /\ job.op = "mutate" => job.arg # chain[k].arg
          /\ \A j \in DOMAIN chain :
                (chain[j].op = "mutate" /\ chain[j].arg = chain[k].arg) => j = k

LEMMA ChainEnds ==
    ASSUME NEW T, NEW c \in Seq(T)
    PROVE  /\ \A t \in T : /\ DOMAIN Append(c, t) = DOMAIN c \cup {Len(c) + 1}
                           /\ Append(c, t)[Len(c) + 1] = t
                           /\ Len(c) + 1 \notin DOMAIN c
                           /\ \A k \in DOMAIN c : Append(c, t)[k] = c[k]
           /\ c # <<>> =>
                 /\ Head(c) = c[1] /\ 1 \in DOMAIN c
                 /\ \A k \in DOMAIN Tail(c) : /\ k + 1 \in DOMAIN c /\ k + 1 # 1
                                              /\ k \in Nat
                                              /\ Tail(c)[k] = c[k + 1]
  OBVIOUS

LEMMA QueuedOnceStep ==
    ASSUME Imports = {}, TypeInv, QueuedOnce, [Next]_vars
    PROVE  QueuedOnce'
  <1>1. /\ chain \in Seq(Tasks) /\ job \in Tasks \cup {NoJob}
        /\ status \in [Requests -> {"new", "queued", "acked", "rejected", "lost"}]
        /\ NoJob.op = "none"
    BY DEF TypeInv, TypeOK, NoJob
  <1>2. /\ job.op # "import"
        /\ \A t \in Tasks : t.op = "mutate" => t.arg \in Requests
    BY <1>1 DEF Tasks, NoJob, Requests
  <1>3. \A k \in DOMAIN chain : chain[k] \in Tasks
    BY <1>1
  <1>4. CASE GoesOn
    BY <1>1, <1>4 DEF GoesOn, QueuedOnce
  <1>5. CASE Waits
    <2>1. PICK op \in {"checkpoint", "derived", "snapshot", "load"} :
              chain' = Append(chain, [op |-> op])
      BY <1>5 DEF Waits
    <2>2. [op |-> op] \in Tasks /\ [op |-> op].op # "mutate"
      BY DEF Tasks
    <2>3. /\ DOMAIN chain' = DOMAIN chain \cup {Len(chain) + 1}
          /\ chain'[Len(chain) + 1].op # "mutate"
          /\ \A k \in DOMAIN chain : chain'[k] = chain[k]
      BY <1>1, <2>1, <2>2, ChainEnds
    <2> QED
      BY <1>5, <2>3 DEF Waits, QueuedOnce
  <1>6. CASE Starts
    <2>1. /\ chain[1] = Head(chain) /\ 1 \in DOMAIN chain
          /\ \A k \in DOMAIN chain' : /\ k + 1 \in DOMAIN chain /\ k + 1 # 1
                                      /\ k \in Nat
                                      /\ chain'[k] = chain[k + 1]
      BY <1>1, <1>6, ChainEnds DEF Starts
    <2>2. \A k, j \in Nat : k + 1 = j + 1 => k = j
      OBVIOUS
    <2>3. job' = job \/ job' = chain[1]
      BY <1>6, <2>1 DEF Starts
    <2>4. job'.op = "mutate" => status'[job'.arg] = "queued"
      BY <1>6, <2>1, <2>3 DEF Starts, QueuedOnce
    <2>5. ASSUME NEW k \in DOMAIN chain', chain'[k].op = "mutate"
          PROVE  /\ status'[chain'[k].arg] = "queued"
                 /\ job'.op = "mutate" => job'.arg # chain'[k].arg
                 /\ \A j \in DOMAIN chain' :
                       (chain'[j].op = "mutate" /\ chain'[j].arg = chain'[k].arg) => j = k
      <3>1. k + 1 \in DOMAIN chain /\ k + 1 # 1 /\ chain'[k] = chain[k + 1]
        BY <2>1
      <3>2. status'[chain'[k].arg] = "queued"
        BY <1>6, <2>5, <3>1 DEF Starts, QueuedOnce
      <3>3. job'.op = "mutate" => job'.arg # chain'[k].arg
        BY <2>1, <2>3, <2>5, <3>1 DEF QueuedOnce
      <3>4. ASSUME NEW j \in DOMAIN chain', chain'[j].op = "mutate", chain'[j].arg = chain'[k].arg
            PROVE  j = k
        <4>1. j + 1 \in DOMAIN chain /\ chain'[j] = chain[j + 1] /\ j \in Nat /\ k \in Nat
          BY <2>1
        <4>2. j + 1 = k + 1
          BY <2>5, <3>1, <3>4, <4>1 DEF QueuedOnce
        <4> QED
          BY <2>2, <4>1, <4>2
      <3> QED
        BY <3>2, <3>3, <3>4
    <2> QED
      BY <2>4, <2>5 DEF QueuedOnce
  <1>7. ASSUME NEW r \in Requests, Asks(r)
        PROVE  QueuedOnce'
    <2>1. PICK op \in {"mutate", "import"} : chain' = Append(chain, [op |-> op, arg |-> r])
      BY <1>7 DEF Asks
    <2>2. status[r] = "new" /\ status' = [status EXCEPT ![r] = "queued"] /\ job' = job
      BY <1>7 DEF Asks
    <2>3. \A k \in DOMAIN chain : chain[k].op = "mutate" => chain[k].arg # r
      BY <2>2 DEF QueuedOnce
    <2>4. job.op = "mutate" => job.arg # r
      BY <2>2 DEF QueuedOnce
    <2>5. /\ status'[r] = "queued"
          /\ \A s \in Requests : s # r => status'[s] = status[s]
      BY <1>1, <2>2
    <2>6. \A k \in DOMAIN chain : chain[k].op = "mutate" => chain[k].arg \in Requests
      BY <1>2, <1>3
    <2>7. job.op = "mutate" => job.arg \in Requests
      BY <1>1, <1>2
    <2> DEFINE t == [op |-> op, arg |-> r]
    <2>8. t.arg = r /\ t \in [op: {"mutate", "import"}, arg: Requests]
      OBVIOUS
    <2>9. /\ DOMAIN chain' = DOMAIN chain \cup {Len(chain) + 1}
          /\ chain'[Len(chain) + 1] = t
          /\ \A k \in DOMAIN chain : chain'[k] = chain[k]
      <3>1. chain \in Seq(Tasks \cup {t})
        BY <1>1
      <3> HIDE DEF t
      <3> QED
        BY <2>1, <3>1, ChainEnds DEF t
    <2> HIDE DEF t
    <2>10. job'.op = "mutate" => status'[job'.arg] = "queued"
      BY <2>2, <2>4, <2>5, <2>7 DEF QueuedOnce
    <2>11. ASSUME NEW k \in DOMAIN chain', chain'[k].op = "mutate"
           PROVE  /\ status'[chain'[k].arg] = "queued"
                  /\ job'.op = "mutate" => job'.arg # chain'[k].arg
                  /\ \A j \in DOMAIN chain' :
                        (chain'[j].op = "mutate" /\ chain'[j].arg = chain'[k].arg) => j = k
      <3>1. CASE k = Len(chain) + 1
        BY <2>2, <2>3, <2>4, <2>5, <2>8, <2>9, <2>11, <3>1
      <3>2. CASE k \in DOMAIN chain
        BY <2>2, <2>3, <2>5, <2>6, <2>8, <2>9, <2>11, <3>2 DEF QueuedOnce
      <3> QED
        BY <2>9, <2>11, <3>1, <3>2
    <2> QED
      BY <2>10, <2>11 DEF QueuedOnce
  <1>8. ASSUME NEW answer \in {"acked", "rejected"}, Answers(answer)
        PROVE  QueuedOnce'
    <2>1. /\ job.op = "mutate" /\ job'.op # "mutate" /\ chain' = chain
          /\ status' = [status EXCEPT ![job.arg] = answer]
      BY <1>1, <1>8 DEF Answers
    <2>2. \A s \in Requests : s # job.arg => status'[s] = status[s]
      BY <1>1, <2>1
    <2>3. \A k \in DOMAIN chain : chain[k].op = "mutate" => chain[k].arg \in Requests
      BY <1>2, <1>3
    <2> QED
      BY <2>1, <2>2, <2>3 DEF QueuedOnce
  <1>9. CASE Crash
    BY <1>1, <1>9 DEF Crash, QueuedOnce
  <1> QED
    BY <1>2, <1>4, <1>5, <1>6, <1>7, <1>8, <1>9, QueueSteps DEF TypeInv

-----------------------------------------------------------------------------
(* What callers are told.                                                   *)

InDurable(m) == \E rec \in DurableContent : rec.mut = m

\* The manifest that counts the running mutation is in force.
PastSwitch ==
    /\ flush = "none"
    /\ pc \in {"truncate", "apply"} \/ (pc = "primary" /\ ~ HasPrimary)

\* It can only be told that it succeeded from there on.
CommittedIsDurable ==
    (job.op = "mutate" /\ (PastSwitch \/ pc \in ReloadPoints \cup LoadPoints)) =>
        InDurable(job.arg)

AnswerInv ==
    /\ LogInv
    /\ QueuedOnce
    /\ CommittedIsDurable
    /\ AckedMutationsRecovered

LEMMA PastSwitchStep ==
    ASSUME LogInv, [Next]_vars, PastSwitch'
    PROVE  UNCHANGED job /\ (PastSwitch \/ Switches)
  <1>1. CASE AppendWal \/ WriteContentCheckpoint \/ WriteDerivedCheckpoint \/ CloseSegments
    BY <1>1 DEF AppendWal, WriteContentCheckpoint, WriteDerivedCheckpoint, CloseSegments, PastSwitch
  <1>2. CASE WriteBackup
    BY <1>2, BackupWrites, WritesFrame
       DEF WriteBackup, PastSwitch, Switches, WritesFiles, LogInv, DurableInv, ContentInv
  <1>3. CASE WritePrimary
    BY <1>3, WritesFrame
       DEF WritePrimary, PastSwitch, Switches, WritesFiles, LogInv, DurableInv, ContentInv
  <1>4. CASE TruncateActive
    BY <1>4, WritesFrame
       DEF TruncateActive, PastSwitch, WritesFiles, LogInv, DurableInv, ContentInv
  <1>5. CASE \E f \in prune : PruneFile(f)
    BY <1>5 DEF PruneFile, PastSwitch, LogInv, DurableInv, ContentInv, NoReset
  <1>6. CASE QuietStep
    <2>1. /\ UNCHANGED <<disk, flush, job>>
          /\ pc' = pc \/ (pc = "committed" /\ pc' = "prune")
      BY <1>6, QuietCommit, QuietJob
         DEF PastSwitch, CommitOrAfter, CommitPoints, LogInv, DurableInv
    <2> QED
      BY <2>1 DEF PastSwitch, HasPrimary
  <1> QED
    BY <1>1, <1>2, <1>3, <1>4, <1>5, <1>6, WriteOrQuiet DEF WritesFiles

LEMMA AnswerStep ==
    ASSUME LogAssumption, AnswerInv, [Next]_vars
    PROVE  AnswerInv'
  <1>1. LogInv /\ LogInv' /\ QueuedOnce /\ TypeInv
    BY StepLog DEF AnswerInv, LogInv, DurableInv, IInv
  <1>2. QueuedOnce'
    BY <1>1, QueuedOnceStep DEF LogAssumption
  <1>3. \A m : InDurable(m) => InDurable(m)'
    BY <1>1, DurableGrows DEF InDurable
  <1>4. CommittedIsDurable'
    <2>1. SUFFICES ASSUME job'.op = "mutate", PastSwitch' \/ pc' \in ReloadPoints \cup LoadPoints
                   PROVE  InDurable(job.arg)' /\ UNCHANGED job
      BY DEF CommittedIsDurable, InDurable
    <2>2. CASE PastSwitch'
      <3>1. UNCHANGED job /\ (PastSwitch \/ Switches)
        BY <1>1, <2>2, PastSwitchStep
      <3>2. CASE PastSwitch
        BY <1>3, <2>1, <3>1, <3>2 DEF AnswerInv, CommittedIsDurable, InDurable
      <3>3. CASE Switches
        <4>1. DurableFacts' /\ Pending' /\ DiskManifest'.nextSeq = manifest'.nextSeq + 1
          BY <1>1, <3>3, DurableNext, SwitchCounts
        <4>2. Batch' \in DurableContent' /\ Batch'.mut = job'.arg
          BY <4>1 DEF DurableFacts, Batch
        <4> QED
          BY <3>1, <4>2 DEF InDurable
      <3> QED
        BY <3>1, <3>2, <3>3
    <2>3. CASE pc' \in ReloadPoints \cup LoadPoints
      <3>1. UNCHANGED job /\ pc \in {"apply"} \cup ReloadPoints \cup LoadPoints
        BY <2>1, <2>3, ReloadsAfterCommit
      <3>2. pc = "apply" => PastSwitch
        BY <1>1 DEF PastSwitch, LogInv, DurableInv, FlushRuns, FlushSteps, CommitOrAfter,
           CommitPoints
      <3> QED
        BY <1>3, <2>1, <3>1, <3>2 DEF AnswerInv, CommittedIsDurable, InDurable
    <2> QED
      BY <2>1, <2>2, <2>3
  <1>5. AckedMutationsRecovered'
    <2>1. SUFFICES ASSUME NEW m \in Mutations, status'[m] = "acked"
                   PROVE  InDurable(m)'
      BY DEF AckedMutationsRecovered, InDurable
    <2>2. status[m] = "acked" => InDurable(m)'
      BY <1>3 DEF AnswerInv, AckedMutationsRecovered, InDurable
    <2>3. /\ status \in [Requests -> {"new", "queued", "acked", "rejected", "lost"}]
          /\ job.op # "import" /\ m \in Requests
      BY <1>1 DEF TypeInv, TypeOK, Tasks, NoJob, LogAssumption, Requests
    <2>4. CASE UNCHANGED status
      BY <2>1, <2>2, <2>4
    <2>5. CASE \E r \in Requests : Asks(r)
      BY <2>1, <2>2, <2>3, <2>5 DEF Asks
    <2>6. CASE Answers("rejected")
      BY <2>1, <2>2, <2>3, <2>6 DEF Answers
    <2>7. CASE Answers("acked") /\ pc \in {"apply"} \cup ReloadPoints \cup LoadPoints
      <3>1. pc = "apply" => PastSwitch
        BY <1>1 DEF PastSwitch, LogInv, DurableInv, FlushRuns, FlushSteps, CommitOrAfter,
           CommitPoints
      <3>2. InDurable(job.arg)
        BY <2>7, <3>1 DEF Answers, AnswerInv, CommittedIsDurable
      <3>3. m # job.arg => status'[m] = status[m]
        BY <2>3, <2>7 DEF Answers
      <3> QED
        BY <1>3, <2>1, <2>2, <3>2, <3>3 DEF InDurable
    <2>8. CASE Crash
      BY <2>1, <2>2, <2>3, <2>8 DEF Crash
    <2> QED
      BY <1>1, <2>3, <2>4, <2>5, <2>6, <2>7, <2>8, QueueSteps DEF GoesOn, Waits, Starts, TypeInv
  <1> QED
    BY <1>1, <1>2, <1>4, <1>5 DEF AnswerInv

LEMMA InitAnswer ==
    ASSUME ResetRemoves
    PROVE  Init => AnswerInv
  <1> SUFFICES ASSUME Init
               PROVE  AnswerInv
    OBVIOUS
  <1>1. LogInv
    BY InitLog
  <1>2. /\ job.op = "none" /\ chain = <<>>
        /\ status = [r \in Requests |-> "new"]
    BY DEF Init, NoJob
  <1>3. \A m \in Mutations : status[m] # "acked"
    BY <1>2 DEF Requests
  <1> QED
    BY <1>1, <1>2, <1>3 DEF AnswerInv, QueuedOnce, CommittedIsDurable, AckedMutationsRecovered

\* A mutation whose promise resolved is in the content that every later restart
\* rebuilds, also when its apply failed, when the runtime or the page went away
\* after it, and after any number of checkpoints.
THEOREM AcknowledgedIsDurable ==
    ASSUME LogAssumption
    PROVE  Spec => []AckedMutationsRecovered
  <1>0. ResetRemoves
    BY DEF ResetRemoves, LogAssumption, BenignThrows
  <1>1. AnswerInv /\ [Next]_vars => AnswerInv'
    BY AnswerStep
  <1>2. AnswerInv => AckedMutationsRecovered
    BY DEF AnswerInv
  <1> QED
    BY <1>0, <1>1, <1>2, InitAnswer, PTL DEF Spec

-----------------------------------------------------------------------------
(* The abstract log.                                                        *)

\* The numbers of a content are as many as its records.
LEMMA CountsRecords ==
    ASSUME NEW content, NEW n \in Nat \ {0}, OneRecordEach(content, n)
    PROVE  Cardinality(content) = n - 1
  <1> DEFINE f == [k \in 1 .. n - 1 |-> CHOOSE r \in content : r.seq = k]
  <1>1. \A k \in 1 .. n - 1 : f[k] \in content /\ f[k].seq = k
    <2>1. SUFFICES ASSUME NEW k \in 1 .. n - 1
                   PROVE  f[k] \in content /\ f[k].seq = k
      OBVIOUS
    <2>2. \E r \in content : r.seq = k
      BY DEF OneRecordEach
    <2> QED
      BY <2>2
  <1>2. \A r \in content : r.seq \in 1 .. n - 1 /\ f[r.seq] = r
    <2>1. SUFFICES ASSUME NEW r \in content
                   PROVE  r.seq \in 1 .. n - 1 /\ f[r.seq] = r
      OBVIOUS
    <2>2. r.seq \in 1 .. n - 1
      BY DEF OneRecordEach
    <2> HIDE DEF f
    <2> QED
      BY <1>1, <2>2 DEF OneRecordEach
  <1>3. f \in [1 .. n - 1 -> content]
    BY <1>1
  <1> HIDE DEF f
  <1>4. \A j, k \in 1 .. n - 1 : f[j] = f[k] => j = k
    BY <1>1
  <1>5. f \in Bijection(1 .. n - 1, content)
    BY <1>2, <1>3, <1>4 DEF Bijection, Injection, Surjection, IsInjective
  <1>6. IsFiniteSet(1 .. n - 1) /\ Cardinality(1 .. n - 1) = n - 1
    <2>1. 1 \in Int /\ n - 1 \in Int
      OBVIOUS
    <2>2. Cardinality(1 .. n - 1) = IF 1 > n - 1 THEN 0 ELSE (n - 1) - 1 + 1
      BY <2>1, FS_Interval
    <2> QED
      BY <2>1, <2>2, FS_Interval
  <1> QED
    BY <1>5, <1>6, FS_Bijection DEF ExistsBijection

LEMMA SameCardinality == \A S : Log!Cardinality(S) = Cardinality(S)
  BY DEF Cardinality, Log!Cardinality

\* Every step of the store is a step of the log, or leaves it as it is.
LEMMA StoreStepIsLogStep ==
    ASSUME LogAssumption, AnswerInv, [Next]_vars
    PROVE  [Log!Next]_<<DurableContent, status>>
  <1> USE DEF Log!Next, Log!Requests, Requests
  <1>1. LogInv /\ TypeInv /\ DurableFacts /\ QueuedOnce
    BY DurableHere DEF AnswerInv, LogInv, DurableInv, IInv
  <1>2. job \in Tasks \cup {NoJob} /\ Imports = {}
    BY <1>1 DEF TypeInv, TypeOK, LogAssumption
  <1>3. job.op # "import" /\ (job.op = "mutate" => job.arg \in Mutations)
    BY <1>2 DEF Tasks, NoJob
  <1>4. CASE Switches
    <2>1. /\ UNCHANGED status
          /\ manifest.nextSeq = DiskManifest.nextSeq
          /\ flush = "none" /\ pc \in CommitPoints
      BY <1>1, <1>4, SwitchCounts DEF Switches, WriteBackup, WritePrimary, CommitPoints
    <2>2. job.op = "mutate"
      BY <1>1, <2>1 DEF TypeInv, JobHere
    <2>3. status[job.arg] = "queued" /\ job.arg \in Mutations
      BY <1>1, <1>3, <2>2 DEF QueuedOnce
    <2>4. CASE DurableContent' = DurableContent
      BY <2>1, <2>4
    <2>5. CASE DurableContent' = DurableContent \cup {Batch}
      <3> DEFINE n == DiskManifest.nextSeq
      <3>1. n \in Nat \ {0} /\ OneRecordEach(DurableContent, n)
        BY <1>1 DEF DurableFacts
      <3> HIDE DEF n
      <3>2. Log!Cardinality(DurableContent) = n - 1
        BY <3>1, CountsRecords, SameCardinality
      <3>3. n \in 1 .. Log!Cardinality(DurableContent) + 1
        BY <3>1, <3>2
      <3>4. \A rec \in DurableContent : rec.seq < n
        <4>1. \A rec \in DurableContent : rec.seq \in 1 .. n - 1
          BY <3>1 DEF OneRecordEach
        <4> QED
          BY <3>1, <4>1
      <3>5. Batch = [seq |-> n, mut |-> job.arg]
        BY <2>1 DEF Batch, n
      <3>6. Log!Commit(job.arg)
        BY <2>1, <2>3, <2>5, <3>3, <3>4, <3>5, Zenon DEF Log!Commit
      <3> QED
        BY <2>3, <3>6
    <2> QED
      BY <1>1, <2>4, <2>5, DurableGrows DEF LogAssumption
  <1>5. CASE ~ Switches
    <2>1. UNCHANGED DurableContent
      BY <1>1, <1>5, DurableGrows
    <2>2. CASE UNCHANGED status
      BY <2>1, <2>2
    <2>3. ASSUME NEW r \in Requests, Asks(r)
          PROVE  Log!Next
      BY <2>1, <2>3 DEF Asks, Log!Ask
    <2>4. ASSUME Answers("rejected")
          PROVE  Log!Next
      <3>1. job.op = "mutate" /\ job.arg \in Mutations /\ status[job.arg] = "queued"
        BY <1>1, <1>3, <2>4 DEF Answers, QueuedOnce
      <3>2. Log!Reject(job.arg)
        BY <2>1, <2>4, <3>1 DEF Answers, Log!Reject
      <3> QED
        BY <3>1, <3>2
    <2>5. ASSUME Answers("acked"), pc \in {"apply"} \cup ReloadPoints \cup LoadPoints
          PROVE  Log!Next
      <3>1. job.op = "mutate" /\ job.arg \in Mutations /\ status[job.arg] = "queued"
        BY <1>1, <1>3, <2>5 DEF Answers, QueuedOnce
      <3>2. pc = "apply" => PastSwitch
        BY <1>1 DEF PastSwitch, LogInv, DurableInv, FlushRuns, FlushSteps, CommitOrAfter,
           CommitPoints
      <3>3. Log!InLog(job.arg)
        BY <2>5, <3>1, <3>2 DEF AnswerInv, CommittedIsDurable, InDurable, Log!InLog
      <3>4. Log!Ack(job.arg)
        BY <2>1, <2>5, <3>1, <3>3 DEF Answers, Log!Ack
      <3> QED
        BY <3>1, <3>4
    <2>6. ASSUME Crash
          PROVE  Log!Next
      BY <2>1, <2>6 DEF Crash, Log!Crash
    <2> QED
      BY <1>1, <1>3, <2>2, <2>3, <2>4, <2>5, <2>6, QueueSteps DEF GoesOn, Waits, Starts, TypeInv
  <1> QED
    BY <1>4, <1>5

\* The store implements the durable log its callers rely on: what a restart
\* rebuilds only grows, by one record for one waiting caller and behind all it
\* has, and callers are answered as ContentLog says.
THEOREM StoreImplementsContentLog ==
    ASSUME LogAssumption
    PROVE  Spec => ImplementsContentLog
  <1>0. ResetRemoves
    BY DEF ResetRemoves, LogAssumption, BenignThrows
  <1>1. Init => Log!Init
    <2> SUFFICES ASSUME Init
                 PROVE  Log!Init
      OBVIOUS
    <2>1. /\ disk = [f \in {} |-> EmptyManifest]
          /\ status = [r \in Requests |-> "new"]
      BY DEF Init
    <2>2. ~ HasManifest(disk)
      BY <2>1 DEF HasManifest
    <2> QED
      BY <2>1, <2>2 DEF DurableContent, Log!Init, Log!Requests, Requests
  <1>2. AnswerInv /\ [Next]_vars => AnswerInv'
    BY AnswerStep
  <1>3. AnswerInv /\ [Next]_vars => [Log!Next]_<<DurableContent, status>>
    BY StoreStepIsLogStep
  <1> QED
    BY <1>0, <1>1, <1>2, <1>3, InitAnswer, PTL DEF Spec, ImplementsContentLog, Log!Spec

-----------------------------------------------------------------------------
(* Imports.  An import starts numbers again, over a log whose records have   *)
(* higher ones until its commit truncates it, so neither counting nor one    *)
(* version of every record carries over.  What does is the log itself: but   *)
(* while that commit ends, it holds no two records of one number and none    *)
(* that the manifest in force has not given out, and with its checkpoint it  *)
(* makes up what the runtime serves.                                         *)

\* The records in the files F have one version each, below the next number of m.
SoundRecords(d, F, m) ==
    /\ OneRecord(RecordsOf(d, F))
    /\ \A r \in RecordsOf(d, F) : r.seq < m.nextSeq

ClosedBelow(m) ==
    /\ \A s \in m.closed : s.endSeq < m.nextSeq
    /\ m.lastCheckpointSeq < m.nextSeq

\* A manifest that counts no active record has an empty active log.
Counted(d, m) == m.activeCount = 0 => ActiveRecords(d) = <<>>

SoundLog(d, m) == SoundRecords(d, LogFiles(m), m) /\ ClosedBelow(m) /\ Counted(d, m)

\* What a recovery of m would make of the files F.
Replays(d, F, m) ==
    CheckpointContent(d, m)
        \cup {r \in RecordsOf(d, F) : m.lastCheckpointSeq < r.seq /\ r.seq < m.nextSeq}

\* A mutation's record is in the log before a manifest counts it.
Appending == flush = "none" /\ Uncommitted

LogInForce == (pc = "truncate" \/ Appending) \/ SoundLog(disk, DiskManifest)

\* Before the first commit there is no log.
FreshLog == HasPrimary \/ Appending \/ ActiveRecords(disk) = <<>>

\* The runtime is one record behind the files F under the manifest being committed.
OneBehind(F) ==
    /\ SoundRecords(disk, F, next) /\ ClosedBelow(next)
    /\ Replays(disk, F, next) = rtContent \cup {Batch}

\* A full log is closed under a number that no segment has.
RollsOrCounts ==
    \/ next.closed = DiskManifest.closed /\ next.activeCount # 0
    \/ \E s \in next.closed : /\ s.endSeq = DiskManifest.nextSeq
                              /\ next.closed = DiskManifest.closed \cup {s}

MutationCommits ==
    flush = "none" =>
        /\ pc = "close" =>
              /\ OneBehind(LogFiles(DiskManifest))
              /\ ClosedBelow(DiskManifest) /\ RollsOrCounts /\ ActiveRecords(disk) # <<>>
        /\ pc \in {"backup", "primary", "truncate", "apply"} => OneBehind(LogFiles(next))
        /\ pc \in {"backup", "primary", "truncate"} =>
              IF truncating
              THEN RecordsOf(disk, {ActiveLog})
                       \subseteq RecordsOf(disk, LogFiles(next) \ {ActiveLog})
              ELSE next.activeCount # 0
        /\ pc = "truncate" => truncating

\* A content checkpoint is what the runtime holds, and all of what its manifest
\* names once the active log is empty.
ContentCommits ==
    (flush = "content" /\ pc \in CommitOrAfter) =>
        /\ next.closed = {} /\ next.activeCount = 0 /\ next.activeBytes = 0
        /\ next.lastCheckpointSeq < next.nextSeq
        /\ CheckpointContent(disk, next) = rtContent
        /\ (pc \in {"committed", "prune"} \/ (pc \in {"backup", "primary"} /\ ~ truncating))
              => ActiveRecords(disk) = <<>>

DerivedCommits ==
    (flush = "derived" /\ pc \in CommitOrAfter) =>
        /\ Agree(disk, next, DiskManifest)
        /\ rtContent = Replays(disk, LogFiles(DiskManifest), DiskManifest)
        /\ pc \in {"backup", "primary"} => ~ truncating
        /\ pc # "truncate"

CommitEnds ==
    /\ Committed => DiskManifest = next /\ HasPrimary
    /\ (flush # "none" /\ pc \in CommitOrAfter) =>
          prune \cap {ManifestFile, ManifestBak, ActiveLog} = {}

\* Between the steps of tasks the memory is the manifest in force, and the runtime
\* holds what it recovers to; but an import forgets the one before the other.
Importing == pc = "writeContent" /\ job.op = "import"
Settled ==
    \/ pc \in {"idle", "append", "import", "exportDerived", "writeDerived", "loadDerived",
               "clearDerived"}
    \/ pc = "writeContent" /\ ~ Importing

SettledAgrees ==
    Settled => /\ Agree(disk, manifest, DiskManifest)
               /\ rtContent = Replays(disk, LogFiles(DiskManifest), DiskManifest)

ImportForgets == Importing => manifest = EmptyManifest

BootReads ==
    /\ pc # "down" => rtUp
    /\ pc \in {"down", "boot", "recover"} => rtContent = {}
    /\ pc \in {"recover", "reloadReplay"} => manifest = DiskManifest
    /\ NoReset

ImportInv ==
    /\ LogInForce
    /\ FreshLog
    /\ MutationCommits
    /\ ContentCommits
    /\ DerivedCommits
    /\ CommitEnds
    /\ SettledAgrees
    /\ ImportForgets
    /\ BootReads

\* What the constants have to rule out when there are imports: rejections inside
\* a commit or of the first write after an image is in, a crash before a mutation's
\* commit or a truncation, and the loss of the Phoenix worker alone.
ImportAssumption ==
    /\ ThrowAt \subseteq {"append", "apply", "import", "loadDerived", "clearDerived",
                          "exportDerived", "writeDerived", "prune"}
    /\ CrashAt \cap {"uncommitted", "truncate", "worker"} = {}

\* A log with one version of every record is replayed to the records past the
\* checkpoint, whichever files hold them.
LEMMA RecoveredIsReplayed ==
    ASSUME NEW d, DiskOK(d), NEW m \in Manifests, OneRecord(RecordsOf(d, LogFiles(m)))
    PROVE  Recovered(d, m) = Replays(d, LogFiles(m), m)
  <1> DEFINE replayed == {RecordAt(d, p) : p \in ReplayedPositions(d, m)}
             wanted == {r \in RecordsOf(d, LogFiles(m)) :
                            m.lastCheckpointSeq < r.seq /\ r.seq < m.nextSeq}
  <1>1. RecordsOf(d, LogFiles(m)) = {RecordAt(d, p) : p \in LogPositions(d, m)}
    BY RecordsAtPositions
  <1>2. m.lastCheckpointSeq \in Nat /\ m.nextSeq \in Nat
    BY DEF Manifests
  <1>3. \A p \in LogPositions(d, m) : RecordAt(d, p).seq \in Nat
    BY RecordAtType DEF Records
  <1>4. ASSUME NEW p \in ReplayedPositions(d, m)
        PROVE  RecordAt(d, p) \in wanted
    <2>1. /\ p \in LogPositions(d, m)
          /\ RecordAt(d, p).seq > m.lastCheckpointSeq
          /\ RecordAt(d, p).seq < m.nextSeq
      BY <1>4 DEF ReplayedPositions
    <2>2. m.lastCheckpointSeq < RecordAt(d, p).seq
      BY <1>2, <1>3, <2>1
    <2> QED
      BY <1>1, <2>1, <2>2
  <1>5. ASSUME NEW r \in wanted
        PROVE  r \in replayed
    <2> DEFINE P == {p \in LogPositions(d, m) : RecordAt(d, p) = r}
    <2>1. P # {} /\ P \in SUBSET LogPositions(d, m)
      BY <1>1
    <2>2. PICK p \in P : \A q \in P : ~ ReadBefore(q, p)
      <3> HIDE DEF P
      <3> QED
        BY <2>1, FirstPosition
    <2>3. p \in LogPositions(d, m) /\ RecordAt(d, p) = r
      OBVIOUS
    <2>4. r.seq > m.lastCheckpointSeq /\ r.seq < m.nextSeq
      BY <1>2, <1>3, <2>3
    <2>5. ASSUME NEW q \in LogPositions(d, m), RecordAt(d, q).seq = r.seq
          PROVE  ~ ReadBefore(q, p)
      <3>1. RecordAt(d, q) = r
        BY <1>1, <2>5 DEF OneRecord
      <3> QED
        BY <2>2, <3>1
    <2>6. p \in ReplayedPositions(d, m)
      BY <2>3, <2>4, <2>5 DEF ReplayedPositions
    <2> QED
      BY <2>3, <2>6
  <1>6. replayed = wanted
    BY <1>4, <1>5
  <1> QED
    BY <1>6 DEF Recovered, Replays

\* Files that read the same hold the same records.
LEMMA SameFiles ==
    ASSUME NEW d, NEW e, NEW F,
           \A f \in F : /\ f \in DOMAIN e <=> f \in DOMAIN d
                        /\ f \in DOMAIN d => e[f] = d[f]
    PROVE  /\ RecordsOf(e, F) = RecordsOf(d, F)
           /\ ActiveLog \in F => ActiveRecords(e) = ActiveRecords(d)
  BY DEF RecordsOf, ActiveRecords

LEMMA EmptyLogHoldsNothing ==
    ASSUME NEW d, ActiveRecords(d) = <<>>
    PROVE  RecordsOf(d, {ActiveLog}) = {}
  BY DEF RecordsOf, ActiveRecords

LEMMA RecordsTogether ==
    ASSUME NEW d, NEW F, NEW G
    PROVE  RecordsOf(d, F \cup G) = RecordsOf(d, F) \cup RecordsOf(d, G)
  BY DEF RecordsOf

\* A manifest without segments names an empty log.
LEMMA NothingLogged ==
    ASSUME NEW d, NEW m, m.closed = {}, ActiveRecords(d) = <<>>
    PROVE  RecordsOf(d, LogFiles(m)) = {} /\ Replays(d, LogFiles(m), m) = CheckpointContent(d, m)
  <1>1. LogFiles(m) = {ActiveLog}
    BY DEF LogFiles
  <1>2. RecordsOf(d, LogFiles(m)) = {}
    BY <1>1, EmptyLogHoldsNothing
  <1> QED
    BY <1>2 DEF Replays

\* A log that reads the same is as sound as it was.
LEMMA SameLogFiles ==
    ASSUME NEW d, NEW e, NEW m, SoundLog(d, m),
           \A f \in LogFiles(m) : /\ f \in DOMAIN e <=> f \in DOMAIN d
                                  /\ f \in DOMAIN d => e[f] = d[f]
    PROVE  SoundLog(e, m) /\ ActiveRecords(e) = ActiveRecords(d)
  <1>1. RecordsOf(e, LogFiles(m)) = RecordsOf(d, LogFiles(m)) /\ ActiveRecords(e) = ActiveRecords(d)
    BY SameFiles DEF LogFiles
  <1> QED
    BY <1>1 DEF SoundLog, SoundRecords, Counted

\* Manifests that agree have one log and recover to one content.
LEMMA AgreeReplays ==
    ASSUME NEW d, NEW m, NEW n, Agree(d, m, n)
    PROVE  /\ LogFiles(m) = LogFiles(n)
           /\ \A F : Replays(d, F, m) = Replays(d, F, n)
           /\ ClosedBelow(n) => ClosedBelow(m)
           /\ SoundLog(d, n) => SoundLog(d, m)
  BY DEF Agree, LogFiles, Replays, ClosedBelow, SoundLog, SoundRecords, Counted

\* The truncation of the active log and the pruning of files nobody names.
LEMMA TruncationWrites ==
    ASSUME IInv, CommitEnds, TruncateActive, "truncate" \notin ThrowAt
    PROVE  /\ DiskManifest = next /\ DiskManifest' = next /\ HasPrimary'
           /\ CheckpointContent(disk', next) = CheckpointContent(disk, next)
           /\ ActiveRecords(disk') = <<>>
           /\ RecordsOf(disk', LogFiles(next)) = RecordsOf(disk, LogFiles(next) \ {ActiveLog})
  <1>1. pc = "truncate" /\ disk' = WithFile(disk, ActiveLog, <<>>)
    BY DEF TruncateActive, MayThrow, Here
  <1>2. /\ \A f \in DOMAIN disk : f # ActiveLog => f \in DOMAIN disk' /\ disk'[f] = disk[f]
        /\ DOMAIN disk' = DOMAIN disk \cup {ActiveLog}
        /\ disk'[ActiveLog] = <<>>
    BY <1>1 DEF WithFile
  <1>3. DiskManifest = next /\ HasPrimary
    BY <1>1 DEF CommitEnds, Committed
  <1>4. DiskManifest' = next /\ HasPrimary'
    BY <1>2, <1>3, FileKinds DEF DiskManifest, CurrentManifest, HasPrimary
  <1>5. CheckpointContent(disk', next) = CheckpointContent(disk, next)
    <2>1. next.checkpointFile \in DOMAIN disk \cup {NoFile} /\ next \in Manifests
      BY <1>1, ManifestsAtHand DEF CommitOrAfter, CommitPoints
    <2> QED
      BY <1>2, <2>1, SameCheckpoint, CheckpointFileKind
  <1>6. ActiveRecords(disk') = <<>>
    BY <1>2 DEF ActiveRecords
  <1>7. RecordsOf(disk', LogFiles(next)) = RecordsOf(disk, LogFiles(next) \ {ActiveLog})
    BY <1>2 DEF RecordsOf
  <1> QED
    BY <1>3, <1>4, <1>5, <1>6, <1>7

LEMMA PruningWrites ==
    ASSUME IInv, FlushRuns, CommitEnds, NoReset, NEW f \in prune, PruneFile(f)
    PROVE  /\ DiskManifest = next /\ DiskManifest' = next /\ HasPrimary'
           /\ CheckpointContent(disk', next) = CheckpointContent(disk, next)
           /\ \A g \in LogFiles(next) : /\ g \in DOMAIN disk' <=> g \in DOMAIN disk
                                        /\ g \in DOMAIN disk => disk'[g] = disk[g]
  <1>1. /\ pc = "prune" /\ flush # "none"
        /\ disk' = WithoutFile(disk, f) \/ UNCHANGED disk
    BY DEF PruneFile, NoReset, FlushRuns
  <1>2. /\ \A g \in DOMAIN disk : g # f => g \in DOMAIN disk' /\ disk'[g] = disk[g]
        /\ DOMAIN disk \ {f} \subseteq DOMAIN disk' /\ DOMAIN disk' \subseteq DOMAIN disk
    BY <1>1 DEF WithoutFile
  <1>3. f \notin {ManifestFile, ManifestBak, ActiveLog} \cup References(next)
    BY <1>1 DEF CommitEnds, IInv, PruneUnreferenced, CommitOrAfter
  <1>4. DiskManifest = next /\ HasPrimary
    BY <1>1 DEF CommitEnds, Committed
  <1>5. DiskManifest' = next /\ HasPrimary'
    BY <1>2, <1>3, <1>4 DEF DiskManifest, CurrentManifest, HasPrimary
  <1>6. CheckpointContent(disk', next) = CheckpointContent(disk, next)
    <2>1. next.checkpointFile \in DOMAIN disk \cup {NoFile}
      BY <1>1, ManifestsAtHand DEF CommitOrAfter
    <2>2. next.checkpointFile \in {NoFile} \cup References(next)
      BY DEF References
    <2> QED
      BY <1>2, <1>3, <2>1, <2>2, SameCheckpoint
  <1>7. f \notin LogFiles(next)
    BY <1>3 DEF LogFiles, References
  <1> QED
    BY <1>2, <1>4, <1>5, <1>6, <1>7

-----------------------------------------------------------------------------
(* The steps that write files. *)

\* What no write touches.
LEMMA WritesKeep ==
    ASSUME WritesFiles, FlushRuns, BootReads
    PROVE  /\ UNCHANGED <<manifest, job, flush, rtUp, rtContent>>
           /\ Batch' = Batch /\ ~ Settled' /\ ~ Importing' /\ BootReads'
  <1>1. UNCHANGED <<manifest, job, flush, rtUp, rtContent>>
    BY Zenon DEF WritesFiles, AppendWal, WriteContentCheckpoint, WriteDerivedCheckpoint,
       CloseSegments, WriteBackup, WritePrimary, TruncateActive, PruneFile,
       runtimeVars, serviceVars, clientVars, frameVars
  <1>2. /\ pc \in {"append", "writeContent", "writeDerived", "close", "backup", "primary",
                   "truncate", "prune"}
        /\ pc' \in {"close", "backup", "primary", "truncate", "apply", "committed", "prune"}
    BY Zenon DEF BootReads, NoReset, WritesFiles, AppendWal, WriteContentCheckpoint,
       WriteDerivedCheckpoint, CloseSegments, WriteBackup, WritePrimary, TruncateActive,
       PruneFile, AfterCommit
  <1>3. ~ Settled' /\ ~ Importing'
    BY <1>2 DEF Settled, Importing
  <1>4. BootReads'
    BY <1>1, <1>2 DEF BootReads, NoReset
  <1> QED
    BY <1>1, <1>3, <1>4 DEF Batch

LEMMA AppendImport ==
    ASSUME IInv, FlushRuns, ImportInv, AppendWal
    PROVE  ImportInv'
  <1>1. /\ pc = "append" /\ pc' = "close" /\ flush = "none"
        /\ UNCHANGED <<manifest, rtContent, flush>> /\ Batch' = Batch
        /\ SettledAgrees' /\ ImportForgets' /\ BootReads'
    BY WritesKeep DEF WritesFiles, AppendWal, FlushRuns, FlushSteps, CommitOrAfter, CommitPoints,
       ImportInv, SettledAgrees, ImportForgets
  <1>2. /\ Agree(disk, manifest, DiskManifest)
        /\ rtContent = Replays(disk, LogFiles(DiskManifest), DiskManifest)
        /\ SoundLog(disk, DiskManifest)
    BY <1>1 DEF ImportInv, SettledAgrees, Settled, LogInForce, Appending, Uncommitted
  <1>3. /\ DiskManifest' = DiskManifest
        /\ CheckpointContent(disk', next') = CheckpointContent(disk, DiskManifest)
        /\ RecordsOf(disk', LogFiles(DiskManifest))
               = RecordsOf(disk, LogFiles(DiskManifest)) \cup {Batch}
    BY <1>2, AppendWrites DEF Agree, LogFiles
  <1>4. /\ next'.lastCheckpointSeq = manifest.lastCheckpointSeq
        /\ next'.nextSeq = manifest.nextSeq + 1
        /\ \/ /\ next'.closed = manifest.closed
              /\ next'.activeCount = DiskManifest.activeCount + 1
           \/ \E s \in Segments : /\ s.endSeq = manifest.nextSeq
                                  /\ next'.closed = manifest.closed \cup {s}
    BY AppendKeeps DEF DiskManifest
  <1> DEFINE n == manifest.nextSeq
             last == manifest.lastCheckpointSeq
             L == RecordsOf(disk, LogFiles(DiskManifest))
  <1>5. /\ n \in Nat /\ last \in Nat /\ Batch.seq = n
        /\ DiskManifest.activeCount \in Nat
        /\ DiskManifest.nextSeq = n /\ DiskManifest.lastCheckpointSeq = last
        /\ DiskManifest.closed = manifest.closed
        /\ \A s \in manifest.closed : s.endSeq \in Nat
        /\ \A r \in L : r.seq \in Nat
    <2>1. L \subseteq Records
      BY LoggedType DEF Logged
    <2>2. manifest \in Manifests /\ DiskManifest \in Manifests
      BY ManifestsAtHand
    <2> QED
      BY <1>2, <2>1, <2>2 DEF Agree, Manifests, Records, Batch, Segments
  <1>6. /\ OneRecord(L) /\ (\A r \in L : r.seq < n) /\ last < n
        /\ \A s \in manifest.closed : s.endSeq < n
    BY <1>2, <1>5 DEF SoundLog, SoundRecords, ClosedBelow
  <1>7. SoundRecords(disk', LogFiles(DiskManifest), next')
    <2>1. \A r \in L : r.seq # Batch.seq
      BY <1>5, <1>6
    <2>2. OneRecord(L \cup {Batch})
      BY <1>6, <2>1 DEF OneRecord
    <2>3. \A r \in L \cup {Batch} : r.seq < n + 1
      BY <1>5, <1>6
    <2> QED
      BY <1>3, <1>4, <2>2, <2>3 DEF SoundRecords
  <1>8. ClosedBelow(next')
    <2>1. \A s \in manifest.closed : s.endSeq < n + 1
      BY <1>5, <1>6
    <2>2. last < n + 1 /\ n < n + 1
      BY <1>5, <1>6
    <2> QED
      BY <1>4, <2>1, <2>2 DEF ClosedBelow
  <1>9. Replays(disk', LogFiles(DiskManifest), next') = rtContent \cup {Batch}
    <2>1. {r \in L \cup {Batch} : last < r.seq /\ r.seq < n + 1}
              = {r \in L : last < r.seq /\ r.seq < n} \cup {Batch}
      BY <1>5, <1>6
    <2> QED
      BY <1>2, <1>3, <1>4, <1>5, <2>1 DEF Replays
  <1>10. RollsOrCounts'
    <2>1. DiskManifest.activeCount + 1 # 0
      BY <1>5
    <2> QED
      BY <1>3, <1>4, <1>5, <2>1 DEF RollsOrCounts
  <1>11. ActiveRecords(disk') # <<>>
    BY IInvTypes, AppendStep DEF ActiveRecords
  <1>12. MutationCommits'
    BY <1>1, <1>2, <1>3, <1>7, <1>8, <1>9, <1>10, <1>11 DEF MutationCommits, OneBehind, SoundLog
  <1>13. LogInForce' /\ FreshLog'
    BY <1>1 DEF LogInForce, FreshLog, Appending, Uncommitted
  <1>14. ContentCommits' /\ DerivedCommits' /\ CommitEnds'
    BY <1>1 DEF ContentCommits, DerivedCommits, CommitEnds, Committed
  <1> QED
    BY <1>1, <1>12, <1>13, <1>14 DEF ImportInv

\* A checkpoint file is none of the log.
LEMMA CheckpointLeavesLog ==
    ASSUME IInv, WriteContentCheckpoint \/ WriteDerivedCheckpoint
    PROVE  /\ DiskManifest' = DiskManifest /\ (HasPrimary' <=> HasPrimary)
           /\ \A f \in SegmentFiles \cup {ActiveLog} : /\ f \in DOMAIN disk' <=> f \in DOMAIN disk
                                                       /\ f \in DOMAIN disk => disk'[f] = disk[f]
           /\ prune' \cap {ManifestFile, ManifestBak, ActiveLog} = {}
  <1>1. PICK file \in ContentCheckpointFiles \cup DerivedCheckpointFiles :
            /\ \E v : disk' = WithFile(disk, file, v)
            /\ \/ prune' = ContentPruneFiles(manifest, file, manifest.nextSeq - 1)
               \/ prune' = DerivedPruneFiles(manifest, file)
    <2>1. manifest.generation + 1 \in Nat
      BY ManifestsAtHand DEF Manifests
    <2> QED
      BY <2>1, FileNames DEF WriteContentCheckpoint, WriteDerivedCheckpoint
  <1>2. file \notin {ManifestFile, ManifestBak, ActiveLog} \cup SegmentFiles
    BY FileKinds
  <1>3. /\ \A f \in DOMAIN disk : f # file => f \in DOMAIN disk' /\ disk'[f] = disk[f]
        /\ DOMAIN disk' = DOMAIN disk \cup {file}
    BY <1>1 DEF WithFile
  <1>4. DiskManifest' = DiskManifest /\ (HasPrimary' <=> HasPrimary)
    BY <1>2, <1>3 DEF DiskManifest, CurrentManifest, HasPrimary
  <1>5. prune' \cap {ManifestFile, ManifestBak, ActiveLog} = {}
    <2>1. \A s \in manifest.closed : FileOf(s) \in SegmentFiles
      BY ManifestsAtHand, FileNames DEF Manifests
    <2>2. manifest.derivedFile \in DerivedCheckpointFiles \cup {NoFile}
      BY ManifestsAtHand DEF Manifests
    <2> QED
      BY <1>1, <2>1, <2>2, ManifestsAtHand, CheckpointFileKind, FileKinds
         DEF ContentPruneFiles, DerivedPruneFiles, Reclaimed
  <1> QED
    BY <1>2, <1>3, <1>4, <1>5

\* What a checkpoint leaves as it was.
LEMMA CheckpointKeeps ==
    ASSUME IInv, FlushRuns, ImportInv, WriteContentCheckpoint \/ WriteDerivedCheckpoint
    PROVE  /\ LogInForce' /\ FreshLog' /\ MutationCommits' /\ CommitEnds'
           /\ SettledAgrees' /\ ImportForgets' /\ BootReads'
  <1>1. /\ pc \in {"writeContent", "writeDerived"} /\ pc' = "close" /\ flush # "none"
        /\ UNCHANGED flush
        /\ SettledAgrees' /\ ImportForgets' /\ BootReads'
    BY WritesKeep DEF WritesFiles, WriteContentCheckpoint, WriteDerivedCheckpoint, FlushRuns,
       ImportInv, SettledAgrees, ImportForgets
  <1>2. /\ SoundLog(disk, DiskManifest)
        /\ LogFiles(DiskManifest) \subseteq SegmentFiles \cup {ActiveLog}
    BY <1>1, ManifestsAtHand, LogFileKind DEF ImportInv, LogInForce, Appending
  <1>3. SoundLog(disk', DiskManifest)
    BY <1>2, CheckpointLeavesLog, SameLogFiles
  <1>4. ActiveRecords(disk') = ActiveRecords(disk)
    BY CheckpointLeavesLog DEF ActiveRecords
  <1>5. LogInForce' /\ FreshLog'
    BY <1>1, <1>3, <1>4, CheckpointLeavesLog DEF LogInForce, FreshLog, ImportInv, Appending
  <1>6. MutationCommits' /\ CommitEnds'
    BY <1>1, CheckpointLeavesLog DEF MutationCommits, CommitEnds, Committed
  <1> QED
    BY <1>1, <1>5, <1>6

LEMMA ContentImport ==
    ASSUME IInv, FlushRuns, ImportInv, WriteContentCheckpoint
    PROVE  ImportInv'
  <1> DEFINE file == ContentCheckpointFile(manifest.generation + 1)
             last == manifest.nextSeq - 1
  <1>1. /\ pc = "writeContent" /\ pc' = "close" /\ flush = "content"
        /\ UNCHANGED <<rtContent, flush>>
        /\ disk' = WithFile(disk, file, rtContent)
        /\ next' = FinalizeContentCheckpointManifest(manifest, file, last)
    BY DEF WriteContentCheckpoint, FlushRuns, runtimeVars, serviceVars
  <1>2. manifest \in Manifests /\ manifest.nextSeq \in Nat \ {0} /\ file # NoFile
    <2>1. manifest \in Manifests /\ manifest.generation + 1 \in Nat
      BY ManifestsAtHand DEF Manifests
    <2> QED
      BY <2>1, FileNames, FileKinds DEF Manifests
  <1>3. ClosedBelow(manifest)
    <2>1. CASE Importing
      BY <2>1, EmptyFields DEF ImportInv, ImportForgets, ClosedBelow
    <2>2. CASE ~ Importing
      <3>1. Agree(disk, manifest, DiskManifest) /\ ClosedBelow(DiskManifest)
        BY <1>1, <2>2 DEF ImportInv, SettledAgrees, Settled, LogInForce, Appending, Uncommitted,
           SoundLog
      <3> QED
        BY <3>1, AgreeReplays
    <2> QED
      BY <2>1, <2>2
  <1>4. Reclaimed(manifest, last) = manifest.closed
    <2>1. \A s \in manifest.closed : s.endSeq \in Nat
      BY <1>2 DEF Manifests, Segments
    <2>2. \A s \in manifest.closed : s.endSeq <= last
      BY <1>2, <1>3, <2>1 DEF ClosedBelow
    <2> QED
      BY <2>2 DEF Reclaimed
  <1>5. /\ next'.closed = {} /\ next'.activeCount = 0 /\ next'.activeBytes = 0
        /\ next'.lastCheckpointSeq = last /\ next'.nextSeq = manifest.nextSeq
        /\ next'.checkpointFile = file
    <2>1. next'.closed = manifest.closed \ Reclaimed(manifest, last)
      BY <1>1, <1>2, ContentFields
    <2>2. next'.activeBytes = 0
      BY <1>1, <1>2 DEF FinalizeContentCheckpointManifest, Manifests
    <2>3. /\ next'.activeCount = 0
          /\ next'.lastCheckpointSeq = last /\ next'.nextSeq = manifest.nextSeq
          /\ next'.checkpointFile = file
      BY <1>1, <1>2, ContentFields
    <2> QED
      BY <1>4, <2>1, <2>2, <2>3
  <1>6. next'.lastCheckpointSeq < next'.nextSeq
    BY <1>2, <1>5
  <1>7. CheckpointContent(disk', next') = rtContent
    BY <1>1, <1>2, <1>5 DEF CheckpointContent, WithFile
  <1>8. ContentCommits' /\ DerivedCommits'
    BY <1>1, <1>5, <1>6, <1>7 DEF ContentCommits, DerivedCommits
  <1> QED
    BY <1>8, CheckpointKeeps DEF ImportInv

LEMMA DerivedImport ==
    ASSUME IInv, FlushRuns, ImportInv, WriteDerivedCheckpoint
    PROVE  ImportInv'
  <1>1. /\ pc = "writeDerived" /\ pc' = "close" /\ flush = "derived"
        /\ UNCHANGED <<rtContent, flush>>
        /\ next' = FinalizeDerivedCheckpointManifest(
                       manifest, DerivedCheckpointFile(manifest.generation + 1))
    BY DEF WriteDerivedCheckpoint, FlushRuns, runtimeVars, serviceVars
  <1>2. /\ Agree(disk, manifest, DiskManifest)
        /\ rtContent = Replays(disk, LogFiles(DiskManifest), DiskManifest)
    BY <1>1 DEF ImportInv, SettledAgrees, Settled
  <1>3. /\ DiskManifest' = DiskManifest
        /\ CheckpointContent(disk', DiskManifest) = CheckpointContent(disk, DiskManifest)
        /\ CheckpointContent(disk', next') = CheckpointContent(disk, manifest)
        /\ RecordsOf(disk', LogFiles(DiskManifest)) = RecordsOf(disk, LogFiles(DiskManifest))
    BY DerivedCheckpointWrites
  <1>4. /\ next'.lastCheckpointSeq = manifest.lastCheckpointSeq
        /\ next'.nextSeq = manifest.nextSeq
        /\ next'.activeCount = manifest.activeCount
        /\ next'.closed = manifest.closed
    BY <1>1, ManifestsAtHand, DerivedFields
  <1>5. Agree(disk', next', DiskManifest)
    BY <1>2, <1>3, <1>4 DEF Agree
  <1>6. rtContent = Replays(disk', LogFiles(DiskManifest), DiskManifest)
    BY <1>2, <1>3 DEF Replays
  <1>7. ContentCommits' /\ DerivedCommits'
    BY <1>1, <1>3, <1>5, <1>6 DEF ContentCommits, DerivedCommits
  <1> QED
    BY <1>7, CheckpointKeeps DEF ImportInv

\* A log that is closed is copied to a segment of its own, before it is truncated.
LEMMA RolledLog ==
    ASSUME IInv, CloseSegments, ClosedBelow(DiskManifest), ActiveRecords(disk) # <<>>,
           NEW s \in next.closed, s.endSeq = DiskManifest.nextSeq,
           next.closed = DiskManifest.closed \cup {s}
    PROVE  /\ truncating'
           /\ RecordsOf(disk', LogFiles(next)) = RecordsOf(disk, LogFiles(DiskManifest))
           /\ RecordsOf(disk', {ActiveLog}) \subseteq RecordsOf(disk', LogFiles(next) \ {ActiveLog})
  <1>1. DiskManifest \in Manifests /\ next \in Manifests
    BY ManifestsAtHand
  <1>2. s \in Segments /\ DiskManifest.closed \subseteq Segments /\ DiskManifest.nextSeq \in Nat
    BY <1>1 DEF Manifests
  <1>3. \A t \in DiskManifest.closed : FileOf(t) # FileOf(s)
    <2>1. ASSUME NEW t \in DiskManifest.closed, FileOf(t) = FileOf(s)
          PROVE  FALSE
      <3>1. t.endSeq = s.endSeq /\ t.endSeq < DiskManifest.nextSeq
        BY <1>2, <2>1, FileNames DEF ClosedBelow
      <3> QED
        BY <1>2, <3>1
    <2> QED
      BY <2>1
  <1>4. FileOf(s) \in AppendedClosed(disk, next)
    BY <1>3 DEF AppendedClosed, DiskManifest
  <1>5. truncating'
    BY <1>4 DEF CloseSegments, ShouldTruncateActive
  <1>6. FileOf(s) \in DOMAIN disk' /\ disk'[FileOf(s)] = ActiveRecords(disk)
    BY <1>4, CloseWrites
  <1>7. ActiveLog \in DOMAIN disk /\ ActiveRecords(disk) = disk[ActiveLog]
    BY DEF ActiveRecords
  <1>8. RecordsOf(disk', {FileOf(s)}) = RecordsOf(disk, {ActiveLog})
    BY <1>6, <1>7 DEF RecordsOf
  <1>9. LogFiles(next) = LogFiles(DiskManifest) \cup {FileOf(s)}
    BY DEF LogFiles
  <1>10. RecordsOf(disk, {ActiveLog}) \subseteq RecordsOf(disk, LogFiles(DiskManifest))
    BY DEF RecordsOf, LogFiles
  <1>11. RecordsOf(disk', LogFiles(next)) = RecordsOf(disk, LogFiles(DiskManifest))
    <2>1. RecordsOf(disk', LogFiles(next))
              = RecordsOf(disk', LogFiles(DiskManifest)) \cup RecordsOf(disk', {FileOf(s)})
      BY <1>9, RecordsTogether
    <2> QED
      BY <1>8, <1>10, <2>1, CloseWrites
  <1>12. RecordsOf(disk', {ActiveLog}) = RecordsOf(disk, {ActiveLog})
    BY CloseWrites DEF RecordsOf, LogFiles
  <1>13. FileOf(s) # ActiveLog /\ FileOf(s) \in LogFiles(next)
    BY <1>2, FileNames, FileKinds DEF LogFiles
  <1>14. RecordsOf(disk', {FileOf(s)}) \subseteq RecordsOf(disk', LogFiles(next) \ {ActiveLog})
    BY <1>13 DEF RecordsOf
  <1> QED
    BY <1>5, <1>8, <1>11, <1>12, <1>14

LEMMA CloseImport ==
    ASSUME IInv, FlushRuns, ImportInv, CloseSegments
    PROVE  ImportInv'
  <1>1. /\ pc = "close" /\ pc' = "backup"
        /\ truncating' = ShouldTruncateActive(disk, next)
        /\ UNCHANGED <<manifest, next, rtContent, flush, prune>> /\ Batch' = Batch
        /\ SettledAgrees' /\ ImportForgets' /\ BootReads'
    BY WritesKeep DEF WritesFiles, CloseSegments, ImportInv, SettledAgrees, ImportForgets
  <1>2. /\ DiskManifest' = DiskManifest /\ (HasPrimary' <=> HasPrimary)
        /\ \A m \in {DiskManifest, next} : CheckpointContent(disk', m) = CheckpointContent(disk, m)
        /\ RecordsOf(disk', LogFiles(DiskManifest)) = RecordsOf(disk, LogFiles(DiskManifest))
    BY CloseWrites
  <1>3. ActiveRecords(disk') = ActiveRecords(disk)
    BY CloseWrites DEF ActiveRecords, LogFiles
  <1>4. flush # "none" => SoundLog(disk, DiskManifest)
    BY <1>1 DEF ImportInv, LogInForce, Appending
  <1>5. LogInForce'
    <2>1. flush # "none" => SoundLog(disk', DiskManifest)
      BY <1>4, CloseWrites, SameLogFiles
    <2> QED
      BY <1>1, <1>2, <2>1 DEF LogInForce, Appending, Uncommitted
  <1>6. FreshLog'
    BY <1>1, <1>2, <1>3 DEF FreshLog, ImportInv, Appending, Uncommitted
  <1>7. ASSUME flush = "none"
        PROVE  MutationCommits'
    <2>1. /\ OneBehind(LogFiles(DiskManifest))
          /\ ClosedBelow(DiskManifest) /\ RollsOrCounts /\ ActiveRecords(disk) # <<>>
      BY <1>1, <1>7 DEF ImportInv, MutationCommits
    <2>2. CASE next.closed = DiskManifest.closed /\ next.activeCount # 0
      <3>1. LogFiles(next) = LogFiles(DiskManifest) /\ AppendedClosed(disk, next) = {}
        BY <2>2 DEF LogFiles, AppendedClosed, DiskManifest
      <3>2. ~ truncating'
        BY <1>1, <2>2, <3>1 DEF ShouldTruncateActive
      <3>3. RecordsOf(disk', LogFiles(next)) = RecordsOf(disk, LogFiles(DiskManifest))
        BY <1>2, <3>1
      <3> QED
        BY <1>1, <1>2, <2>1, <2>2, <3>2, <3>3
           DEF MutationCommits, OneBehind, SoundRecords, Replays
    <2>3. CASE \E s \in next.closed : /\ s.endSeq = DiskManifest.nextSeq
                                      /\ next.closed = DiskManifest.closed \cup {s}
      <3>1. /\ truncating'
            /\ RecordsOf(disk', LogFiles(next)) = RecordsOf(disk, LogFiles(DiskManifest))
            /\ RecordsOf(disk', {ActiveLog})
                   \subseteq RecordsOf(disk', LogFiles(next) \ {ActiveLog})
        BY <2>1, <2>3, RolledLog
      <3> QED
        BY <1>1, <1>2, <2>1, <3>1 DEF MutationCommits, OneBehind, SoundRecords, Replays
    <2> QED
      BY <2>1, <2>2, <2>3 DEF RollsOrCounts
  <1>8. MutationCommits'
    BY <1>1, <1>7 DEF MutationCommits
  <1>9. DiskManifest.activeCount \in Nat
    BY ManifestsAtHand DEF Manifests
  <1>10. ContentCommits'
    <2>1. SUFFICES ASSUME flush = "content"
                   PROVE  ContentCommits'
      BY <1>1 DEF ContentCommits
    <2>2. /\ next.closed = {} /\ next.activeCount = 0 /\ next.activeBytes = 0
          /\ next.lastCheckpointSeq < next.nextSeq
          /\ CheckpointContent(disk, next) = rtContent
      BY <1>1, <2>1 DEF ImportInv, ContentCommits, CommitOrAfter, CommitPoints
    <2>3. ~ truncating' => ActiveRecords(disk) = <<>>
      BY <1>1, <1>4, <1>9, <2>1, <2>2 DEF ShouldTruncateActive, SoundLog, Counted, DiskManifest
    <2> QED
      BY <1>1, <1>2, <1>3, <2>2, <2>3 DEF ContentCommits
  <1>11. DerivedCommits'
    <2>1. SUFFICES ASSUME flush = "derived"
                   PROVE  DerivedCommits'
      BY <1>1 DEF DerivedCommits
    <2>2. /\ Agree(disk, next, DiskManifest)
          /\ rtContent = Replays(disk, LogFiles(DiskManifest), DiskManifest)
      BY <1>1, <2>1 DEF ImportInv, DerivedCommits, CommitOrAfter, CommitPoints
    <2>3. AppendedClosed(disk, next) = {}
      BY <2>2 DEF AppendedClosed, DiskManifest, Agree
    <2>4. ~ truncating'
      BY <1>1, <1>9, <2>2, <2>3 DEF ShouldTruncateActive, DiskManifest, Agree
    <2> QED
      BY <1>1, <1>2, <2>2, <2>4 DEF DerivedCommits, Agree, Replays
  <1>12. CommitEnds'
    BY <1>1 DEF CommitEnds, Committed, ImportInv, CommitOrAfter, CommitPoints
  <1> QED
    BY <1>1, <1>5, <1>6, <1>8, <1>10, <1>11, <1>12 DEF ImportInv

\* A log with the same records is as sound as it was, and recovers to the same.
LEMMA SameLogRecords ==
    ASSUME NEW d, NEW e, NEW m,
           RecordsOf(e, LogFiles(m)) = RecordsOf(d, LogFiles(m)),
           CheckpointContent(e, m) = CheckpointContent(d, m)
    PROVE  /\ Replays(e, LogFiles(m), m) = Replays(d, LogFiles(m), m)
           /\ SoundRecords(e, LogFiles(m), m) <=> SoundRecords(d, LogFiles(m), m)
           /\ ActiveRecords(e) = ActiveRecords(d) => (SoundLog(d, m) => SoundLog(e, m))
  BY DEF Replays, SoundRecords, SoundLog, Counted

\* A manifest of nothing but its checkpoint has a sound log.
LEMMA EmptyLogIsSound ==
    ASSUME NEW d, NEW m, m.closed = {}, ActiveRecords(d) = <<>>, m.lastCheckpointSeq < m.nextSeq
    PROVE  SoundLog(d, m)
  BY NothingLogged DEF SoundLog, SoundRecords, OneRecord, ClosedBelow, Counted

LEMMA BackupImport ==
    ASSUME IInv, FlushRuns, ImportInv, WriteBackup
    PROVE  ImportInv'
  <1>1. /\ pc = "backup" /\ pc' = "primary" /\ disk' = WithFile(disk, ManifestBak, next)
        /\ UNCHANGED <<manifest, next, rtContent, flush, prune, truncating>> /\ Batch' = Batch
        /\ SettledAgrees' /\ ImportForgets' /\ BootReads'
    BY WritesKeep DEF WritesFiles, WriteBackup, frameVars, ImportInv, SettledAgrees, ImportForgets
  <1>2. /\ HasPrimary' <=> HasPrimary
        /\ HasPrimary => DiskManifest' = DiskManifest
        /\ ~ HasPrimary => DiskManifest' = next
        /\ \A m \in {DiskManifest, next} : CheckpointContent(disk', m) = CheckpointContent(disk, m)
        /\ \A m \in {DiskManifest, next} : \A F \in SUBSET LogFiles(m) :
              RecordsOf(disk', F) = RecordsOf(disk, F)
    BY BackupWrites
  <1>3. ActiveRecords(disk') = ActiveRecords(disk)
    BY <1>1, FileKinds DEF WithFile, ActiveRecords
  <1>4. ASSUME NEW m \in {DiskManifest, next}
        PROVE  /\ Replays(disk', LogFiles(m), m) = Replays(disk, LogFiles(m), m)
               /\ SoundRecords(disk', LogFiles(m), m) <=> SoundRecords(disk, LogFiles(m), m)
               /\ SoundLog(disk, m) => SoundLog(disk', m)
    <2>1. /\ CheckpointContent(disk', m) = CheckpointContent(disk, m)
          /\ RecordsOf(disk', LogFiles(m)) = RecordsOf(disk, LogFiles(m))
      BY <1>2
    <2> QED
      BY <1>3, <2>1, SameLogRecords
  <1>5. flush # "none" => SoundLog(disk, DiskManifest)
    BY <1>1 DEF ImportInv, LogInForce, Appending
  <1>6. flush = "derived" =>
            /\ Agree(disk, next, DiskManifest) /\ ~ truncating
            /\ rtContent = Replays(disk, LogFiles(DiskManifest), DiskManifest)
    BY <1>1 DEF ImportInv, DerivedCommits, CommitOrAfter, CommitPoints
  <1>7. flush = "content" =>
            /\ next.closed = {} /\ next.activeCount = 0 /\ next.activeBytes = 0
            /\ next.lastCheckpointSeq < next.nextSeq
            /\ CheckpointContent(disk, next) = rtContent
            /\ ~ truncating => ActiveRecords(disk) = <<>>
    BY <1>1 DEF ImportInv, ContentCommits, CommitOrAfter, CommitPoints
  <1>8. (flush # "none" /\ ~ HasPrimary) => SoundLog(disk, next)
    <2>1. ASSUME flush = "content", ~ HasPrimary
          PROVE  SoundLog(disk, next)
      <3>1. ActiveRecords(disk) = <<>>
        BY <2>1 DEF ImportInv, FreshLog, Appending
      <3> QED
        BY <1>7, <2>1, <3>1, EmptyLogIsSound
    <2>2. flush = "derived" => SoundLog(disk, next)
      BY <1>5, <1>6, AgreeReplays
    <2>3. flush \in {"none", "content", "derived"}
      BY DEF IInv, TypeInv, TypeOK
    <2> QED
      BY <2>1, <2>2, <2>3
  <1>9. LogInForce'
    <2>1. flush # "none" => SoundLog(disk', DiskManifest')
      BY <1>2, <1>4, <1>5, <1>8
    <2> QED
      BY <1>1, <2>1 DEF LogInForce, Appending, Uncommitted
  <1>10. FreshLog'
    BY <1>1, <1>2, <1>3 DEF FreshLog, ImportInv, Appending, Uncommitted
  <1>11. MutationCommits'
    <2>1. SUFFICES ASSUME flush = "none"
                   PROVE  MutationCommits'
      BY <1>1 DEF MutationCommits
    <2>2. /\ OneBehind(LogFiles(next))
          /\ IF truncating
             THEN RecordsOf(disk, {ActiveLog})
                      \subseteq RecordsOf(disk, LogFiles(next) \ {ActiveLog})
             ELSE next.activeCount # 0
      BY <1>1, <2>1 DEF ImportInv, MutationCommits
    <2>3. /\ SoundRecords(disk', LogFiles(next), next) /\ ClosedBelow(next)
          /\ Replays(disk', LogFiles(next), next) = rtContent \cup {Batch}
      BY <1>4, <2>2 DEF OneBehind
    <2>4. {ActiveLog} \in SUBSET LogFiles(next)
      BY DEF LogFiles
    <2>5. /\ RecordsOf(disk', {ActiveLog}) = RecordsOf(disk, {ActiveLog})
          /\ RecordsOf(disk', LogFiles(next) \ {ActiveLog})
                 = RecordsOf(disk, LogFiles(next) \ {ActiveLog})
      BY <1>2, <2>4
    <2> QED
      BY <1>1, <2>2, <2>3, <2>5 DEF MutationCommits, OneBehind
  <1>12. ContentCommits'
    BY <1>1, <1>2, <1>3, <1>7 DEF ContentCommits
  <1>13. DerivedCommits'
    <2>1. SUFFICES ASSUME flush = "derived"
                   PROVE  DerivedCommits'
      BY <1>1 DEF DerivedCommits
    <2>2. CASE HasPrimary
      BY <1>1, <1>2, <1>4, <1>6, <2>1, <2>2 DEF DerivedCommits, Agree
    <2>3. CASE ~ HasPrimary
      <3>1. Replays(disk, LogFiles(next), next)
                = Replays(disk, LogFiles(DiskManifest), DiskManifest)
        BY <1>6, <2>1, AgreeReplays
      <3>2. DiskManifest' = next /\ Agree(disk', next, next)
        BY <1>2, <2>3, AgreeIsMutual
      <3> QED
        BY <1>1, <1>4, <1>6, <2>1, <3>1, <3>2 DEF DerivedCommits
    <2> QED
      BY <2>2, <2>3
  <1>14. CommitEnds'
    BY <1>1 DEF CommitEnds, Committed, ImportInv, CommitOrAfter, CommitPoints
  <1> QED
    BY <1>1, <1>9, <1>10, <1>11, <1>12, <1>13, <1>14 DEF ImportInv

LEMMA PrimaryImport ==
    ASSUME IInv, FlushRuns, ImportInv, WritePrimary
    PROVE  ImportInv'
  <1>1. /\ pc = "primary" /\ disk' = WithFile(disk, ManifestFile, next)
        /\ pc' = IF truncating THEN "truncate" ELSE IF flush = "none" THEN "apply" ELSE "committed"
        /\ UNCHANGED <<manifest, next, rtContent, flush, prune, truncating>> /\ Batch' = Batch
        /\ SettledAgrees' /\ ImportForgets' /\ BootReads'
    BY WritesKeep
       DEF WritesFiles, WritePrimary, AfterCommit, frameVars, ImportInv, SettledAgrees,
           ImportForgets
  <1>2. /\ HasPrimary' /\ DiskManifest' = next
        /\ CheckpointContent(disk', next) = CheckpointContent(disk, next)
        /\ \A F \in SUBSET LogFiles(next) : RecordsOf(disk', F) = RecordsOf(disk, F)
    BY PrimaryWrites
  <1>3. ActiveRecords(disk') = ActiveRecords(disk)
    BY <1>1, FileKinds DEF WithFile, ActiveRecords
  <1>4. /\ Replays(disk', LogFiles(next), next) = Replays(disk, LogFiles(next), next)
        /\ SoundRecords(disk', LogFiles(next), next) <=> SoundRecords(disk, LogFiles(next), next)
        /\ SoundLog(disk, next) => SoundLog(disk', next)
    <2>1. RecordsOf(disk', LogFiles(next)) = RecordsOf(disk, LogFiles(next))
      BY <1>2
    <2> QED
      BY <1>2, <1>3, <2>1, SameLogRecords
  <1>5. flush # "none" => SoundLog(disk, DiskManifest)
    BY <1>1 DEF ImportInv, LogInForce, Appending
  <1>6. flush = "derived" =>
            /\ Agree(disk, next, DiskManifest) /\ ~ truncating
            /\ rtContent = Replays(disk, LogFiles(DiskManifest), DiskManifest)
    BY <1>1 DEF ImportInv, DerivedCommits, CommitOrAfter, CommitPoints
  <1>7. flush = "content" =>
            /\ next.closed = {} /\ next.activeCount = 0 /\ next.activeBytes = 0
            /\ next.lastCheckpointSeq < next.nextSeq
            /\ CheckpointContent(disk, next) = rtContent
            /\ ~ truncating => ActiveRecords(disk) = <<>>
    BY <1>1 DEF ImportInv, ContentCommits, CommitOrAfter, CommitPoints
  <1>8. flush = "none" =>
            /\ OneBehind(LogFiles(next))
            /\ IF truncating
               THEN RecordsOf(disk, {ActiveLog})
                        \subseteq RecordsOf(disk, LogFiles(next) \ {ActiveLog})
               ELSE next.activeCount # 0
    BY <1>1 DEF ImportInv, MutationCommits
  <1>9. flush \in {"none", "content", "derived"}
    BY DEF IInv, TypeInv, TypeOK
  <1>10. LogInForce'
    <2>1. SUFFICES ASSUME ~ truncating
                   PROVE  SoundLog(disk', next)
      BY <1>1, <1>2 DEF LogInForce
    <2>2. flush = "none" => SoundLog(disk', next)
      BY <1>4, <1>8, <2>1 DEF SoundLog, OneBehind, Counted
    <2>3. flush = "content" => SoundLog(disk', next)
      BY <1>4, <1>7, <2>1, EmptyLogIsSound
    <2>4. flush = "derived" => SoundLog(disk', next)
      BY <1>4, <1>5, <1>6, AgreeReplays
    <2> QED
      BY <1>9, <2>2, <2>3, <2>4
  <1>11. FreshLog'
    BY <1>2 DEF FreshLog
  <1>12. MutationCommits'
    <2>1. SUFFICES ASSUME flush = "none"
                   PROVE  MutationCommits'
      BY <1>1 DEF MutationCommits
    <2>2. OneBehind(LogFiles(next))'
      BY <1>1, <1>4, <1>8, <2>1 DEF OneBehind
    <2>3. {ActiveLog} \in SUBSET LogFiles(next)
      BY DEF LogFiles
    <2>4. /\ RecordsOf(disk', {ActiveLog}) = RecordsOf(disk, {ActiveLog})
          /\ RecordsOf(disk', LogFiles(next) \ {ActiveLog})
                 = RecordsOf(disk, LogFiles(next) \ {ActiveLog})
      BY <1>2, <2>3
    <2> QED
      BY <1>1, <1>8, <2>1, <2>2, <2>4 DEF MutationCommits
  <1>13. ContentCommits'
    BY <1>1, <1>2, <1>3, <1>7 DEF ContentCommits
  <1>14. DerivedCommits'
    <2>1. SUFFICES ASSUME flush = "derived"
                   PROVE  DerivedCommits'
      BY <1>1 DEF DerivedCommits
    <2>2. Replays(disk, LogFiles(next), next) = Replays(disk, LogFiles(DiskManifest), DiskManifest)
      BY <1>6, <2>1, AgreeReplays
    <2>3. Agree(disk', next, next)
      BY AgreeIsMutual
    <2> QED
      BY <1>1, <1>2, <1>4, <1>6, <2>1, <2>2, <2>3 DEF DerivedCommits
  <1>15. CommitEnds'
    BY <1>1, <1>2 DEF CommitEnds, ImportInv, CommitOrAfter, CommitPoints
  <1> QED
    BY <1>1, <1>10, <1>11, <1>12, <1>13, <1>14, <1>15 DEF ImportInv

LEMMA TruncateImport ==
    ASSUME IInv, FlushRuns, ImportInv, "truncate" \notin ThrowAt, TruncateActive
    PROVE  ImportInv'
  <1>1. /\ pc = "truncate" /\ pc' = IF flush = "none" THEN "apply" ELSE "committed"
        /\ UNCHANGED <<manifest, next, rtContent, flush, prune, truncating>> /\ Batch' = Batch
        /\ SettledAgrees' /\ ImportForgets' /\ BootReads'
    BY WritesKeep DEF WritesFiles, TruncateActive, AfterCommit, frameVars, ImportInv,
       SettledAgrees, ImportForgets
  <1>2. /\ DiskManifest' = next /\ HasPrimary'
        /\ CheckpointContent(disk', next) = CheckpointContent(disk, next)
        /\ ActiveRecords(disk') = <<>>
        /\ RecordsOf(disk', LogFiles(next)) = RecordsOf(disk, LogFiles(next) \ {ActiveLog})
    BY TruncationWrites DEF ImportInv
  <1>3. flush # "derived"
    BY <1>1 DEF ImportInv, DerivedCommits, CommitOrAfter, CommitPoints
  <1>4. flush = "content" =>
            /\ next.closed = {} /\ next.activeCount = 0 /\ next.activeBytes = 0
            /\ next.lastCheckpointSeq < next.nextSeq
            /\ CheckpointContent(disk, next) = rtContent
    BY <1>1 DEF ImportInv, ContentCommits, CommitOrAfter, CommitPoints
  <1>5. ASSUME flush = "none"
        PROVE  OneBehind(LogFiles(next))'
    <2>1. /\ OneBehind(LogFiles(next))
          /\ RecordsOf(disk, {ActiveLog}) \subseteq RecordsOf(disk, LogFiles(next) \ {ActiveLog})
      BY <1>1, <1>5 DEF ImportInv, MutationCommits
    <2>2. LogFiles(next) = (LogFiles(next) \ {ActiveLog}) \cup {ActiveLog}
      BY DEF LogFiles
    <2>3. RecordsOf(disk, LogFiles(next))
              = RecordsOf(disk, LogFiles(next) \ {ActiveLog}) \cup RecordsOf(disk, {ActiveLog})
      BY <2>2, RecordsTogether
    <2>4. RecordsOf(disk', LogFiles(next)) = RecordsOf(disk, LogFiles(next))
      BY <1>2, <2>1, <2>3
    <2> QED
      BY <1>1, <1>2, <2>1, <2>4 DEF OneBehind, SoundRecords, Replays
  <1>6. LogInForce' /\ FreshLog'
    <2>1. flush = "none" => SoundLog(disk', next)
      BY <1>1, <1>2, <1>5 DEF OneBehind, SoundLog, Counted
    <2>2. flush = "content" => SoundLog(disk', next)
      BY <1>2, <1>4, EmptyLogIsSound
    <2>3. SoundLog(disk', next)
      BY <1>3, <2>1, <2>2 DEF IInv, TypeInv, TypeOK
    <2> QED
      BY <1>2, <2>3 DEF LogInForce, FreshLog
  <1>7. MutationCommits' /\ ContentCommits' /\ DerivedCommits'
    BY <1>1, <1>2, <1>3, <1>4, <1>5 DEF MutationCommits, ContentCommits, DerivedCommits
  <1>8. CommitEnds'
    BY <1>1, <1>2 DEF CommitEnds, ImportInv, CommitOrAfter, CommitPoints
  <1> QED
    BY <1>1, <1>6, <1>7, <1>8 DEF ImportInv

LEMMA PruneImport ==
    ASSUME IInv, FlushRuns, ImportInv, NEW f \in prune, PruneFile(f)
    PROVE  ImportInv'
  <1>1. /\ pc = "prune" /\ pc' = "prune" /\ flush # "none" /\ prune' = prune \ {f}
        /\ UNCHANGED <<manifest, next, rtContent, flush, truncating>> /\ Batch' = Batch
        /\ SettledAgrees' /\ ImportForgets' /\ BootReads'
    BY WritesKeep DEF WritesFiles, PruneFile, FlushRuns, ImportInv, BootReads, NoReset,
       SettledAgrees, ImportForgets
  <1>2. /\ DiskManifest = next /\ DiskManifest' = next /\ HasPrimary'
        /\ CheckpointContent(disk', next) = CheckpointContent(disk, next)
        /\ \A g \in LogFiles(next) : /\ g \in DOMAIN disk' <=> g \in DOMAIN disk
                                     /\ g \in DOMAIN disk => disk'[g] = disk[g]
    BY PruningWrites DEF ImportInv, BootReads
  <1>3. SoundLog(disk, next)
    BY <1>1, <1>2 DEF ImportInv, LogInForce, Appending
  <1>4. /\ SoundLog(disk', next) /\ ActiveRecords(disk') = ActiveRecords(disk)
        /\ RecordsOf(disk', LogFiles(next)) = RecordsOf(disk, LogFiles(next))
    BY <1>2, <1>3, SameLogFiles, SameFiles
  <1>5. Replays(disk', LogFiles(next), next) = Replays(disk, LogFiles(next), next)
    BY <1>2, <1>4, SameLogRecords
  <1>6. LogInForce' /\ FreshLog'
    BY <1>2, <1>4 DEF LogInForce, FreshLog
  <1>7. MutationCommits'
    BY <1>1 DEF MutationCommits
  <1>8. ContentCommits'
    BY <1>1, <1>2, <1>4 DEF ContentCommits, ImportInv, CommitOrAfter
  <1>9. DerivedCommits'
    <2>1. SUFFICES ASSUME flush = "derived"
                   PROVE  DerivedCommits'
      BY <1>1 DEF DerivedCommits
    <2>2. rtContent = Replays(disk, LogFiles(next), next)
      BY <1>1, <1>2, <2>1 DEF ImportInv, DerivedCommits, CommitOrAfter
    <2>3. Agree(disk', next, next)
      BY AgreeIsMutual
    <2> QED
      BY <1>1, <1>2, <1>5, <2>2, <2>3 DEF DerivedCommits
  <1>10. CommitEnds'
    BY <1>1, <1>2 DEF CommitEnds, ImportInv, CommitOrAfter, CommitPoints
  <1> QED
    BY <1>1, <1>6, <1>7, <1>8, <1>9, <1>10 DEF ImportInv

-----------------------------------------------------------------------------
(* The other steps. *)

USE DEF runtimeVars, derivedVars, timerVars, frameVars, serviceVars, clientVars, vars, NextTask,
    DequeueInto, SkipTask, Enqueue, ClearFrame, EndJob, EndLoad, Settle, AcknowledgeReload,
    CountFault, AfterCommit, LoadStateOf, ContentTimerAfter, LoadManifest, RecoverRuntime,
    RecoverThrows, ResetRuntime, PruneFile, Restart, RequestMutation, RequestImport,
    TriggerSnapshot, EnsureDerivedLoaded, ChangeDerived, MarkDerivedDirty, ContentTimerFires,
    DerivedTimerFires, PauseSnapshots, ResumeSnapshots, StartMutation, AppendWal, ApplyBatch,
    ApplyThrows, ReloadRuntime, ReloadManifest, ReloadReplay, ReloadReplayThrows, StartLoad,
    LoadDerived, LoadDerivedThrows, ClearDerived, StartContentCheckpoint,
    StartDerivedCheckpoint, StartSnapshot, WriteContentCheckpoint, ExportDerived,
    WriteDerivedCheckpoint, BeginPrune, FinishFlush, StartImport, ImportSnapshot, CloseSegments,
    WriteBackup, WritePrimary, TruncateActive, FailTask, TaskThrows, RuntimeLost, WorkerDies,
    Crash, Rejects

\* A commit leaves the runtime alone, and a truncation is not interrupted.
LEMMA QuietRuntime ==
    ASSUME FlushRuns, CrashAt \cap {"truncate", "worker"} = {}, QuietStep
    PROVE  /\ pc' \in CommitOrAfter \cup {"apply"} => UNCHANGED rtContent
           /\ pc = "truncate" => pc' = "truncate"
  <1> USE DEF FlushRuns, FlushSteps, CommitOrAfter, CommitPoints, Here
  <1>1. CASE UNCHANGED taskVars
    BY <1>1, Zenon DEF taskVars
  <1>2. CASE Boot \/ Restart
    BY <1>2, Zenon DEF Boot
  <1>3. CASE StartMutation \/ ApplyBatch \/ ApplyThrows
    BY <1>3, Zenon
  <1>4. CASE Reload
    BY <1>4, Zenon DEF Reload
  <1>5. CASE Load
    BY <1>5, Zenon DEF Load
  <1>6. CASE StartContentCheckpoint \/ StartDerivedCheckpoint \/ StartSnapshot
    BY <1>6, Zenon
  <1>7. CASE ExportDerived \/ BeginPrune
    BY <1>7, Zenon
  <1>8. CASE FinishFlush
    BY <1>8, Zenon DEF ThenDerived
  <1>9. CASE Import
    BY <1>9, Zenon DEF Import
  <1>10. CASE RuntimeLost \/ TaskThrows \/ WorkerDies \/ Crash
    BY <1>10, Zenon DEF RejectPoints, RuntimePoints
  <1> QED
    BY <1>1, <1>2, <1>3, <1>4, <1>5, <1>6, <1>7, <1>8, <1>9, <1>10, Zenon DEF QuietStep

\* What a boot reads, and what an import forgets.
LEMMA QuietBoot ==
    ASSUME BootReads, ImportForgets,
           UNCHANGED disk, DiskManifest' = DiskManifest, CurrentManifest(disk) = DiskManifest,
           ThrowAt \cap {"recover", "reload", "reloadManifest", "reloadReplay"} = {},
           "worker" \notin CrashAt,
           pc \in {"recover", "reloadReplay"} => Recoverable(disk, manifest),
           QuietStep
    PROVE  BootReads' /\ ImportForgets'
  <1> USE DEF BootReads, NoReset, ImportForgets, Importing, MayThrow, Here
  <1>1. CASE UNCHANGED taskVars
    BY <1>1, Zenon DEF taskVars
  <1>2. CASE Boot \/ Restart
    BY <1>2, Zenon DEF Boot
  <1>3. CASE StartMutation \/ ApplyBatch \/ ApplyThrows
    BY <1>3, Zenon
  <1>4. CASE Reload
    BY <1>4, Zenon DEF Reload
  <1>5. CASE Load
    BY <1>5, Zenon DEF Load
  <1>6. CASE StartContentCheckpoint \/ StartDerivedCheckpoint \/ StartSnapshot
    BY <1>6, Zenon
  <1>7. CASE ExportDerived \/ BeginPrune
    BY <1>7, Zenon
  <1>8. CASE FinishFlush
    BY <1>8, Zenon DEF ThenDerived
  <1>9. CASE Import
    BY <1>9, Zenon DEF Import
  <1>10. CASE RuntimeLost \/ TaskThrows \/ WorkerDies \/ Crash
    BY <1>10, Zenon DEF RejectPoints, RuntimePoints
  <1> QED
    BY <1>1, <1>2, <1>3, <1>4, <1>5, <1>6, <1>7, <1>8, <1>9, <1>10, Zenon DEF QuietStep

\* How a step comes to where memory and runtime are what the manifest in force
\* recovers to.
LEMMA QuietSettles ==
    ASSUME FlushRuns, BootReads, pc = "import" => job.op = "import",
           ThrowAt \cap {"uncommitted", "close", "backup", "primary", "committed", "recover",
                         "reload", "reloadManifest", "reloadReplay", "writeContent"} = {},
           "worker" \notin CrashAt,
           pc \in {"recover", "reloadReplay"} => Recoverable(disk, manifest),
           QuietStep, Settled'
    PROVE  \/ Settled /\ UNCHANGED <<manifest, rtContent>>
           \/ /\ pc = "boot" /\ ~ HasManifest(disk)
              /\ manifest' = CurrentManifest(disk) /\ rtContent' = {}
           \/ /\ pc \in {"recover", "reloadReplay"} /\ UNCHANGED manifest
              /\ rtContent' = Recovered(disk, manifest)
           \/ pc = "apply" /\ manifest' = next /\ rtContent' = rtContent \cup {Batch}
           \/ pc \in {"committed", "prune"} /\ manifest' = next /\ UNCHANGED rtContent
  <1> USE DEF FlushRuns, BootReads, NoReset, Settled, Importing, MayThrow, Here
  <1>1. CASE UNCHANGED taskVars
    BY <1>1, Zenon DEF taskVars
  <1>2. CASE Boot \/ Restart
    BY <1>2, Zenon DEF Boot
  <1>3. CASE StartMutation \/ ApplyBatch \/ ApplyThrows
    BY <1>3, Zenon
  <1>4. CASE Reload
    BY <1>4, Zenon DEF Reload
  <1>5. CASE Load
    BY <1>5, Zenon DEF Load
  <1>6. CASE StartContentCheckpoint \/ StartDerivedCheckpoint \/ StartSnapshot
    BY <1>6, Zenon
  <1>7. CASE ExportDerived \/ BeginPrune
    BY <1>7, Zenon
  <1>8. CASE FinishFlush
    BY <1>8, Zenon DEF ThenDerived
  <1>9. CASE Import
    BY <1>9, Zenon DEF Import
  <1>10. CASE RuntimeLost \/ TaskThrows \/ WorkerDies \/ Crash
    BY <1>10, Zenon DEF RejectPoints, RuntimePoints
  <1> QED
    BY <1>1, <1>2, <1>3, <1>4, <1>5, <1>6, <1>7, <1>8, <1>9, <1>10, Zenon DEF QuietStep

HIDE DEF runtimeVars, derivedVars, timerVars, frameVars, serviceVars, clientVars, vars,
    NextTask, DequeueInto, SkipTask, Enqueue, ClearFrame, EndJob, EndLoad, Settle,
    AcknowledgeReload, CountFault, AfterCommit, LoadStateOf, ContentTimerAfter, LoadManifest,
    RecoverRuntime, RecoverThrows, ResetRuntime, PruneFile, Restart, RequestMutation,
    RequestImport, TriggerSnapshot, EnsureDerivedLoaded, ChangeDerived, MarkDerivedDirty,
    ContentTimerFires, DerivedTimerFires, PauseSnapshots, ResumeSnapshots, StartMutation,
    AppendWal, ApplyBatch, ApplyThrows, ReloadRuntime, ReloadManifest, ReloadReplay,
    ReloadReplayThrows, StartLoad, LoadDerived, LoadDerivedThrows, ClearDerived,
    StartContentCheckpoint, StartDerivedCheckpoint, StartSnapshot, WriteContentCheckpoint,
    ExportDerived, WriteDerivedCheckpoint, BeginPrune, FinishFlush, StartImport, ImportSnapshot,
    CloseSegments, WriteBackup, WritePrimary, TruncateActive, FailTask, TaskThrows, RuntimeLost,
    WorkerDies, Crash, Rejects

\* Before the first commit a restart finds nothing.
LEMMA NothingOnDisk ==
    ASSUME FreshLog, ~ HasManifest(disk), pc \in {"boot", "idle"}
    PROVE  Replays(disk, LogFiles(DiskManifest), DiskManifest) = {}
  <1>1. ActiveRecords(disk) = <<>>
    BY DEF FreshLog, HasPrimary, HasManifest, Appending, Uncommitted
  <1>2. DiskManifest = EmptyManifest
    BY DEF DiskManifest, CurrentManifest, HasManifest
  <1> QED
    BY <1>1, <1>2, NothingLogged, EmptyFields DEF CheckpointContent

LEMMA QuietImport ==
    ASSUME ImportAssumption, IInv, FlushRuns, ImportInv, QuietStep
    PROVE  ImportInv'
  <1>1. /\ UNCHANGED disk
        /\ pc' \in CommitOrAfter \cup {"apply"} =>
              /\ UNCHANGED <<manifest, next, flush, truncating, prune, job, rtContent>>
              /\ pc' = pc \/ (pc = "committed" /\ pc' = "prune")
        /\ pc = "truncate" => pc' = "truncate"
    BY QuietCommit, QuietJob, QuietRuntime DEF ImportAssumption
  <1>2. DiskManifest' = DiskManifest /\ (HasPrimary' <=> HasPrimary)
    BY <1>1 DEF DiskManifest, HasPrimary
  <1>3. /\ ThrowAt \cap {"uncommitted", "close", "backup", "primary", "committed", "recover",
                         "reload", "reloadManifest", "reloadReplay", "writeContent"} = {}
        /\ "worker" \notin CrashAt /\ "uncommitted" \notin CrashAt
    BY DEF ImportAssumption
  <1>4. /\ pc \in {"recover", "reloadReplay"} => Recoverable(disk, manifest)
        /\ pc = "import" => job.op = "import"
    BY DEF IInv, MemoryRefersToDisk, Recoverable, TypeInv, JobHere
  <1>5. BootReads' /\ ImportForgets'
    BY <1>1, <1>2, <1>3, <1>4, QuietBoot DEF ImportInv, DiskManifest
  <1>6. Appending => Appending'
    BY <1>3, QuietPending DEF Appending, Uncommitted
  <1>7. LogInForce' /\ FreshLog'
    BY <1>1, <1>2, <1>6 DEF ImportInv, LogInForce, FreshLog
  <1>8. MutationCommits'
    <2>1. SUFFICES ASSUME flush' = "none",
                          pc' \in {"close", "backup", "primary", "truncate", "apply"}
                   PROVE  MutationCommits'
      BY DEF MutationCommits
    <2>2. /\ pc' = pc /\ Batch' = Batch
          /\ UNCHANGED <<disk, manifest, next, flush, truncating, rtContent>>
      BY <1>1, <2>1 DEF CommitOrAfter, CommitPoints, Batch
    <2> QED
      BY <1>2, <2>1, <2>2 DEF ImportInv, MutationCommits, OneBehind, RollsOrCounts
  <1>9. ContentCommits' /\ DerivedCommits'
    <2>1. SUFFICES ASSUME pc' \in CommitOrAfter
                   PROVE  ContentCommits' /\ DerivedCommits'
      BY DEF ContentCommits, DerivedCommits
    <2>2. /\ UNCHANGED <<disk, next, flush, truncating, rtContent>>
          /\ pc' = pc \/ (pc = "committed" /\ pc' = "prune")
      BY <1>1, <2>1
    <2> QED
      BY <1>2, <2>2 DEF ImportInv, ContentCommits, DerivedCommits, CommitOrAfter, CommitPoints
  <1>10. CommitEnds'
    BY <1>1, <1>2 DEF ImportInv, CommitEnds, Committed, CommitOrAfter, CommitPoints
  <1>11. SettledAgrees'
    <2>1. SUFFICES ASSUME Settled'
                   PROVE  /\ Agree(disk, manifest', DiskManifest)
                          /\ rtContent' = Replays(disk, LogFiles(DiskManifest), DiskManifest)
      BY <1>1, <1>2 DEF SettledAgrees
    <2>2. CASE Settled /\ UNCHANGED <<manifest, rtContent>>
      BY <2>2 DEF ImportInv, SettledAgrees
    <2>3. CASE pc = "boot" /\ ~ HasManifest(disk) /\ manifest' = CurrentManifest(disk)
                   /\ rtContent' = {}
      BY <2>3, NothingOnDisk, AgreeIsMutual DEF ImportInv, DiskManifest
    <2>4. CASE pc \in {"recover", "reloadReplay"} /\ UNCHANGED manifest
                   /\ rtContent' = Recovered(disk, manifest)
      <3>1. manifest = DiskManifest
        BY <2>4 DEF ImportInv, BootReads
      <3>2. OneRecord(RecordsOf(disk, LogFiles(DiskManifest)))
        BY <2>4 DEF ImportInv, LogInForce, Appending, Uncommitted, SoundLog, SoundRecords
      <3>3. Recovered(disk, DiskManifest) = Replays(disk, LogFiles(DiskManifest), DiskManifest)
        BY <3>2, ManifestsAtHand, RecoveredIsReplayed
      <3> QED
        BY <2>4, <3>1, <3>3, AgreeIsMutual
    <2>5. CASE pc = "apply" /\ manifest' = next /\ rtContent' = rtContent \cup {Batch}
      <3>1. flush = "none" /\ DiskManifest = next
        BY <2>5 DEF FlushRuns, FlushSteps, CommitOrAfter, CommitPoints, ImportInv, CommitEnds,
           Committed
      <3>2. rtContent \cup {Batch} = Replays(disk, LogFiles(next), next)
        BY <2>5, <3>1 DEF ImportInv, MutationCommits, OneBehind
      <3> QED
        BY <2>5, <3>1, <3>2, AgreeIsMutual
    <2>6. CASE pc \in {"committed", "prune"} /\ manifest' = next /\ UNCHANGED rtContent
      <3>1. flush \in {"content", "derived"} /\ DiskManifest = next
        BY <2>6 DEF FlushRuns, ImportInv, CommitEnds, Committed, IInv, TypeInv, TypeOK
      <3>2. flush = "content" => rtContent = Replays(disk, LogFiles(next), next)
        BY <2>6, NothingLogged DEF ImportInv, ContentCommits, CommitOrAfter
      <3>3. flush = "derived" => rtContent = Replays(disk, LogFiles(next), next)
        BY <2>6, <3>1 DEF ImportInv, DerivedCommits, CommitOrAfter
      <3> QED
        BY <2>6, <3>1, <3>2, <3>3, AgreeIsMutual
    <2> QED
      BY <1>3, <1>4, <2>1, <2>2, <2>3, <2>4, <2>5, <2>6, QuietSettles DEF ImportInv
  <1> QED
    BY <1>5, <1>7, <1>8, <1>9, <1>10, <1>11 DEF ImportInv

LEMMA StepImport ==
    ASSUME ImportAssumption, IInv, FlushRuns, ImportInv, [Next]_vars
    PROVE  ImportInv'
  <1>1. "truncate" \notin ThrowAt
    BY DEF ImportAssumption
  <1> QED
    BY <1>1, WriteOrQuiet, AppendImport, ContentImport, DerivedImport, CloseImport, BackupImport,
       PrimaryImport, TruncateImport, PruneImport, QuietImport DEF WritesFiles

LEMMA InitImport == Init => ImportInv
  <1> SUFFICES ASSUME Init
               PROVE  ImportInv
    OBVIOUS
  <1>1. /\ disk = [f \in {} |-> EmptyManifest] /\ pc = "down" /\ flush = "none"
        /\ rtContent = {}
    BY DEF Init
  <1>2. DOMAIN disk = {} /\ DiskManifest = EmptyManifest
    BY <1>1 DEF DiskManifest, CurrentManifest
  <1>3. ActiveRecords(disk) = <<>>
    BY <1>2 DEF ActiveRecords
  <1>4. SoundLog(disk, DiskManifest)
    BY <1>2, <1>3, EmptyFields, EmptyLogIsSound
  <1>5. LogInForce /\ FreshLog
    BY <1>3, <1>4 DEF LogInForce, FreshLog
  <1>6. MutationCommits /\ ContentCommits /\ DerivedCommits /\ CommitEnds
    BY <1>1 DEF MutationCommits, ContentCommits, DerivedCommits, CommitEnds, Committed,
       CommitOrAfter, CommitPoints
  <1>7. SettledAgrees /\ ImportForgets /\ BootReads
    BY <1>1 DEF SettledAgrees, Settled, ImportForgets, Importing, BootReads, NoReset
  <1> QED
    BY <1>5, <1>6, <1>7 DEF ImportInv

\* Also with imports (importDatabase), a runtime that answers between tasks holds
\* exactly the content that a restart would rebuild: the image and the mutations
\* made after it, and none of what was there before.  The page may go away at any
\* point but a truncation or the commit of a mutation, also between an image and
\* its commit, and awaits may reject where no commit is on its way.
THEOREM ImportsKeepWhatIsServed ==
    ASSUME ImportAssumption
    PROVE  Spec => []ServedIsRecoverable
  <1>0. ResetRemoves
    BY DEF ResetRemoves, ImportAssumption
  <1> DEFINE Inv == IInv /\ FlushRuns /\ ImportInv
  <1>1. Init => Inv
    <2>1. Init => FlushRuns
      BY DEF Init, FlushRuns
    <2> QED
      BY <1>0, <2>1, InitIInv, InitImport
  <1>2. Inv /\ [Next]_vars => Inv'
    BY StepIInv, FlushRunsStep, StepImport
  <1>3. Inv => ServedIsRecoverable
    <2> SUFFICES ASSUME IInv, FlushRuns, ImportInv, pc = "idle", rtUp
                 PROVE  rtContent = DurableContent
      BY DEF ServedIsRecoverable
    <2>1. rtContent = Replays(disk, LogFiles(DiskManifest), DiskManifest)
      BY DEF ImportInv, SettledAgrees, Settled
    <2>2. CASE HasManifest(disk)
      <3>1. OneRecord(RecordsOf(disk, LogFiles(DiskManifest)))
        BY DEF ImportInv, LogInForce, Appending, Uncommitted, SoundLog, SoundRecords
      <3>2. Recovered(disk, DiskManifest) = Replays(disk, LogFiles(DiskManifest), DiskManifest)
        BY <3>1, ManifestsAtHand, RecoveredIsReplayed
      <3> QED
        BY <2>1, <2>2, <3>2, DiskRecoverable DEF DurableContent
    <2>3. CASE ~ HasManifest(disk)
      BY <2>1, <2>3, NothingOnDisk DEF ImportInv, DurableContent
    <2> QED
      BY <2>2, <2>3
  <1> HIDE DEF Inv
  <1> QED
    BY <1>1, <1>2, <1>3, PTL DEF Spec

=============================================================================
