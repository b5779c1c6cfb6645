------------------------ MODULE PhoenixStoreContent ------------------------
(***************************************************************************)
(* What content a restart rebuilds: exactly one record for each sequence   *)
(* number that the manifest in force has handed out, for every value of    *)
(* the constants without imports, with crashes anywhere and with the       *)
(* rejections after which the service's memory still agrees with the disk. *)
(***************************************************************************)
EXTENDS PhoenixStoreFiles, WellFoundedInduction

-----------------------------------------------------------------------------
(* What recovery makes of a log. *)

\* The records in a set of files.
RecordsOf(d, F) == UNION {{d[f][k] : k \in DOMAIN d[f]} : f \in F \cap DOMAIN d}

\* Exactly one record for each sequence number below `n`.
OneRecordEach(content, n) ==
    /\ {r.seq : r \in content} = 1 .. n - 1
    /\ \A r1, r2 \in content : r1.seq = r2.seq => r1 = r2

\* The files hold a record for every number that `m` has handed out since its
\* checkpoint.
Covers(d, F, m) ==
    m.lastCheckpointSeq + 1 .. m.nextSeq - 1 \subseteq {r.seq : r \in RecordsOf(d, F)}

\* The checkpoint of `m` holds the numbers before those.
Founded(d, m) ==
    /\ m.lastCheckpointSeq < m.nextSeq
    /\ OneRecordEach(CheckpointContent(d, m), m.lastCheckpointSeq + 1)
    /\ \A s \in m.closed : s.endSeq < m.nextSeq

LEMMA NatLeast ==
    ASSUME NEW S \in SUBSET Nat, S # {}
    PROVE  \E n \in S : \A k \in S : n <= k
  <1>1. PICK n \in S : \A k \in S : ~ (<<k, n>> \in OpToRel(<, Nat))
    BY NatLessThanWellFounded, WFMin
  <1>2. \A k \in S : ~ (k < n)
    BY <1>1 DEF OpToRel
  <1> QED
    BY <1>2

\* A position is a record of a closed segment or of the active log.
LEMMA PositionType ==
    ASSUME NEW d, DiskOK(d), NEW m \in Manifests, NEW p \in LogPositions(d, m)
    PROVE  /\ p = <<p[1], p[2]>>
           /\ p[1] \in LogFiles(m) \cap DOMAIN d
           /\ p[2] \in DOMAIN d[p[1]]
           /\ p[2] \in Nat
           /\ p[1] # ActiveLog => /\ p[1] = <<"segment", p[1][2], p[1][3]>>
                                  /\ p[1][2] \in Nat /\ p[1][3] \in Nat
  <1>1. PICK f \in LogFiles(m) \cap DOMAIN d : p \in {f} \X DOMAIN d[f]
    BY DEF LogPositions
  <1>2. p = <<p[1], p[2]>> /\ p[1] = f /\ p[2] \in DOMAIN d[f]
    BY <1>1
  <1>3. f \in {ActiveLog} \cup SegmentFiles
    BY FileNames DEF LogFiles, Manifests
  <1>4. DOMAIN d[f] \subseteq Nat
    BY <1>3 DEF DiskOK, FileType
  <1> QED
    BY <1>2, <1>3, <1>4 DEF SegmentFiles

\* The scan meets any two positions in one order or the other.
LEMMA PositionsOrdered ==
    ASSUME NEW d, DiskOK(d), NEW m \in Manifests,
           NEW p \in LogPositions(d, m), NEW q \in LogPositions(d, m),
           ~ ReadBefore(p, q), ~ ReadBefore(q, p)
    PROVE  p = q
  <1>1. p[1] = q[1]
    <2>1. CASE p[1] = ActiveLog \/ q[1] = ActiveLog
      BY <2>1 DEF ReadBefore, FileBefore
    <2>2. CASE p[1] # ActiveLog /\ q[1] # ActiveLog
      <3>1. /\ p[1][2] \in Nat /\ p[1][3] \in Nat /\ q[1][2] \in Nat /\ q[1][3] \in Nat
            /\ p[1] = <<"segment", p[1][2], p[1][3]>> /\ q[1] = <<"segment", q[1][2], q[1][3]>>
        BY <2>2, PositionType
      <3>2. p[1][2] = q[1][2] /\ p[1][3] = q[1][3]
        BY <2>2, <3>1 DEF ReadBefore, FileBefore
      <3> QED
        BY <3>1, <3>2
    <2> QED
      BY <2>1, <2>2
  <1>2. p[2] = q[2]
    BY <1>1, PositionType DEF ReadBefore
  <1> QED
    BY <1>1, <1>2, PositionType

\* Among any positions the scan meets one first.
LEMMA FirstPosition ==
    ASSUME NEW d, DiskOK(d), NEW m \in Manifests,
           NEW P \in SUBSET LogPositions(d, m), P # {}
    PROVE  \E p \in P : \A q \in P : ~ ReadBefore(q, p)
  <1>1. \A p \in P : /\ p[2] \in Nat
                     /\ p[1] # ActiveLog => p[1][2] \in Nat /\ p[1][3] \in Nat
    BY PositionType
  <1>2. CASE \A p \in P : p[1] = ActiveLog
    <2>1. {p[2] : p \in P} \in SUBSET Nat /\ {p[2] : p \in P} # {}
      BY <1>1
    <2>2. PICK p \in P : \A q \in P : p[2] <= q[2]
      <3>1. PICK n \in {p[2] : p \in P} : \A k \in {p[2] : p \in P} : n <= k
        BY <2>1, NatLeast
      <3>2. PICK p \in P : p[2] = n
        OBVIOUS
      <3> QED
        BY <3>1, <3>2
    <2>3. \A q \in P : ~ (q[2] < p[2])
      BY <1>1, <2>2
    <2> QED
      BY <1>2, <2>3 DEF ReadBefore, FileBefore
  <1>3. CASE \E p \in P : p[1] # ActiveLog
    <2> DEFINE Closed == {p \in P : p[1] # ActiveLog}
    <2>1. {p[1][2] : p \in Closed} \in SUBSET Nat /\ {p[1][2] : p \in Closed} # {}
      BY <1>1, <1>3
    <2>2. PICK a \in Closed : \A q \in Closed : a[1][2] <= q[1][2]
      <3> DEFINE T == {p[1][2] : p \in Closed}
      <3>1. PICK n \in T : \A k \in T : n <= k
        BY <2>1, NatLeast
      <3>2. PICK p \in Closed : p[1][2] = n
        OBVIOUS
      <3> QED
        BY <3>1, <3>2
    <2> DEFINE Starts == {p \in Closed : p[1][2] = a[1][2]}
    <2>3. {p[1][3] : p \in Starts} \in SUBSET Nat /\ {p[1][3] : p \in Starts} # {}
      BY <1>1
    <2>4. PICK b \in Starts : \A q \in Starts : b[1][3] <= q[1][3]
      <3> DEFINE T == {p[1][3] : p \in Starts}
      <3>1. PICK n \in T : \A k \in T : n <= k
        BY <2>3, NatLeast
      <3>2. PICK p \in Starts : p[1][3] = n
        OBVIOUS
      <3> QED
        BY <3>1, <3>2
    <2> DEFINE Ends == {p \in Starts : p[1][3] = b[1][3]}
    <2>5. {p[2] : p \in Ends} \in SUBSET Nat /\ {p[2] : p \in Ends} # {}
      BY <1>1
    <2>6. PICK p \in Ends : \A q \in Ends : p[2] <= q[2]
      <3> DEFINE T == {p[2] : p \in Ends}
      <3>1. PICK n \in T : \A k \in T : n <= k
        BY <2>5, NatLeast
      <3>2. PICK p \in Ends : p[2] = n
        OBVIOUS
      <3> QED
        BY <3>1, <3>2
    <2>7. SUFFICES ASSUME NEW q \in P, ReadBefore(q, p)
                   PROVE  FALSE
      OBVIOUS
    <2>8. p[1] # ActiveLog /\ p[1][2] = a[1][2] /\ p[1][3] = b[1][3]
      OBVIOUS
    <2>9. CASE p[1] = q[1] /\ q[2] < p[2]
      <3>1. q \in Ends
        BY <2>8, <2>9
      <3> QED
        BY <1>1, <2>6, <2>9, <3>1
    <2>10. CASE FileBefore(q[1], p[1])
      <3>1. q \in Closed
        BY <2>10 DEF FileBefore
      <3>2. ~ (q[1][2] < p[1][2])
        BY <1>1, <2>2, <2>8, <3>1
      <3>3. q[1][2] = p[1][2] /\ q[1][3] < p[1][3]
        BY <2>8, <2>10, <3>2 DEF FileBefore
      <3>4. q \in Starts
        BY <2>8, <3>1, <3>3
      <3> QED
        BY <1>1, <2>4, <2>8, <3>1, <3>3, <3>4
    <2> QED
      BY <2>7, <2>9, <2>10 DEF ReadBefore
  <1> QED
    BY <1>2, <1>3

LEMMA RecordsAtPositions ==
    ASSUME NEW d, NEW m
    PROVE  RecordsOf(d, LogFiles(m)) = {RecordAt(d, p) : p \in LogPositions(d, m)}
  <1>1. ASSUME NEW r \in RecordsOf(d, LogFiles(m))
        PROVE  \E p \in LogPositions(d, m) : r = RecordAt(d, p)
    <2>1. PICK f \in LogFiles(m) \cap DOMAIN d : \E k \in DOMAIN d[f] : r = d[f][k]
      BY <1>1 DEF RecordsOf
    <2>2. PICK k \in DOMAIN d[f] : r = d[f][k]
      BY <2>1
    <2>3. <<f, k>> \in LogPositions(d, m)
      BY DEF LogPositions
    <2>4. RecordAt(d, <<f, k>>) = r
      BY <2>2 DEF RecordAt
    <2> QED
      BY <2>3, <2>4
  <1>2. ASSUME NEW p \in LogPositions(d, m)
        PROVE  RecordAt(d, p) \in RecordsOf(d, LogFiles(m))
    BY DEF LogPositions, RecordsOf, RecordAt
  <1> QED
    BY <1>1, <1>2

\* A checkpoint with the numbers below it and a log that covers those above it
\* are recovered to exactly one record for each: of the records with one number
\* the scan takes the first and drops the others.
LEMMA RecoversOnce ==
    ASSUME NEW d, DiskOK(d), NEW m \in Manifests,
           Founded(d, m), Covers(d, LogFiles(m), m)
    PROVE  OneRecordEach(Recovered(d, m), m.nextSeq)
  <1> DEFINE ckpt == CheckpointContent(d, m)
             last == m.lastCheckpointSeq
             replayed == {RecordAt(d, p) : p \in ReplayedPositions(d, m)}
  <1>1. last \in Nat /\ m.nextSeq \in Nat /\ last < m.nextSeq
    BY DEF Manifests, Founded
  <1>2. \A p \in LogPositions(d, m) : RecordAt(d, p).seq \in Nat
    BY RecordAtType DEF Records
  <1>3. \A p \in ReplayedPositions(d, m) :
            /\ p \in LogPositions(d, m)
            /\ RecordAt(d, p).seq \in last + 1 .. m.nextSeq - 1
    BY <1>1, <1>2 DEF ReplayedPositions
  <1>4. \A r \in ckpt : r.seq \in 1 .. last
    BY <1>1 DEF Founded, OneRecordEach
  <1>5. \A n \in 1 .. last : \E r \in ckpt : r.seq = n
    BY <1>1 DEF Founded, OneRecordEach
  <1>6. ASSUME NEW n \in last + 1 .. m.nextSeq - 1
        PROVE  \E p \in ReplayedPositions(d, m) : RecordAt(d, p).seq = n
    <2> DEFINE P == {p \in LogPositions(d, m) : RecordAt(d, p).seq = n}
    <2>1. P # {}
      BY RecordsAtPositions DEF Covers
    <2>2. PICK p \in P : \A q \in P : ~ ReadBefore(q, p)
      BY <2>1, FirstPosition
    <2>3. p \in ReplayedPositions(d, m)
      BY <1>1, <2>2 DEF ReplayedPositions
    <2> QED
      BY <2>3
  <1>7. ASSUME NEW p \in ReplayedPositions(d, m), NEW q \in ReplayedPositions(d, m),
               RecordAt(d, p).seq = RecordAt(d, q).seq
        PROVE  p = q
    <2>1. ~ ReadBefore(p, q) /\ ~ ReadBefore(q, p)
      BY <1>3, <1>7 DEF ReplayedPositions
    <2> QED
      BY <1>3, <2>1, PositionsOrdered
  <1>8. Recovered(d, m) = ckpt \cup replayed
    BY DEF Recovered
  <1>9. {r.seq : r \in ckpt \cup replayed} = 1 .. m.nextSeq - 1
    <2>1. \A r \in ckpt \cup replayed : r.seq \in 1 .. m.nextSeq - 1
      BY <1>1, <1>3, <1>4
    <2>2. ASSUME NEW n \in 1 .. m.nextSeq - 1
          PROVE  \E r \in ckpt \cup replayed : r.seq = n
      <3>1. n \in 1 .. last \/ n \in last + 1 .. m.nextSeq - 1
        BY <1>1
      <3> QED
        BY <1>5, <1>6, <3>1
    <2> QED
      BY <2>1, <2>2
  <1>10. ASSUME NEW r1 \in ckpt \cup replayed, NEW r2 \in ckpt \cup replayed, r1.seq = r2.seq
         PROVE  r1 = r2
    <2>1. CASE r1 \in ckpt /\ r2 \in ckpt
      BY <1>10, <2>1 DEF Founded, OneRecordEach
    <2>2. CASE r1 \in replayed /\ r2 \in replayed
      BY <1>7, <1>10, <2>2
    <2>3. \A r \in ckpt : \A s \in replayed : r.seq # s.seq
      BY <1>1, <1>3, <1>4
    <2> QED
      BY <1>10, <2>1, <2>2, <2>3
  <1> QED
    BY <1>8, <1>9, <1>10 DEF OneRecordEach

-----------------------------------------------------------------------------
(* The invariant: what the files, the manifest being committed and the      *)
(* runtime hold, between any two steps.                                     *)

\* The rejections after which the service's memory still agrees with the disk.
BenignThrows ==
    {"append", "close", "backup", "primary", "truncate", "apply", "import", "loadDerived",
     "clearDerived", "writeContent", "exportDerived", "writeDerived", "prune"}

HasPrimary == ManifestFile \in DOMAIN disk

\* Before and after the primary manifest of a commit is written.
Uncommitted == pc \in {"close", "backup", "primary"}
Committed == pc \in {"truncate", "apply", "committed", "prune"}

\* Two manifests that are recovered to the same content.
Agree(d, m, n) ==
    /\ m.nextSeq = n.nextSeq
    /\ m.lastCheckpointSeq = n.lastCheckpointSeq
    /\ m.activeCount = n.activeCount
    /\ m.closed = n.closed
    /\ CheckpointContent(d, m) = CheckpointContent(d, n)

\* A manifest of nothing.
Blank(d, m) ==
    /\ m.nextSeq = 1
    /\ m.lastCheckpointSeq = 0
    /\ m.activeCount = 0
    /\ m.closed = {}
    /\ CheckpointContent(d, m) = {}

\* A restart finds a record for each number that the manifest in force gave out.
SoundDisk ==
    /\ Founded(disk, DiskManifest)
    /\ Covers(disk, LogFiles(DiskManifest), DiskManifest)

\* So will it when the manifest being committed is; until its segments are
\* closed, in the files that it shares with the one in force.
SoundNext ==
    Uncommitted =>
        /\ Founded(disk, next)
        /\ pc = "close" => Covers(disk, LogFiles(next) \cap LogFiles(DiskManifest), next)
        /\ pc # "close" => Covers(disk, LogFiles(next), next)

\* A commit that is to truncate the active log does not need its records.
SafeTruncation ==
    (pc = "truncate" \/ (truncating /\ pc \in {"backup", "primary"})) =>
        Covers(disk, LogFiles(next) \ {ActiveLog}, next)

\* The manifest in memory is the one in force, but for its generation, except
\* while a commit ends.
MemoryAgrees ==
    /\ pc \in {"recover", "idle", "append", "close", "backup", "writeContent", "exportDerived",
               "writeDerived", "reloadReplay", "loadDerived", "clearDerived"}
       \/ (pc = "primary" /\ HasPrimary)
          => Agree(disk, manifest, DiskManifest)
    /\ (pc = "primary" /\ ~ HasPrimary) => DiskManifest = next
    /\ Committed => DiskManifest = next /\ HasPrimary

\* While the write of a first primary copy may be rejected, only checkpoints of
\* nothing have come as far as the backup, but for a mutation about to commit.
StillBlank ==
    ("primary" \in ThrowAt /\ ~ HasPrimary) =>
        /\ ~ (flush = "none" /\ pc = "primary") => Blank(disk, DiskManifest)
        /\ (flush # "none" /\ Uncommitted) => Blank(disk, manifest) /\ Blank(disk, next)

\* How a commit moves on from the manifest in memory.
CommitShape ==
    /\ (flush # "none" /\ Uncommitted) =>
          /\ next.nextSeq = manifest.nextSeq
          /\ next.closed \subseteq manifest.closed
          /\ \/ next.activeCount = manifest.activeCount
             \/ next.lastCheckpointSeq = next.nextSeq - 1
    /\ (flush # "none" /\ Committed) => next.nextSeq = manifest.nextSeq
    /\ (flush = "none" /\ (Uncommitted \/ Committed)) =>
          /\ next.nextSeq = manifest.nextSeq + 1
          /\ \/ next.closed = manifest.closed /\ next.activeCount > 0
             \/ \E s \in Segments : /\ s.endSeq = manifest.nextSeq
                                    /\ next.closed = manifest.closed \cup {s}
    /\ (flush # "none" /\ pc \in CommitOrAfter) =>
          prune \cap {ManifestFile, ManifestBak, ActiveLog} = {}

\* The points at which a runtime does not hold what it should.
Unserving == {"down", "boot", "recover", "reset", "import"} \cup ReloadPoints

ServesOnce ==
    /\ (rtUp /\ pc \notin Unserving) => OneRecordEach(rtContent, manifest.nextSeq)
    /\ pc \in {"down", "boot"} => rtContent = {}

NoReset == pc # "reset"

ContentInv ==
    /\ SoundDisk
    /\ SoundNext
    /\ SafeTruncation
    /\ MemoryAgrees
    /\ StillBlank
    /\ CommitShape
    /\ ServesOnce
    /\ NoReset

-----------------------------------------------------------------------------
(* What a write leaves alone. *)

\* The manifests at hand, and the checkpoints they name.
LEMMA ManifestsAtHand ==
    ASSUME IInv
    PROVE  /\ DiskOK(disk)
           /\ DiskManifest \in Manifests /\ manifest \in Manifests /\ next \in Manifests
           /\ DiskManifest.checkpointFile \in DOMAIN disk \cup {NoFile}
           /\ pc \notin {"reset", "prune"} => manifest.checkpointFile \in DOMAIN disk \cup {NoFile}
           /\ pc \in (CommitOrAfter \cup {"apply"}) =>
                 next.checkpointFile \in DOMAIN disk \cup {NoFile}
  <1>1. /\ DiskOK(disk)
        /\ DiskManifest \in Manifests /\ manifest \in Manifests /\ next \in Manifests
    BY CurrentManifestType DEF IInv, TypeInv, TypeOK, DiskOK, DiskManifest
  <1>2. DiskManifest.checkpointFile \in DOMAIN disk \cup {NoFile}
    BY CurrentManifestRefers DEF IInv, DiskManifest, References
  <1>3. pc \notin {"reset", "prune"} => manifest.checkpointFile \in DOMAIN disk \cup {NoFile}
    BY DEF IInv, MemoryRefersToDisk, References
  <1>4. next.checkpointFile \notin {FileOf(s) : s \in next.closed}
    BY <1>1, FileNames, FileKinds DEF Manifests
  <1>5. pc \in (CommitOrAfter \cup {"apply"}) =>
            next.checkpointFile \in DOMAIN disk \cup {NoFile}
    BY <1>4 DEF IInv, NextRefersToDisk, References
  <1> QED
    BY <1>1, <1>2, <1>3, <1>5

\* No manifest names its checkpoint like another kind of file.
LEMMA CheckpointFileKind ==
    ASSUME NEW m \in Manifests
    PROVE  m.checkpointFile \notin {ManifestFile, ManifestBak, ActiveLog}
                                      \cup SegmentFiles \cup DerivedCheckpointFiles
  BY FileKinds DEF Manifests, FileIds

LEMMA LogFileKind ==
    ASSUME NEW m \in Manifests
    PROVE  LogFiles(m) \subseteq SegmentFiles \cup {ActiveLog}
  BY FileNames DEF Manifests, LogFiles

\* A manifest whose checkpoint is left alone is founded on it as before.
LEMMA SameCheckpoint ==
    ASSUME NEW d, NEW e, NEW m,
           \/ m.checkpointFile = NoFile
           \/ e[m.checkpointFile] = d[m.checkpointFile]
    PROVE  /\ CheckpointContent(e, m) = CheckpointContent(d, m)
           /\ Founded(d, m) => Founded(e, m)
           /\ Blank(d, m) => Blank(e, m)
  <1>1. CheckpointContent(e, m) = CheckpointContent(d, m)
    BY DEF CheckpointContent
  <1> QED
    BY <1>1 DEF Founded, Blank

\* A log that is left alone covers what it did.
LEMMA SameRecords ==
    ASSUME NEW d, NEW e, NEW F, NEW G,
           \A f \in F \cap DOMAIN d : f \in G \cap DOMAIN e /\ e[f] = d[f]
    PROVE  /\ RecordsOf(d, F) \subseteq RecordsOf(e, G)
           /\ \A m : Covers(d, F, m) => Covers(e, G, m)
  <1>1. RecordsOf(d, F) \subseteq RecordsOf(e, G)
    BY DEF RecordsOf
  <1> QED
    BY <1>1 DEF Covers

\* Manifests that agree are recovered alike.
LEMMA AgreeSound ==
    ASSUME NEW d, NEW m, NEW n, Agree(d, m, n), Founded(d, n), Covers(d, LogFiles(n), n)
    PROVE  Founded(d, m) /\ Covers(d, LogFiles(m), m)
  BY DEF Agree, Founded, Covers, LogFiles

LEMMA BlanksAgree ==
    ASSUME NEW d, NEW m, NEW n, Blank(d, m)
    PROVE  Blank(d, n) => Agree(d, m, n)
  BY DEF Agree, Blank

LEMMA AgreeIsMutual ==
    ASSUME NEW d, NEW m, NEW n
    PROVE  /\ Agree(d, m, m)
           /\ Agree(d, m, n) => Agree(d, n, m)
           /\ Agree(d, m, n) /\ Blank(d, n) => Blank(d, m)
  BY DEF Agree, Blank

-----------------------------------------------------------------------------
(* The steps that write files. *)

\* An append adds its record to the log and changes nothing else.
LEMMA AppendWrites ==
    ASSUME IInv, AppendWal
    PROVE  /\ DiskManifest' = DiskManifest /\ (HasPrimary' <=> HasPrimary)
           /\ CheckpointContent(disk', DiskManifest) = CheckpointContent(disk, DiskManifest)
           /\ CheckpointContent(disk', manifest) = CheckpointContent(disk, manifest)
           /\ CheckpointContent(disk', next') = CheckpointContent(disk, manifest)
           /\ \A F : ActiveLog \in F => RecordsOf(disk', F) = RecordsOf(disk, F) \cup {Batch}
  <1> DEFINE log == Append(ActiveRecords(disk), Batch)
  <1>1. pc = "append" /\ disk' = WithFile(disk, ActiveLog, log)
    BY DEF AppendWal
  <1>2. /\ \A f \in DOMAIN disk : f # ActiveLog => f \in DOMAIN disk' /\ disk'[f] = disk[f]
        /\ DOMAIN disk' = DOMAIN disk \cup {ActiveLog}
        /\ disk'[ActiveLog] = log
    BY <1>1 DEF WithFile
  <1>3. DiskManifest' = DiskManifest /\ (HasPrimary' <=> HasPrimary)
    BY <1>2, FileKinds DEF DiskManifest, CurrentManifest, HasPrimary
  <1>4. /\ ActiveRecords(disk) \in Seq(Records) /\ Batch \in Records
        /\ \A k \in DOMAIN ActiveRecords(disk) : k \in DOMAIN log /\ log[k] = ActiveRecords(disk)[k]
        /\ \A k \in DOMAIN log :
              \/ log[k] = Batch
              \/ k \in DOMAIN ActiveRecords(disk) /\ log[k] = ActiveRecords(disk)[k]
        /\ \E k \in DOMAIN log : log[k] = Batch
    <2>1. ActiveRecords(disk) \in Seq(Records) /\ Batch \in Records
      BY <1>1, ManifestsAtHand, ActiveRecordsType, BatchType DEF IInv, TypeInv, JobHere
    <2>2. Len(ActiveRecords(disk)) \in Nat /\ Len(log) = Len(ActiveRecords(disk)) + 1
      BY <2>1
    <2>3. log[Len(log)] = Batch /\ Len(log) \in DOMAIN log
      BY <2>1, <2>2
    <2>4. \A k \in DOMAIN ActiveRecords(disk) : k \in DOMAIN log /\ log[k] = ActiveRecords(disk)[k]
      BY <2>1
    <2>5. \A k \in DOMAIN log : k = Len(log) \/ k \in DOMAIN ActiveRecords(disk)
      BY <2>1, <2>2
    <2> QED
      BY <2>1, <2>3, <2>4, <2>5
  <1> HIDE DEF log
  <1>5. ASSUME NEW F, ActiveLog \in F
        PROVE  RecordsOf(disk', F) = RecordsOf(disk, F) \cup {Batch}
    <2>1. Batch \in RecordsOf(disk', F)
      BY <1>2, <1>4, <1>5 DEF RecordsOf
    <2>2. ASSUME NEW f \in F \cap DOMAIN disk, NEW k \in DOMAIN disk[f]
          PROVE  disk[f][k] \in RecordsOf(disk', F)
      <3>1. CASE f = ActiveLog
        <4>1. disk[f] = ActiveRecords(disk)
          BY <2>2, <3>1 DEF ActiveRecords
        <4>2. disk'[f] = log
          BY <1>2, <3>1
        <4>3. k \in DOMAIN disk'[f] /\ disk'[f][k] = disk[f][k]
          BY <1>4, <4>1, <4>2
        <4> QED
          BY <1>2, <4>3 DEF RecordsOf
      <3>2. CASE f # ActiveLog
        BY <1>2, <3>2 DEF RecordsOf
      <3> QED
        BY <3>1, <3>2
    <2>3. ASSUME NEW f \in F \cap DOMAIN disk', NEW k \in DOMAIN disk'[f]
          PROVE  disk'[f][k] \in RecordsOf(disk, F) \cup {Batch}
      <3>1. CASE f = ActiveLog
        <4>1. k \in DOMAIN log /\ disk'[f][k] = log[k]
          BY <1>2, <2>3, <3>1
        <4>2. CASE log[k] = Batch
          BY <4>1, <4>2
        <4>3. CASE k \in DOMAIN ActiveRecords(disk) /\ log[k] = ActiveRecords(disk)[k]
          <5>1. ActiveLog \in DOMAIN disk
            BY <4>3 DEF ActiveRecords
          <5> QED
            BY <1>5, <4>1, <4>3, <5>1 DEF ActiveRecords, RecordsOf
        <4> QED
          BY <1>4, <4>1, <4>2, <4>3
      <3>2. CASE f # ActiveLog
        BY <1>2, <2>3, <3>2 DEF RecordsOf
      <3> QED
        BY <3>1, <3>2
    <2>4. RecordsOf(disk, F) \subseteq RecordsOf(disk', F)
      BY <2>2 DEF RecordsOf
    <2>5. RecordsOf(disk', F) \subseteq RecordsOf(disk, F) \cup {Batch}
      BY <2>3 DEF RecordsOf
    <2> QED
      BY <2>1, <2>4, <2>5
  <1>6. /\ CheckpointContent(disk', DiskManifest) = CheckpointContent(disk, DiskManifest)
        /\ CheckpointContent(disk', manifest) = CheckpointContent(disk, manifest)
    BY <1>1, <1>2, SameCheckpoint, ManifestsAtHand, CheckpointFileKind
  <1>7. CheckpointContent(disk', next') = CheckpointContent(disk', manifest)
    BY AppendKeeps DEF CheckpointContent
  <1> QED
    BY <1>3, <1>5, <1>6, <1>7

\* The record appended is the one number that the manifest in force lacks.
LEMMA AppendContent ==
    ASSUME IInv, FlushRuns, ContentInv, AppendWal
    PROVE  ContentInv'
  <1>1. /\ pc = "append" /\ pc' = "close" /\ flush = "none"
        /\ UNCHANGED <<manifest, rtUp, rtContent, truncating, flush>>
    BY DEF AppendWal, runtimeVars, serviceVars, FlushRuns, FlushSteps, CommitOrAfter, CommitPoints
  <1>3. DiskManifest' = DiskManifest /\ (HasPrimary' <=> HasPrimary)
    BY AppendWrites
  <1>5. \A F : ActiveLog \in F => RecordsOf(disk, F) \cup {Batch} \subseteq RecordsOf(disk', F)
    BY AppendWrites
  <1>6. /\ CheckpointContent(disk', DiskManifest) = CheckpointContent(disk, DiskManifest)
        /\ CheckpointContent(disk', manifest) = CheckpointContent(disk, manifest)
        /\ CheckpointContent(disk', next') = CheckpointContent(disk, manifest)
        /\ Founded(disk, DiskManifest) => Founded(disk', DiskManifest)
        /\ Blank(disk, DiskManifest) => Blank(disk', DiskManifest)
    BY AppendWrites DEF Founded, Blank
  <1>7. Agree(disk, manifest, DiskManifest) /\ Agree(disk', manifest, DiskManifest)
    BY <1>1, <1>6 DEF ContentInv, MemoryAgrees, Agree
  <1>8. Founded(disk, DiskManifest) /\ Covers(disk, LogFiles(DiskManifest), DiskManifest)
    BY DEF ContentInv, SoundDisk
  <1>9. SoundDisk'
    BY <1>3, <1>5, <1>6, <1>8 DEF SoundDisk, Covers, LogFiles
  <1>10. /\ next'.checkpointFile = manifest.checkpointFile
         /\ next'.lastCheckpointSeq = manifest.lastCheckpointSeq
         /\ next'.nextSeq = manifest.nextSeq + 1
         /\ \/ next'.closed = manifest.closed /\ next'.activeCount = DiskManifest.activeCount + 1
            \/ \E s \in Segments : /\ s.endSeq = manifest.nextSeq
                                   /\ next'.closed = manifest.closed \cup {s}
    BY AppendKeeps DEF DiskManifest
  <1>11. /\ manifest.nextSeq \in Nat /\ manifest.lastCheckpointSeq \in Nat
         /\ DiskManifest.activeCount \in Nat
    BY ManifestsAtHand DEF Manifests
  <1>12. Founded(disk', next')
    <2>1. CheckpointContent(disk', next') = CheckpointContent(disk, DiskManifest)
      BY <1>6, <1>7 DEF Agree
    <2>2. OneRecordEach(CheckpointContent(disk', next'), next'.lastCheckpointSeq + 1)
      BY <1>7, <1>8, <1>10, <2>1 DEF Founded, Agree
    <2>3. manifest.lastCheckpointSeq < manifest.nextSeq
      BY <1>7, <1>8 DEF Founded, Agree
    <2>4. \A s \in DiskManifest.closed : s \in Segments /\ s.endSeq < DiskManifest.nextSeq
      BY <1>8, ManifestsAtHand DEF Founded, Manifests
    <2>5. \A s \in next'.closed : s.endSeq \in Nat /\ s.endSeq < manifest.nextSeq + 1
      BY <1>7, <1>10, <1>11, <2>4 DEF Agree, Segments
    <2> QED
      BY <1>10, <1>11, <2>2, <2>3, <2>5 DEF Founded
  <1>13. Covers(disk', LogFiles(next') \cap LogFiles(DiskManifest), next')
    <2> DEFINE F == LogFiles(next') \cap LogFiles(DiskManifest)
    <2>1. F = LogFiles(DiskManifest) /\ ActiveLog \in F
      BY <1>7, <1>10 DEF Agree, LogFiles
    <2>2. RecordsOf(disk, F) \cup {Batch} \subseteq RecordsOf(disk', F)
      BY <1>5, <2>1
    <2>3. manifest.lastCheckpointSeq + 1 .. manifest.nextSeq - 1
              \subseteq {r.seq : r \in RecordsOf(disk, F)}
      BY <1>7, <1>8, <2>1 DEF Covers, Agree
    <2>4. Batch.seq = manifest.nextSeq
      BY DEF Batch
    <2> HIDE DEF F
    <2>5. ASSUME NEW n \in manifest.lastCheckpointSeq + 1 .. manifest.nextSeq
          PROVE  n \in {r.seq : r \in RecordsOf(disk', F)}
      <3>1. CASE n = manifest.nextSeq
        BY <2>2, <2>4, <3>1
      <3>2. CASE n # manifest.nextSeq
        <4>1. n \in manifest.lastCheckpointSeq + 1 .. manifest.nextSeq - 1
          BY <1>11, <3>2
        <4> QED
          BY <2>2, <2>3, <4>1
      <3> QED
        BY <3>1, <3>2
    <2>6. next'.nextSeq - 1 = manifest.nextSeq
      BY <1>10, <1>11
    <2> QED
      BY <1>10, <2>5, <2>6 DEF Covers, F
  <1>14. SoundNext' /\ SafeTruncation' /\ NoReset'
    BY <1>1, <1>3, <1>12, <1>13 DEF SoundNext, SafeTruncation, NoReset
  <1>15. MemoryAgrees'
    BY <1>1, <1>3, <1>7 DEF MemoryAgrees, Committed
  <1>16. StillBlank'
    BY <1>1, <1>3, <1>6 DEF StillBlank, ContentInv
  <1>17. CommitShape'
    BY <1>1, <1>10, <1>11 DEF CommitShape
  <1>18. ServesOnce'
    BY <1>1 DEF ServesOnce, Unserving, ReloadPoints, ContentInv
  <1> QED
    BY <1>9, <1>14, <1>15, <1>16, <1>17, <1>18 DEF ContentInv

\* A content checkpoint's file is not the one that a restart would read now, or
\* there is no content yet.
LEMMA ContentCheckpointWrites ==
    ASSUME IInv, FlushRuns, ManifestsNameOld, DiskNoYounger, ContentInv, WriteContentCheckpoint
    PROVE  /\ DiskManifest' = DiskManifest /\ (HasPrimary' <=> HasPrimary)
           /\ CheckpointContent(disk', DiskManifest) = CheckpointContent(disk, DiskManifest)
           /\ CheckpointContent(disk', manifest) = CheckpointContent(disk, manifest)
           /\ CheckpointContent(disk', next') = rtContent
           /\ RecordsOf(disk', LogFiles(DiskManifest)) = RecordsOf(disk, LogFiles(DiskManifest))
           /\ ("primary" \in ThrowAt /\ ~ HasPrimary) =>
                 Blank(disk, DiskManifest) /\ Blank(disk, manifest) /\ rtContent = {}
  <1> DEFINE file == ContentCheckpointFile(manifest.generation + 1)
             lastSeq == manifest.nextSeq - 1
  <1>1. /\ pc = "writeContent" /\ pc' = "close" /\ flush = "content" /\ rtUp
        /\ UNCHANGED <<manifest, rtUp, rtContent, truncating, flush>>
        /\ disk' = WithFile(disk, file, rtContent)
        /\ next' = FinalizeContentCheckpointManifest(manifest, file, lastSeq)
        /\ prune' = ContentPruneFiles(manifest, file, lastSeq)
    BY DEF WriteContentCheckpoint, runtimeVars, serviceVars, FlushRuns
  <1>2. /\ file \in ContentCheckpointFiles
        /\ file \notin {ManifestFile, ManifestBak, ActiveLog, NoFile} \cup SegmentFiles
        /\ manifest.generation \in Nat
    <2>1. manifest.generation \in Nat /\ manifest.generation + 1 \in Nat
      BY ManifestsAtHand DEF Manifests
    <2> QED
      BY <2>1, FileNames, FileKinds
  <1>3. /\ next'.checkpointFile = file
        /\ next'.lastCheckpointSeq = lastSeq
        /\ next'.nextSeq = manifest.nextSeq
        /\ next'.activeCount = 0
        /\ next'.closed \subseteq manifest.closed
    BY <1>1, ManifestsAtHand, ContentFields
  <1>4. /\ manifest.checkpointFile # file
        /\ HasPrimary \/ "primary" \notin ThrowAt => DiskManifest.checkpointFile # file
    <2>1. manifest.checkpointFile # file
      <3>1. file[2] = manifest.generation + 1
        BY <1>2 DEF ContentCheckpointFile
      <3>2. manifest.checkpointFile # NoFile =>
                /\ manifest.checkpointFile[2] \in Nat
                /\ manifest.checkpointFile[2] <= manifest.generation
        BY ManifestsAtHand DEF ManifestsNameOld, NamesOld, Manifests, ContentCheckpointFiles
      <3> QED
        BY <1>2, <3>1, <3>2
    <2>2. HasPrimary \/ "primary" \notin ThrowAt => DiskManifest.checkpointFile # file
      BY <1>1, <1>2, NewCheckpointName DEF HasPrimary, References
    <2> QED
      BY <2>1, <2>2
  <1>5. /\ \A f \in DOMAIN disk : f # file => f \in DOMAIN disk' /\ disk'[f] = disk[f]
        /\ DOMAIN disk' = DOMAIN disk \cup {file}
        /\ disk'[file] = rtContent
    BY <1>1 DEF WithFile
  <1> HIDE DEF file
  <1>6. DiskManifest' = DiskManifest /\ (HasPrimary' <=> HasPrimary)
    BY <1>2, <1>5 DEF DiskManifest, CurrentManifest, HasPrimary
  <1>7. /\ Agree(disk, manifest, DiskManifest)
        /\ Founded(disk, DiskManifest) /\ Covers(disk, LogFiles(DiskManifest), DiskManifest)
        /\ OneRecordEach(rtContent, manifest.nextSeq)
        /\ manifest.nextSeq \in Nat
    BY <1>1, ManifestsAtHand
       DEF ContentInv, MemoryAgrees, SoundDisk, ServesOnce, Unserving, ReloadPoints, Manifests
  <1>8. ("primary" \in ThrowAt /\ ~ HasPrimary) =>
            /\ Blank(disk, DiskManifest) /\ Blank(disk, manifest)
            /\ rtContent = {}
    <2>1. ("primary" \in ThrowAt /\ ~ HasPrimary) => Blank(disk, DiskManifest)
      BY <1>1 DEF ContentInv, StillBlank
    <2>2. Blank(disk, DiskManifest) => Blank(disk, manifest)
      BY <1>7, AgreeIsMutual
    <2>3. Blank(disk, manifest) => rtContent = {}
      <3>1. ASSUME manifest.nextSeq = 1
            PROVE  {r.seq : r \in rtContent} = {}
        BY <1>7, <3>1 DEF OneRecordEach
      <3> QED
        BY <3>1 DEF Blank
    <2> QED
      BY <2>1, <2>2, <2>3
  <1>9. /\ CheckpointContent(disk', manifest) = CheckpointContent(disk, manifest)
        /\ CheckpointContent(disk', DiskManifest) = CheckpointContent(disk, DiskManifest)
    <2>1. CheckpointContent(disk', manifest) = CheckpointContent(disk, manifest)
      BY <1>1, <1>4, <1>5, ManifestsAtHand DEF CheckpointContent
    <2>2. CASE DiskManifest.checkpointFile # file
      BY <1>5, <2>1, <2>2, ManifestsAtHand DEF CheckpointContent
    <2>3. CASE DiskManifest.checkpointFile = file
      <3>1. Blank(disk, DiskManifest) /\ rtContent = {}
        BY <1>4, <1>8, <2>3
      <3>2. CheckpointContent(disk, DiskManifest) = {}
        BY <3>1 DEF Blank
      <3>3. CheckpointContent(disk', DiskManifest) = rtContent
        BY <1>2, <1>5, <2>3 DEF CheckpointContent
      <3> QED
        BY <2>1, <3>1, <3>2, <3>3
    <2> QED
      BY <2>2, <2>3
  <1>10. RecordsOf(disk', LogFiles(DiskManifest)) = RecordsOf(disk, LogFiles(DiskManifest))
    <2>1. file \notin LogFiles(DiskManifest)
      BY <1>2, ManifestsAtHand, LogFileKind
    <2> QED
      BY <1>5, <2>1 DEF RecordsOf
  <1>11. CheckpointContent(disk', next') = rtContent
    BY <1>2, <1>3, <1>5 DEF CheckpointContent
  <1> QED
    BY <1>6, <1>8, <1>9, <1>10, <1>11

LEMMA ContentCheckpointContent ==
    ASSUME IInv, FlushRuns, ManifestsNameOld, DiskNoYounger, ContentInv, WriteContentCheckpoint
    PROVE  ContentInv'
  <1> DEFINE file == ContentCheckpointFile(manifest.generation + 1)
             lastSeq == manifest.nextSeq - 1
  <1>1. /\ pc = "writeContent" /\ pc' = "close" /\ flush = "content" /\ rtUp
        /\ UNCHANGED <<manifest, rtUp, rtContent, truncating, flush>>
        /\ next' = FinalizeContentCheckpointManifest(manifest, file, lastSeq)
        /\ prune' = ContentPruneFiles(manifest, file, lastSeq)
    BY DEF WriteContentCheckpoint, runtimeVars, serviceVars, FlushRuns
  <1>3. /\ next'.lastCheckpointSeq = lastSeq
        /\ next'.nextSeq = manifest.nextSeq
        /\ next'.activeCount = 0
        /\ next'.closed \subseteq manifest.closed
    BY <1>1, ManifestsAtHand, ContentFields
  <1> HIDE DEF file
  <1>6. DiskManifest' = DiskManifest /\ (HasPrimary' <=> HasPrimary)
    BY ContentCheckpointWrites
  <1>7. /\ Agree(disk, manifest, DiskManifest)
        /\ Founded(disk, DiskManifest) /\ Covers(disk, LogFiles(DiskManifest), DiskManifest)
        /\ OneRecordEach(rtContent, manifest.nextSeq)
        /\ manifest.nextSeq \in Nat
    BY <1>1, ManifestsAtHand
       DEF ContentInv, MemoryAgrees, SoundDisk, ServesOnce, Unserving, ReloadPoints, Manifests
  <1>8. ("primary" \in ThrowAt /\ ~ HasPrimary) =>
            Blank(disk, DiskManifest) /\ Blank(disk, manifest) /\ rtContent = {}
    BY ContentCheckpointWrites
  <1>9. /\ CheckpointContent(disk', manifest) = CheckpointContent(disk, manifest)
        /\ CheckpointContent(disk', DiskManifest) = CheckpointContent(disk, DiskManifest)
        /\ CheckpointContent(disk', next') = rtContent
    BY ContentCheckpointWrites
  <1>10. SoundDisk'
    BY <1>6, <1>7, <1>9, ContentCheckpointWrites DEF SoundDisk, Founded, Covers
  <1>11. Founded(disk', next') /\ \A F : Covers(disk', F, next')
    <2>2. next'.lastCheckpointSeq + 1 = manifest.nextSeq
      BY <1>3, <1>7
    <2>3. \A s \in next'.closed : s.endSeq < manifest.nextSeq
      BY <1>3, <1>7 DEF Agree, Founded
    <2>4. next'.lastCheckpointSeq < next'.nextSeq
      BY <1>3, <1>7
    <2>5. Founded(disk', next')
      BY <1>3, <1>7, <1>9, <2>2, <2>3, <2>4 DEF Founded
    <2>6. next'.lastCheckpointSeq + 1 .. next'.nextSeq - 1 = {}
      BY <1>3, <1>7, <2>2
    <2> QED
      BY <2>5, <2>6 DEF Covers
  <1>12. SoundNext' /\ SafeTruncation' /\ NoReset'
    BY <1>1, <1>11 DEF SoundNext, SafeTruncation, NoReset
  <1>13. MemoryAgrees'
    BY <1>1, <1>6, <1>7, <1>9 DEF MemoryAgrees, Committed, Agree
  <1>14. StillBlank'
    <2>1. ASSUME "primary" \in ThrowAt, ~ HasPrimary
          PROVE  /\ Blank(disk', DiskManifest) /\ Blank(disk', manifest)
                 /\ Blank(disk', next')
      <3>1. Blank(disk', DiskManifest) /\ Blank(disk', manifest)
        BY <1>8, <1>9, <2>1 DEF Blank
      <3>2. CheckpointContent(disk', next') = {}
        BY <1>8, <1>9, <2>1
      <3>3. lastSeq = 0 /\ manifest.nextSeq = 1 /\ manifest.closed = {}
        BY <1>8, <2>1 DEF Blank
      <3> QED
        BY <1>3, <3>1, <3>2, <3>3 DEF Blank
    <2> QED
      BY <1>1, <1>6, <2>1 DEF StillBlank
  <1>15. CommitShape'
    <2>1. prune' \cap {ManifestFile, ManifestBak, ActiveLog} = {}
      <3>1. \A s \in manifest.closed : FileOf(s) \in SegmentFiles
        BY ManifestsAtHand, FileNames DEF Manifests
      <3> QED
        BY <1>1, <3>1, ManifestsAtHand, CheckpointFileKind, FileKinds
           DEF ContentPruneFiles, Reclaimed
    <2> QED
      BY <1>1, <1>3, <2>1 DEF CommitShape, Committed
  <1>16. ServesOnce'
    BY <1>1, <1>7 DEF ServesOnce
  <1> QED
    BY <1>10, <1>12, <1>13, <1>14, <1>15, <1>16 DEF ContentInv

\* A derived checkpoint changes nothing that content is recovered from.
LEMMA DerivedCheckpointWrites ==
    ASSUME IInv, WriteDerivedCheckpoint
    PROVE  /\ DiskManifest' = DiskManifest /\ (HasPrimary' <=> HasPrimary)
           /\ CheckpointContent(disk', DiskManifest) = CheckpointContent(disk, DiskManifest)
           /\ CheckpointContent(disk', manifest) = CheckpointContent(disk, manifest)
           /\ CheckpointContent(disk', next') = CheckpointContent(disk, manifest)
           /\ RecordsOf(disk', LogFiles(DiskManifest)) = RecordsOf(disk, LogFiles(DiskManifest))
  <1> DEFINE file == DerivedCheckpointFile(manifest.generation + 1)
  <1>1. /\ pc = "writeDerived"
        /\ disk' = WithFile(disk, file, exported)
        /\ next' = FinalizeDerivedCheckpointManifest(manifest, file)
    BY DEF WriteDerivedCheckpoint
  <1>2. /\ file \in DerivedCheckpointFiles
        /\ file \notin {ManifestFile, ManifestBak, ActiveLog, NoFile} \cup SegmentFiles
    <2>1. manifest.generation + 1 \in Nat
      BY ManifestsAtHand DEF Manifests
    <2> QED
      BY <2>1, FileNames, FileKinds
  <1>3. next'.checkpointFile = manifest.checkpointFile
    BY <1>1, ManifestsAtHand, DerivedFields
  <1>4. /\ \A f \in DOMAIN disk : f # file => f \in DOMAIN disk' /\ disk'[f] = disk[f]
        /\ DOMAIN disk' = DOMAIN disk \cup {file}
    BY <1>1 DEF WithFile
  <1> HIDE DEF file
  <1>5. DiskManifest' = DiskManifest /\ (HasPrimary' <=> HasPrimary)
    BY <1>2, <1>4 DEF DiskManifest, CurrentManifest, HasPrimary
  <1>7. /\ CheckpointContent(disk', manifest) = CheckpointContent(disk, manifest)
        /\ CheckpointContent(disk', DiskManifest) = CheckpointContent(disk, DiskManifest)
    <2>1. manifest.checkpointFile # file /\ DiskManifest.checkpointFile # file
      BY <1>2, ManifestsAtHand, CheckpointFileKind
    <2> QED
      BY <1>1, <1>4, <2>1, ManifestsAtHand DEF CheckpointContent
  <1>8. CheckpointContent(disk', next') = CheckpointContent(disk', manifest)
    BY <1>3 DEF CheckpointContent
  <1>9. RecordsOf(disk', LogFiles(DiskManifest)) = RecordsOf(disk, LogFiles(DiskManifest))
    <2>1. file \notin LogFiles(DiskManifest)
      BY <1>2, ManifestsAtHand, LogFileKind, FileKinds
    <2> QED
      BY <1>4, <2>1 DEF RecordsOf
  <1> QED
    BY <1>5, <1>7, <1>8, <1>9

LEMMA DerivedCheckpointContent ==
    ASSUME IInv, FlushRuns, ContentInv, WriteDerivedCheckpoint
    PROVE  ContentInv'
  <1> DEFINE file == DerivedCheckpointFile(manifest.generation + 1)
  <1>1. /\ pc = "writeDerived" /\ pc' = "close" /\ flush = "derived"
        /\ UNCHANGED <<manifest, rtUp, rtContent, truncating, flush>>
        /\ next' = FinalizeDerivedCheckpointManifest(manifest, file)
        /\ prune' = DerivedPruneFiles(manifest, file)
    BY DEF WriteDerivedCheckpoint, runtimeVars, serviceVars, FlushRuns
  <1>3. /\ next'.lastCheckpointSeq = manifest.lastCheckpointSeq
        /\ next'.nextSeq = manifest.nextSeq
        /\ next'.activeCount = manifest.activeCount
        /\ next'.closed = manifest.closed
    BY <1>1, ManifestsAtHand, DerivedFields
  <1> HIDE DEF file
  <1>5. DiskManifest' = DiskManifest /\ (HasPrimary' <=> HasPrimary)
    BY DerivedCheckpointWrites
  <1>6. /\ Agree(disk, manifest, DiskManifest)
        /\ Founded(disk, DiskManifest) /\ Covers(disk, LogFiles(DiskManifest), DiskManifest)
    BY <1>1 DEF ContentInv, MemoryAgrees, SoundDisk
  <1>8. Agree(disk', manifest, DiskManifest) /\ Agree(disk', next', DiskManifest)
    BY <1>3, <1>6, DerivedCheckpointWrites DEF Agree
  <1>9. Founded(disk', DiskManifest) /\ Covers(disk', LogFiles(DiskManifest), DiskManifest)
    BY <1>6, DerivedCheckpointWrites DEF Founded, Covers
  <1>10. Founded(disk', next') /\ Covers(disk', LogFiles(next'), next')
    BY <1>8, <1>9, AgreeSound
  <1>11. LogFiles(next') \cap LogFiles(DiskManifest) = LogFiles(next')
    BY <1>8 DEF Agree, LogFiles
  <1>12. SoundDisk' /\ SoundNext' /\ SafeTruncation' /\ NoReset'
    BY <1>1, <1>5, <1>9, <1>10, <1>11 DEF SoundDisk, SoundNext, SafeTruncation, NoReset
  <1>13. MemoryAgrees'
    BY <1>1, <1>5, <1>8 DEF MemoryAgrees, Committed
  <1>14. StillBlank'
    <2>1. ("primary" \in ThrowAt /\ ~ HasPrimary) => Blank(disk', DiskManifest)
      BY <1>1, DerivedCheckpointWrites DEF ContentInv, StillBlank, Blank
    <2>2. Blank(disk', DiskManifest) => Blank(disk', manifest) /\ Blank(disk', next')
      BY <1>8, AgreeIsMutual
    <2> QED
      BY <1>1, <1>5, <2>1, <2>2 DEF StillBlank
  <1>15. CommitShape'
    <2>1. prune' \cap {ManifestFile, ManifestBak, ActiveLog} = {}
      <3>1. manifest.derivedFile \in DerivedCheckpointFiles \cup {NoFile}
        BY ManifestsAtHand DEF Manifests
      <3> QED
        BY <1>1, <3>1, FileKinds DEF DerivedPruneFiles
    <2> QED
      BY <1>1, <1>3, <2>1 DEF CommitShape, Committed
  <1>16. ServesOnce'
    BY <1>1 DEF ServesOnce, Unserving, ReloadPoints, ContentInv
  <1> QED
    BY <1>12, <1>13, <1>14, <1>15, <1>16 DEF ContentInv

\* A closed segment is a copy of the log that the manifest in force still reads.
LEMMA CloseWrites ==
    ASSUME IInv, CloseSegments
    PROVE  /\ DiskManifest' = DiskManifest /\ (HasPrimary' <=> HasPrimary)
           /\ \A m \in {DiskManifest, manifest, next} :
                 CheckpointContent(disk', m) = CheckpointContent(disk, m)
           /\ RecordsOf(disk', LogFiles(DiskManifest)) = RecordsOf(disk, LogFiles(DiskManifest))
           /\ \A f \in LogFiles(DiskManifest) :
                 /\ f \in DOMAIN disk' <=> f \in DOMAIN disk
                 /\ f \in DOMAIN disk => disk'[f] = disk[f]
           /\ ActiveRecords(disk) # <<>> =>
                 \A f \in AppendedClosed(disk, next) :
                     f \in DOMAIN disk' /\ disk'[f] = ActiveRecords(disk)
           /\ AppendedClosed(disk, next) \subseteq SegmentFiles
           /\ LogFiles(next) \subseteq LogFiles(DiskManifest) \cup AppendedClosed(disk, next)
  <1>1. pc = "close" /\ disk' = WithClosedSegments(disk, next)
    BY DEF CloseSegments
  <1>2. /\ DiskManifest \in Manifests /\ manifest \in Manifests /\ next \in Manifests
        /\ DiskOK(disk)
    BY ManifestsAtHand
  <1>3. AppendedClosed(disk, next) = {FileOf(s) : s \in next.closed}
                                         \ {FileOf(s) : s \in DiskManifest.closed}
    BY DEF AppendedClosed, DiskManifest
  <1>4. AppendedClosed(disk, next) \subseteq SegmentFiles
    BY <1>2, <1>3, FileNames DEF Manifests
  <1>5. /\ \A f \in DOMAIN disk : f \notin AppendedClosed(disk, next) =>
              f \in DOMAIN disk' /\ disk'[f] = disk[f]
        /\ ActiveRecords(disk) # <<>> =>
              \A f \in AppendedClosed(disk, next) :
                  f \in DOMAIN disk' /\ disk'[f] = ActiveRecords(disk)
        /\ \A f \in DOMAIN disk' : f \in DOMAIN disk \/ f \in AppendedClosed(disk, next)
    BY <1>1 DEF WithClosedSegments, WithFiles
  <1>6. ManifestFile \notin SegmentFiles /\ ManifestBak \notin SegmentFiles
            /\ ActiveLog \notin SegmentFiles
    BY FileKinds
  <1>7. DiskManifest' = DiskManifest /\ (HasPrimary' <=> HasPrimary)
    BY <1>4, <1>5, <1>6 DEF DiskManifest, CurrentManifest, HasPrimary
  <1>8. ASSUME NEW m \in {DiskManifest, manifest, next}
        PROVE  CheckpointContent(disk', m) = CheckpointContent(disk, m)
    <2>1. m.checkpointFile \in DOMAIN disk \cup {NoFile}
      BY <1>1, ManifestsAtHand DEF CommitOrAfter, CommitPoints
    <2>2. m.checkpointFile \notin AppendedClosed(disk, next)
      BY <1>2, <1>4, CheckpointFileKind
    <2> QED
      BY <1>5, <2>1, <2>2, SameCheckpoint
  <1>9. \A f \in LogFiles(DiskManifest) : f \notin AppendedClosed(disk, next)
    BY <1>3, <1>4, <1>6 DEF LogFiles
  <1>10. \A f \in LogFiles(DiskManifest) :
             /\ f \in DOMAIN disk' <=> f \in DOMAIN disk
             /\ f \in DOMAIN disk => disk'[f] = disk[f]
    BY <1>5, <1>9
  <1>11. RecordsOf(disk', LogFiles(DiskManifest)) = RecordsOf(disk, LogFiles(DiskManifest))
    BY <1>10 DEF RecordsOf
  <1>12. LogFiles(next) \subseteq LogFiles(DiskManifest) \cup AppendedClosed(disk, next)
    BY <1>3 DEF LogFiles
  <1> QED
    BY <1>4, <1>5, <1>7, <1>8, <1>10, <1>11, <1>12

LEMMA CloseContent ==
    ASSUME IInv, FlushRuns, ContentInv, CloseSegments
    PROVE  ContentInv'
  <1>1. /\ pc = "close" /\ pc' = "backup"
        /\ UNCHANGED <<manifest, next, rtUp, rtContent, flush, prune>>
        /\ truncating' = ShouldTruncateActive(disk, next)
    BY DEF CloseSegments, runtimeVars, serviceVars
  <1>2. /\ DiskManifest \in Manifests /\ manifest \in Manifests /\ next \in Manifests
        /\ DiskOK(disk)
    BY ManifestsAtHand
  <1>3. AppendedClosed(disk, next) = {FileOf(s) : s \in next.closed}
                                         \ {FileOf(s) : s \in DiskManifest.closed}
    BY DEF AppendedClosed, DiskManifest
  <1>6. ActiveLog \notin AppendedClosed(disk, next)
    BY FileKinds, CloseWrites
  <1>7. DiskManifest' = DiskManifest /\ (HasPrimary' <=> HasPrimary)
    BY CloseWrites
  <1>8. \A m \in {DiskManifest, manifest, next} :
            /\ CheckpointContent(disk', m) = CheckpointContent(disk, m)
            /\ Founded(disk, m) => Founded(disk', m)
            /\ Blank(disk, m) => Blank(disk', m)
    BY CloseWrites DEF Founded, Blank
  <1>9. /\ Agree(disk, manifest, DiskManifest)
        /\ Founded(disk, DiskManifest) /\ Covers(disk, LogFiles(DiskManifest), DiskManifest)
        /\ Founded(disk, next)
        /\ Covers(disk, LogFiles(next) \cap LogFiles(DiskManifest), next)
    BY <1>1 DEF ContentInv, MemoryAgrees, SoundDisk, SoundNext, Uncommitted
  <1>10. \A f \in LogFiles(DiskManifest) \cap DOMAIN disk : f \in DOMAIN disk' /\ disk'[f] = disk[f]
    BY CloseWrites
  <1>11. SoundDisk'
    <2>1. Covers(disk', LogFiles(DiskManifest), DiskManifest)
      BY <1>9, <1>10, SameRecords
    <2> QED
      BY <1>7, <1>8, <1>9, <2>1 DEF SoundDisk
  <1>12. SoundNext'
    <2>1. Covers(disk', LogFiles(next), next)
      BY <1>9, <1>10, SameRecords
    <2> QED
      BY <1>1, <1>8, <1>9, <2>1 DEF SoundNext
  <1>13. SafeTruncation'
    <2>1. CASE AppendedClosed(disk, next) # {}
      <3>1. ASSUME NEW f \in LogFiles(next) \cap LogFiles(DiskManifest) \cap DOMAIN disk,
                   NEW k \in DOMAIN disk[f]
            PROVE  disk[f][k] \in RecordsOf(disk', LogFiles(next) \ {ActiveLog})
        <4>1. CASE f = ActiveLog
          <5>1. PICK g \in AppendedClosed(disk, next) : TRUE
            BY <2>1
          <5>2. disk[f] = ActiveRecords(disk)
            BY <3>1, <4>1 DEF ActiveRecords
          <5>3. disk[f] \in Seq(Records)
            BY <1>2, <5>2, ActiveRecordsType
          <5>4. ActiveRecords(disk) # <<>>
            BY <3>1, <5>2, <5>3
          <5>5. g \in DOMAIN disk' /\ disk'[g] = disk[f]
            BY <5>2, <5>4, CloseWrites
          <5>6. g \in LogFiles(next) \ {ActiveLog}
            BY <1>3, <1>6 DEF LogFiles
          <5> QED
            BY <5>5, <5>6 DEF RecordsOf
        <4>2. CASE f # ActiveLog
          BY <1>10, <3>1, <4>2 DEF RecordsOf
        <4> QED
          BY <4>1, <4>2
      <3>2. RecordsOf(disk, LogFiles(next) \cap LogFiles(DiskManifest))
                \subseteq RecordsOf(disk', LogFiles(next) \ {ActiveLog})
        BY <3>1 DEF RecordsOf
      <3>3. Covers(disk', LogFiles(next) \ {ActiveLog}, next)
        BY <1>9, <3>2 DEF Covers
      <3> QED
        BY <1>1, <3>3 DEF SafeTruncation
    <2>2. CASE AppendedClosed(disk, next) = {} /\ DiskManifest.activeCount > 0
                   /\ next.activeCount = 0
      <3>1. /\ DiskManifest.activeCount = manifest.activeCount
            /\ manifest.nextSeq = DiskManifest.nextSeq
            /\ manifest.nextSeq \in Nat /\ next.nextSeq \in Nat
        BY <1>2, <1>9 DEF Agree, Manifests
      <3>2. flush # "none"
        <4>1. SUFFICES ASSUME flush = "none"
                       PROVE  FALSE
          OBVIOUS
        <4>2. PICK s \in Segments : /\ s.endSeq = manifest.nextSeq
                                    /\ next.closed = manifest.closed \cup {s}
          BY <1>1, <2>2, <4>1 DEF ContentInv, CommitShape, Uncommitted
        <4>3. PICK r \in DiskManifest.closed : FileOf(r) = FileOf(s)
          BY <1>3, <2>2, <4>2
        <4>4. r \in Segments /\ r.endSeq < DiskManifest.nextSeq
          BY <1>2, <1>9 DEF Founded, Manifests
        <4>5. r.endSeq = s.endSeq
          BY <4>3, <4>4, FileNames
        <4> QED
          BY <3>1, <4>2, <4>4, <4>5
      <3>3. next.lastCheckpointSeq = next.nextSeq - 1
        BY <1>1, <2>2, <3>1, <3>2 DEF ContentInv, CommitShape, Uncommitted
      <3>4. next.lastCheckpointSeq + 1 .. next.nextSeq - 1 = {}
        BY <3>1, <3>3
      <3>5. Covers(disk', LogFiles(next) \ {ActiveLog}, next)
        BY <3>4 DEF Covers
      <3> QED
        BY <1>1, <3>5 DEF SafeTruncation
    <2> QED
      BY <1>1, <2>1, <2>2 DEF SafeTruncation, ShouldTruncateActive, DiskManifest
  <1>14. MemoryAgrees'
    BY <1>1, <1>7, <1>8, <1>9 DEF MemoryAgrees, Committed, Agree
  <1>15. StillBlank'
    BY <1>1, <1>7, <1>8 DEF StillBlank, ContentInv, Uncommitted
  <1>16. CommitShape'
    BY <1>1 DEF CommitShape, ContentInv, Uncommitted, Committed, CommitOrAfter, CommitPoints
  <1>17. ServesOnce' /\ NoReset'
    BY <1>1 DEF ServesOnce, Unserving, ReloadPoints, NoReset, ContentInv
  <1> QED
    BY <1>11, <1>12, <1>13, <1>14, <1>15, <1>16, <1>17 DEF ContentInv

\* A backup is in force at once only when there is no primary copy.
LEMMA BackupWrites ==
    ASSUME IInv, WriteBackup
    PROVE  /\ HasPrimary' <=> HasPrimary
           /\ HasPrimary => DiskManifest' = DiskManifest
           /\ ~ HasPrimary => DiskManifest' = next
           /\ \A m \in {DiskManifest, manifest, next} :
                 CheckpointContent(disk', m) = CheckpointContent(disk, m)
           /\ \A m \in {DiskManifest, next} : \A F \in SUBSET LogFiles(m) :
                 RecordsOf(disk', F) = RecordsOf(disk, F)
  <1>1. pc = "backup" /\ disk' = WithFile(disk, ManifestBak, next)
    BY DEF WriteBackup
  <1>2. /\ \A f \in DOMAIN disk : f # ManifestBak => f \in DOMAIN disk' /\ disk'[f] = disk[f]
        /\ DOMAIN disk' = DOMAIN disk \cup {ManifestBak}
        /\ disk'[ManifestBak] = next
    BY <1>1 DEF WithFile
  <1>3. /\ HasPrimary' <=> HasPrimary
        /\ HasPrimary => DiskManifest' = DiskManifest
        /\ ~ HasPrimary => DiskManifest' = next
    BY <1>2, FileKinds DEF DiskManifest, CurrentManifest, HasPrimary
  <1>4. ASSUME NEW m \in {DiskManifest, manifest, next}
        PROVE  CheckpointContent(disk', m) = CheckpointContent(disk, m)
    <2>1. m.checkpointFile \in DOMAIN disk \cup {NoFile} /\ m \in Manifests
      BY <1>1, ManifestsAtHand DEF CommitOrAfter, CommitPoints
    <2> QED
      BY <1>2, <2>1, SameCheckpoint, CheckpointFileKind
  <1>5. ASSUME NEW m \in {DiskManifest, next}, NEW F \in SUBSET LogFiles(m)
        PROVE  RecordsOf(disk', F) = RecordsOf(disk, F)
    <2>1. ManifestBak \notin F
      BY ManifestsAtHand, LogFileKind, FileKinds
    <2> QED
      BY <1>2, <2>1 DEF RecordsOf
  <1> QED
    BY <1>3, <1>4, <1>5

LEMMA BackupContent ==
    ASSUME IInv, FlushRuns, ContentInv, WriteBackup
    PROVE  ContentInv'
  <1>1. /\ pc = "backup" /\ pc' = "primary"
        /\ UNCHANGED <<manifest, next, rtUp, rtContent, flush, prune, truncating>>
    BY DEF WriteBackup, runtimeVars, serviceVars, frameVars
  <1>3. /\ HasPrimary' <=> HasPrimary
        /\ HasPrimary => DiskManifest' = DiskManifest
        /\ ~ HasPrimary => DiskManifest' = next
    BY BackupWrites
  <1>4. \A m \in {DiskManifest, manifest, next} :
            /\ CheckpointContent(disk', m) = CheckpointContent(disk, m)
            /\ Founded(disk, m) => Founded(disk', m)
            /\ Blank(disk, m) => Blank(disk', m)
    BY BackupWrites DEF Founded, Blank
  <1>5. \A m \in {DiskManifest, next} : \A F \in SUBSET LogFiles(m) :
            Covers(disk, F, m) => Covers(disk', F, m)
    BY BackupWrites DEF Covers
  <1>6. /\ Agree(disk, manifest, DiskManifest)
        /\ Founded(disk, DiskManifest) /\ Covers(disk, LogFiles(DiskManifest), DiskManifest)
        /\ Founded(disk, next) /\ Covers(disk, LogFiles(next), next)
    BY <1>1 DEF ContentInv, MemoryAgrees, SoundDisk, SoundNext, Uncommitted
  <1>7. SoundDisk' /\ SoundNext'
    BY <1>1, <1>3, <1>4, <1>5, <1>6 DEF SoundDisk, SoundNext
  <1>8. SafeTruncation'
    BY <1>1, <1>5 DEF SafeTruncation, ContentInv
  <1>9. MemoryAgrees'
    BY <1>1, <1>3, <1>4, <1>6 DEF MemoryAgrees, Committed, Agree
  <1>10. StillBlank'
    BY <1>1, <1>3, <1>4 DEF StillBlank, ContentInv, Uncommitted
  <1>11. CommitShape'
    BY <1>1 DEF CommitShape, ContentInv, Uncommitted, Committed, CommitOrAfter, CommitPoints
  <1>12. ServesOnce' /\ NoReset'
    BY <1>1 DEF ServesOnce, Unserving, ReloadPoints, NoReset, ContentInv
  <1> QED
    BY <1>7, <1>8, <1>9, <1>10, <1>11, <1>12 DEF ContentInv

\* The primary copy puts the manifest being committed in force.
LEMMA PrimaryWrites ==
    ASSUME IInv, WritePrimary
    PROVE  /\ HasPrimary' /\ DiskManifest' = next
           /\ CheckpointContent(disk', next) = CheckpointContent(disk, next)
           /\ \A F \in SUBSET LogFiles(next) : RecordsOf(disk', F) = RecordsOf(disk, F)
  <1>1. pc = "primary" /\ disk' = WithFile(disk, ManifestFile, next)
    BY DEF WritePrimary
  <1>2. /\ \A f \in DOMAIN disk : f # ManifestFile => f \in DOMAIN disk' /\ disk'[f] = disk[f]
        /\ DOMAIN disk' = DOMAIN disk \cup {ManifestFile}
        /\ disk'[ManifestFile] = next
    BY <1>1 DEF WithFile
  <1>3. HasPrimary' /\ DiskManifest' = next
    BY <1>2 DEF DiskManifest, CurrentManifest, HasPrimary
  <1>4. CheckpointContent(disk', next) = CheckpointContent(disk, next)
    <2>1. next.checkpointFile \in DOMAIN disk \cup {NoFile} /\ next \in Manifests
      BY <1>1, ManifestsAtHand DEF CommitOrAfter, CommitPoints
    <2> QED
      BY <1>2, <2>1, SameCheckpoint, CheckpointFileKind
  <1>5. ASSUME NEW F \in SUBSET LogFiles(next)
        PROVE  RecordsOf(disk', F) = RecordsOf(disk, F)
    <2>1. ManifestFile \notin F
      BY ManifestsAtHand, LogFileKind, FileKinds
    <2> QED
      BY <1>2, <2>1 DEF RecordsOf
  <1> QED
    BY <1>3, <1>4, <1>5

LEMMA PrimaryContent ==
    ASSUME IInv, FlushRuns, ContentInv, WritePrimary
    PROVE  ContentInv'
  <1>1. /\ pc = "primary" /\ pc' \in Points
        /\ pc' = IF truncating THEN "truncate" ELSE AfterCommit
        /\ pc' \in {"truncate", "apply", "committed"}
        /\ UNCHANGED <<manifest, next, rtUp, rtContent, flush, prune, truncating>>
    BY DEF WritePrimary, runtimeVars, serviceVars, frameVars, AfterCommit, Points, CommitPoints,
           FlushPoints
  <1>3. HasPrimary' /\ DiskManifest' = next
    BY PrimaryWrites
  <1>4. Founded(disk', next)
    BY <1>1, PrimaryWrites DEF ContentInv, SoundNext, Uncommitted, Founded
  <1>5. \A F \in SUBSET LogFiles(next) : Covers(disk, F, next) => Covers(disk', F, next)
    BY PrimaryWrites DEF Covers
  <1>6. SoundDisk'
    <2>1. Covers(disk, LogFiles(next), next)
      BY <1>1 DEF ContentInv, SoundNext, Uncommitted
    <2> QED
      BY <1>3, <1>4, <1>5, <2>1 DEF SoundDisk
  <1>7. SafeTruncation'
    <2>1. CASE pc' = "truncate"
      <3>1. truncating
        BY <1>1, <2>1 DEF AfterCommit
      <3>2. Covers(disk, LogFiles(next) \ {ActiveLog}, next)
        BY <1>1, <3>1 DEF SafeTruncation, ContentInv
      <3> QED
        BY <1>1, <1>5, <3>2 DEF SafeTruncation
    <2>2. CASE pc' # "truncate"
      BY <1>1, <2>2 DEF SafeTruncation
    <2> QED
      BY <2>1, <2>2
  <1>8. SoundNext' /\ MemoryAgrees' /\ StillBlank'
    BY <1>1, <1>3 DEF SoundNext, MemoryAgrees, StillBlank, Committed, Uncommitted
  <1>9. CommitShape'
    BY <1>1 DEF CommitShape, ContentInv, Uncommitted, Committed, CommitOrAfter, CommitPoints
  <1>10. ServesOnce' /\ NoReset'
    BY <1>1 DEF ServesOnce, Unserving, ReloadPoints, NoReset, ContentInv
  <1> QED
    BY <1>6, <1>7, <1>8, <1>9, <1>10 DEF ContentInv

\* The active log goes when no record in it is needed, or stays.
LEMMA TruncateWrites ==
    ASSUME IInv, ContentInv, TruncateActive
    PROVE  /\ DiskManifest = next /\ DiskManifest' = next /\ HasPrimary /\ HasPrimary'
           /\ CheckpointContent(disk', next) = CheckpointContent(disk, next)
           /\ \A F : RecordsOf(disk', F) \subseteq RecordsOf(disk, F)
           /\ \A F : RecordsOf(disk, F \ {ActiveLog}) \subseteq RecordsOf(disk', F)
  <1>1. /\ pc = "truncate"
        /\ disk' \in {disk, WithFile(disk, ActiveLog, <<>>)}
    BY DEF TruncateActive
  <1>2. /\ \A f \in DOMAIN disk : f # ActiveLog => f \in DOMAIN disk' /\ disk'[f] = disk[f]
        /\ \A f \in DOMAIN disk' : f # ActiveLog => f \in DOMAIN disk
    BY <1>1 DEF WithFile
  <1>3. DiskManifest = next /\ DiskManifest' = next /\ HasPrimary /\ HasPrimary'
    <2>1. DiskManifest = next /\ HasPrimary
      BY <1>1 DEF ContentInv, MemoryAgrees, Committed
    <2> QED
      BY <1>1, <1>2, <2>1, FileKinds DEF DiskManifest, CurrentManifest, HasPrimary
  <1>4. CheckpointContent(disk', next) = CheckpointContent(disk, next)
    <2>1. next.checkpointFile \in DOMAIN disk \cup {NoFile} /\ next \in Manifests
      BY <1>1, ManifestsAtHand DEF CommitOrAfter, CommitPoints
    <2> QED
      BY <1>2, <2>1, SameCheckpoint, CheckpointFileKind
  <1>5. ASSUME NEW F
        PROVE  /\ RecordsOf(disk', F) \subseteq RecordsOf(disk, F)
               /\ RecordsOf(disk, F \ {ActiveLog}) \subseteq RecordsOf(disk', F)
    <2>1. disk' = disk \/ disk'[ActiveLog] = <<>>
      BY <1>1 DEF WithFile
    <2>2. CASE disk' = disk
      BY <2>2 DEF RecordsOf
    <2>3. CASE disk'[ActiveLog] = <<>>
      BY <1>2, <2>3 DEF RecordsOf
    <2> QED
      BY <2>1, <2>2, <2>3
  <1> QED
    BY <1>3, <1>4, <1>5

LEMMA TruncateContent ==
    ASSUME IInv, FlushRuns, ContentInv, TruncateActive
    PROVE  ContentInv'
  <1>1. /\ pc = "truncate" /\ pc' \in {"apply", "committed"}
        /\ UNCHANGED <<manifest, next, rtUp, rtContent, flush, prune, truncating>>
    BY DEF TruncateActive, runtimeVars, serviceVars, frameVars, AfterCommit
  <1>3. DiskManifest = next /\ DiskManifest' = next /\ HasPrimary /\ HasPrimary'
    BY TruncateWrites
  <1>4. Founded(disk', next)
    BY <1>3, TruncateWrites DEF ContentInv, SoundDisk, Founded
  <1>5. Covers(disk', LogFiles(next), next)
    BY <1>1, TruncateWrites DEF ContentInv, SafeTruncation, Covers
  <1>6. SoundDisk'
    BY <1>3, <1>4, <1>5 DEF SoundDisk
  <1>7. SoundNext' /\ SafeTruncation' /\ MemoryAgrees' /\ StillBlank'
    BY <1>1, <1>3 DEF SoundNext, SafeTruncation, MemoryAgrees, StillBlank, Committed, Uncommitted
  <1>8. CommitShape'
    BY <1>1 DEF CommitShape, ContentInv, Uncommitted, Committed, CommitOrAfter, CommitPoints
  <1>9. ServesOnce' /\ NoReset'
    BY <1>1 DEF ServesOnce, Unserving, ReloadPoints, NoReset, ContentInv
  <1> QED
    BY <1>6, <1>7, <1>8, <1>9 DEF ContentInv

\* A file that is pruned is none that the manifest in force names.
LEMMA PruneWrites ==
    ASSUME IInv, FlushRuns, ContentInv, NEW f \in prune, PruneFile(f)
    PROVE  /\ DiskManifest = next /\ DiskManifest' = next /\ HasPrimary /\ HasPrimary'
           /\ CheckpointContent(disk', next) = CheckpointContent(disk, next)
           /\ RecordsOf(disk', LogFiles(next)) = RecordsOf(disk, LogFiles(next))
  <1>1. /\ pc = "prune" /\ flush # "none"
        /\ disk' = WithoutFile(disk, f) \/ UNCHANGED disk
    BY DEF PruneFile, ContentInv, NoReset, FlushRuns
  <1>2. /\ \A g \in DOMAIN disk : g # f => g \in DOMAIN disk' /\ disk'[g] = disk[g]
        /\ DOMAIN disk \ {f} \subseteq DOMAIN disk' /\ DOMAIN disk' \subseteq DOMAIN disk
    BY <1>1 DEF WithoutFile
  <1>3. f \notin {ManifestFile, ManifestBak, ActiveLog} \cup References(next)
    BY <1>1 DEF ContentInv, CommitShape, IInv, PruneUnreferenced, CommitOrAfter
  <1>4. DiskManifest = next /\ DiskManifest' = next /\ HasPrimary /\ HasPrimary'
    <2>1. DiskManifest = next /\ HasPrimary
      BY <1>1 DEF ContentInv, MemoryAgrees, Committed
    <2> QED
      BY <1>2, <1>3, <2>1 DEF DiskManifest, CurrentManifest, HasPrimary
  <1>5. CheckpointContent(disk', next) = CheckpointContent(disk, next)
    <2>1. next.checkpointFile \in DOMAIN disk \cup {NoFile}
      BY <1>1, ManifestsAtHand DEF CommitOrAfter
    <2>2. next.checkpointFile \in {NoFile} \cup References(next)
      BY DEF References
    <2> QED
      BY <1>2, <1>3, <2>1, <2>2, SameCheckpoint
  <1>6. RecordsOf(disk', LogFiles(next)) = RecordsOf(disk, LogFiles(next))
    <2>1. f \notin LogFiles(next)
      BY <1>3 DEF LogFiles, References
    <2> QED
      BY <1>2, <2>1 DEF RecordsOf
  <1> QED
    BY <1>4, <1>5, <1>6

LEMMA PruneContent ==
    ASSUME IInv, FlushRuns, ContentInv, NEW f \in prune, PruneFile(f)
    PROVE  ContentInv'
  <1>1. /\ pc = "prune" /\ pc' = "prune" /\ flush # "none"
        /\ UNCHANGED <<manifest, next, rtUp, rtContent, flush, truncating>>
        /\ prune' = prune \ {f}
    BY DEF PruneFile, runtimeVars, serviceVars, ContentInv, NoReset, FlushRuns
  <1>4. DiskManifest = next /\ DiskManifest' = next /\ HasPrimary /\ HasPrimary'
    BY PruneWrites
  <1>5. Founded(disk', next) /\ Covers(disk', LogFiles(next), next)
    BY <1>4, PruneWrites DEF ContentInv, SoundDisk, Founded, Covers
  <1>7. SoundDisk'
    BY <1>4, <1>5 DEF SoundDisk
  <1>8. SoundNext' /\ SafeTruncation' /\ MemoryAgrees' /\ StillBlank'
    BY <1>1, <1>4 DEF SoundNext, SafeTruncation, MemoryAgrees, StillBlank, Committed, Uncommitted
  <1>9. CommitShape'
    BY <1>1 DEF CommitShape, ContentInv, Uncommitted, Committed, CommitOrAfter, CommitPoints
  <1>10. ServesOnce' /\ NoReset'
    BY <1>1 DEF ServesOnce, Unserving, ReloadPoints, NoReset, ContentInv
  <1> QED
    BY <1>7, <1>8, <1>9, <1>10 DEF ContentInv

-----------------------------------------------------------------------------
(* The other steps. *)

WritesFiles ==
    \/ AppendWal \/ WriteContentCheckpoint \/ WriteDerivedCheckpoint
    \/ CloseSegments \/ WriteBackup \/ WritePrimary \/ TruncateActive
    \/ \E f \in prune : PruneFile(f)

QuietStep ==
    \/ UNCHANGED taskVars \/ Boot \/ Restart
    \/ StartMutation \/ ApplyBatch \/ ApplyThrows
    \/ Reload \/ Load
    \/ StartContentCheckpoint \/ StartDerivedCheckpoint \/ StartSnapshot
    \/ ExportDerived \/ BeginPrune \/ FinishFlush
    \/ Import
    \/ RuntimeLost \/ TaskThrows \/ WorkerDies \/ Crash

LEMMA WriteOrQuiet ==
    ASSUME [Next]_vars
    PROVE  WritesFiles \/ QuietStep
  BY StepCases, Zenon DEF WritesFiles, QuietStep, Mutate, Checkpoint, Commit

USE DEF runtimeVars, derivedVars, timerVars, frameVars, serviceVars, clientVars, vars, NextTask,
    DequeueInto, SkipTask, Enqueue, ClearFrame, EndJob, EndLoad, Settle, AcknowledgeReload,
    CountFault, AfterCommit, LoadStateOf, ContentTimerAfter, LoadManifest, RecoverRuntime,
    RecoverThrows, ResetRuntime, PruneFile, Restart, RequestMutation, RequestImport,
    TriggerSnapshot, EnsureDerivedLoaded, ChangeDerived, MarkDerivedDirty, ContentTimerFires,
    DerivedTimerFires, PauseSnapshots, ResumeSnapshots, StartMutation, AppendWal, ApplyBatch,
    ApplyThrows, ReloadRuntime, ReloadManifest, ReloadReplay, ReloadReplayThrows, StartLoad,
    LoadDerived, LoadDerivedThrows, ClearDerived, StartContentCheckpoint,
    StartDerivedCheckpoint, StartSnapshot, WriteContentCheckpoint, ExportDerived,
    WriteDerivedCheckpoint, BeginPrune, FinishFlush, StartImport, ImportSnapshot, CloseSegments,
    WriteBackup, WritePrimary, TruncateActive, FailTask, TaskThrows, RuntimeLost, WorkerDies,
    Crash, Rejects

\* No other step moves a commit on.
LEMMA QuietCommit ==
    ASSUME FlushRuns, QuietStep
    PROVE  /\ UNCHANGED disk
           /\ pc' \in CommitOrAfter \cup {"apply"} =>
                 /\ UNCHANGED <<manifest, next, flush, truncating, prune>>
                 /\ pc' = pc \/ (pc = "committed" /\ pc' = "prune")
  <1> USE DEF FlushRuns, FlushSteps, CommitOrAfter, CommitPoints
  <1>1. CASE UNCHANGED taskVars
    BY <1>1, Zenon DEF taskVars
  <1>2. CASE Boot \/ Restart
    BY <1>2, Zenon DEF Boot
  <1>3. CASE StartMutation \/ ApplyBatch \/ ApplyThrows
    BY <1>3, Zenon
  <1>4. CASE Reload
    BY <1>4, Zenon DEF Reload
  <1>5. CASE Load
    BY <1>5, Zenon DEF Load
  <1>6. CASE StartContentCheckpoint \/ StartDerivedCheckpoint \/ StartSnapshot
    BY <1>6, Zenon
  <1>7. CASE ExportDerived \/ BeginPrune
    BY <1>7, Zenon
  <1>8. CASE FinishFlush
    BY <1>8, Zenon DEF ThenDerived
  <1>9. CASE Import
    BY <1>9, Zenon DEF Import
  <1>10. CASE RuntimeLost \/ TaskThrows \/ WorkerDies \/ Crash
    BY <1>10, Zenon DEF RejectPoints, RuntimePoints
  <1> QED
    BY <1>1, <1>2, <1>3, <1>4, <1>5, <1>6, <1>7, <1>8, <1>9, <1>10, Zenon DEF QuietStep


\* The write of a mutation's first primary copy is left by the step that makes it,
\* or by a crash of the page.
LEMMA QuietPrimary ==
    ASSUME flush = "none", pc = "primary", "uncommitted" \notin ThrowAt, QuietStep
    PROVE  (flush' = "none" /\ pc' = "primary") \/ "uncommitted" \in CrashAt
  <1> USE DEF MayThrow, Here
  <1>1. CASE UNCHANGED taskVars
    BY <1>1, Zenon DEF taskVars
  <1>2. CASE Boot \/ Restart
    BY <1>2, Zenon DEF Boot
  <1>3. CASE StartMutation \/ ApplyBatch \/ ApplyThrows
    BY <1>3, Zenon
  <1>4. CASE Reload
    BY <1>4, Zenon DEF Reload
  <1>5. CASE Load
    BY <1>5, Zenon DEF Load
  <1>6. CASE StartContentCheckpoint \/ StartDerivedCheckpoint \/ StartSnapshot
    BY <1>6, Zenon
  <1>7. CASE ExportDerived \/ BeginPrune
    BY <1>7, Zenon
  <1>8. CASE FinishFlush
    BY <1>8, Zenon DEF ThenDerived
  <1>9. CASE Import
    BY <1>9, Zenon DEF Import
  <1>10. CASE RuntimeLost \/ TaskThrows \/ WorkerDies \/ Crash
    BY <1>10, Zenon DEF RejectPoints, RuntimePoints
  <1> QED
    BY <1>1, <1>2, <1>3, <1>4, <1>5, <1>6, <1>7, <1>8, <1>9, <1>10, Zenon DEF QuietStep


\* A step that neither writes nor commits keeps the manifest that was read, reads
\* it again, or adopts the one committed.
LEMMA QuietMemory ==
    ASSUME MemoryAgrees, FlushRuns, pc # "import", pc # "reset",
           UNCHANGED disk, DiskManifest' = DiskManifest, HasPrimary' <=> HasPrimary,
           CurrentManifest(disk) = DiskManifest,
           Agree(disk, DiskManifest, DiskManifest),
           (pc = "primary" /\ flush # "none" /\ "primary" \in ThrowAt) =>
               Agree(disk, manifest, DiskManifest),
           pc \in {"recover", "reloadReplay"} => Recoverable(disk, manifest),
           ThrowAt \cap {"uncommitted", "committed", "reload", "reloadManifest", "reloadReplay",
                         "recover"} = {}, QuietStep
    PROVE  MemoryAgrees' /\ NoReset'
  <1> USE DEF MemoryAgrees, NoReset, Committed, FlushRuns, FlushSteps, CommitOrAfter,
             CommitPoints, MayThrow, Here
  <1>1. CASE UNCHANGED taskVars
    BY <1>1, Zenon DEF taskVars
  <1>2. CASE Boot \/ Restart
    BY <1>2, Zenon DEF Boot
  <1>3. CASE StartMutation \/ ApplyBatch \/ ApplyThrows
    BY <1>3, Zenon
  <1>4. CASE Reload
    BY <1>4, Zenon DEF Reload
  <1>5. CASE Load
    BY <1>5, Zenon DEF Load
  <1>6. CASE StartContentCheckpoint \/ StartDerivedCheckpoint \/ StartSnapshot
    BY <1>6, Zenon
  <1>7. CASE ExportDerived \/ BeginPrune
    BY <1>7, Zenon
  <1>8. CASE FinishFlush
    BY <1>8, Zenon DEF ThenDerived
  <1>9. CASE Import
    BY <1>9, Zenon DEF Import
  <1>10. CASE RuntimeLost \/ TaskThrows \/ WorkerDies \/ Crash
    BY <1>10, Zenon DEF RejectPoints, RuntimePoints
  <1> QED
    BY <1>1, <1>2, <1>3, <1>4, <1>5, <1>6, <1>7, <1>8, <1>9, <1>10, Zenon DEF QuietStep


\* What the runtime holds is recovered, or grows by the record committed.
LEMMA QuietServes ==
    ASSUME ServesOnce, pc # "import", pc # "reset",
           ~ HasManifest(disk) => OneRecordEach({}, CurrentManifest(disk).nextSeq),
           pc \in {"recover", "reloadReplay"} =>
               /\ Recoverable(disk, manifest)
               /\ OneRecordEach(Recovered(disk, manifest), manifest.nextSeq),
           (rtUp /\ pc = "apply") => OneRecordEach(rtContent \cup {Batch}, next.nextSeq),
           pc \in {"committed", "prune"} => next.nextSeq = manifest.nextSeq,
           ThrowAt \cap {"uncommitted", "committed", "reload", "reloadManifest", "reloadReplay",
                         "recover"} = {}, QuietStep
    PROVE  ServesOnce'
  <1> USE DEF ServesOnce, Unserving, ReloadPoints, MayThrow, Here
  <1>1. CASE UNCHANGED taskVars
    BY <1>1, SMT DEF taskVars
  <1>2. CASE Boot \/ Restart
    BY <1>2, SMT DEF Boot
  <1>3. CASE StartMutation \/ ApplyBatch \/ ApplyThrows
    <2>1. CASE StartMutation
      BY <2>1, SMT
    <2>2. CASE ApplyBatch
      BY <2>2, SMT
    <2>3. CASE ApplyThrows
      BY <2>3, SMT
    <2> QED
      BY <1>3, <2>1, <2>2, <2>3, Zenon
  <1>4. CASE Reload
    <2>1. CASE ReloadRuntime \/ ReloadManifest
      BY <2>1, SMT
    <2>2. CASE ReloadReplay
      <3>1. /\ pc = "reloadReplay" /\ pc' \in {"idle", "loadDerived"}
            /\ rtContent' = Recovered(disk, manifest) /\ UNCHANGED manifest
        BY <2>2, Zenon
      <3> QED
        BY <3>1, SMT
    <2>3. CASE ReloadReplayThrows
      BY <2>3, SMT
    <2> QED
      BY <1>4, <2>1, <2>2, <2>3, Zenon DEF Reload
  <1>5. CASE Load
    <2>1. CASE StartLoad
      BY <2>1, SMT
    <2>2. CASE LoadDerived
      <3>1. pc = "loadDerived" /\ pc' = "idle" /\ UNCHANGED <<rtUp, rtContent, manifest>>
        BY <2>2, Zenon
      <3> QED
        BY <3>1, SMT
    <2>3. CASE LoadDerivedThrows
      BY <2>3, SMT
    <2>4. CASE ClearDerived
      <3>1. pc = "clearDerived" /\ pc' = "idle" /\ UNCHANGED <<rtUp, rtContent, manifest>>
        BY <2>4, Zenon
      <3> QED
        BY <3>1, SMT
    <2> QED
      BY <1>5, <2>1, <2>2, <2>3, <2>4, Zenon DEF Load
  <1>6. CASE StartContentCheckpoint \/ StartDerivedCheckpoint \/ StartSnapshot
    BY <1>6, SMT
  <1>7. CASE ExportDerived \/ BeginPrune
    BY <1>7, SMT
  <1>8. CASE FinishFlush
    BY <1>8, SMT DEF ThenDerived
  <1>9. CASE Import
    BY <1>9, SMT DEF Import
  <1>10. CASE RuntimeLost \/ TaskThrows \/ WorkerDies \/ Crash
    BY <1>10, SMT DEF RejectPoints, RuntimePoints
  <1> QED
    BY <1>1, <1>2, <1>3, <1>4, <1>5, <1>6, <1>7, <1>8, <1>9, <1>10, Zenon DEF QuietStep

HIDE DEF runtimeVars, derivedVars, timerVars, frameVars, serviceVars, clientVars, vars,
    NextTask, DequeueInto, SkipTask, Enqueue, ClearFrame, EndJob, EndLoad, Settle,
    AcknowledgeReload, CountFault, AfterCommit, LoadStateOf, ContentTimerAfter, LoadManifest,
    RecoverRuntime, RecoverThrows, ResetRuntime, PruneFile, Restart, RequestMutation,
    RequestImport, TriggerSnapshot, EnsureDerivedLoaded, ChangeDerived, MarkDerivedDirty,
    ContentTimerFires, DerivedTimerFires, PauseSnapshots, ResumeSnapshots, StartMutation,
    AppendWal, ApplyBatch, ApplyThrows, ReloadRuntime, ReloadManifest, ReloadReplay,
    ReloadReplayThrows, StartLoad, LoadDerived, LoadDerivedThrows, ClearDerived,
    StartContentCheckpoint, StartDerivedCheckpoint, StartSnapshot, WriteContentCheckpoint,
    ExportDerived, WriteDerivedCheckpoint, BeginPrune, FinishFlush, StartImport, ImportSnapshot,
    CloseSegments, WriteBackup, WritePrimary, TruncateActive, FailTask, TaskThrows, RuntimeLost,
    WorkerDies, Crash, Rejects

\* What the constants have to rule out: images, rejections that leave the memory
\* behind the disk, and, if the write of a first primary copy may be rejected, a
\* crash before that of a mutation (which leaves a backup that counts it).
FaultAssumption ==
    /\ Imports = {}
    /\ ThrowAt \subseteq BenignThrows
    /\ "uncommitted" \notin CrashAt \/ "primary" \notin ThrowAt

\* The boot never resets for a file that is missing.
LEMMA DiskRecoverable ==
    ASSUME IInv
    PROVE  Recoverable(disk, DiskManifest)
  BY CurrentManifestRefers DEF IInv, Recoverable, DiskManifest

LEMMA RecoveredOnce ==
    ASSUME IInv, ContentInv
    PROVE  OneRecordEach(Recovered(disk, DiskManifest), DiskManifest.nextSeq)
  BY ManifestsAtHand, RecoversOnce DEF ContentInv, SoundDisk

LEMMA BatchIsNext ==
    ASSUME NEW n \in Nat \ {0}, NEW content, OneRecordEach(content, n),
           NEW r, r.seq = n
    PROVE  OneRecordEach(content \cup {r}, n + 1)
  <1>1. \A s \in content : s.seq \in 1 .. n - 1
    BY DEF OneRecordEach
  <1>2. \A s \in content : s.seq # n
    BY <1>1
  <1>3. \A r1, r2 \in content \cup {r} : r1.seq = r2.seq => r1 = r2
    BY <1>2 DEF OneRecordEach
  <1>4. {s.seq : s \in content \cup {r}} = {s.seq : s \in content} \cup {n}
    OBVIOUS
  <1>5. (1 .. n - 1) \cup {n} = 1 .. n /\ (n + 1) - 1 = n
    OBVIOUS
  <1>6. {s.seq : s \in content} = 1 .. n - 1
    BY DEF OneRecordEach
  <1>7. {s.seq : s \in content \cup {r}} = 1 .. (n + 1) - 1
    BY <1>4, <1>5, <1>6
  <1> QED
    BY <1>3, <1>7 DEF OneRecordEach

LEMMA QuietContent ==
    ASSUME FaultAssumption, IInv, FlushRuns, ContentInv, QuietStep
    PROVE  ContentInv'
  <1>1. /\ UNCHANGED disk
        /\ pc' \in CommitOrAfter \cup {"apply"} =>
              /\ UNCHANGED <<manifest, next, flush, truncating, prune>>
              /\ pc' = pc \/ (pc = "committed" /\ pc' = "prune")
    BY QuietCommit
  <1>2. DiskManifest' = DiskManifest /\ (HasPrimary' <=> HasPrimary)
    BY <1>1 DEF DiskManifest, HasPrimary
  <1>3. ThrowAt \cap {"uncommitted", "committed", "reload", "reloadManifest", "reloadReplay",
                      "recover"} = {}
    BY DEF FaultAssumption, BenignThrows
  <1>4. pc # "import" /\ pc # "reset"
    BY NoImport DEF FaultAssumption, ContentInv, NoReset
  <1>5. SoundDisk' /\ SoundNext' /\ SafeTruncation'
    <2>1. SoundDisk'
      BY <1>1, <1>2 DEF SoundDisk, ContentInv
    <2>2. SoundNext'
      BY <1>1, <1>2 DEF SoundNext, Uncommitted, ContentInv, CommitOrAfter, CommitPoints
    <2>3. SafeTruncation'
      BY <1>1, <1>2 DEF SafeTruncation, ContentInv, CommitOrAfter, CommitPoints
    <2> QED
      BY <2>1, <2>2, <2>3
  <1>6. MemoryAgrees' /\ NoReset'
    <2>1. MemoryAgrees
      BY DEF ContentInv
    <2>2. (pc = "primary" /\ flush # "none" /\ "primary" \in ThrowAt) =>
              Agree(disk, manifest, DiskManifest)
      <3>1. SUFFICES ASSUME pc = "primary", flush # "none", "primary" \in ThrowAt, ~ HasPrimary
                     PROVE  Agree(disk, manifest, DiskManifest)
        BY <2>1 DEF MemoryAgrees
      <3>2. Blank(disk, manifest) /\ Blank(disk, next) /\ DiskManifest = next
        BY <2>1, <3>1 DEF ContentInv, StillBlank, Uncommitted, MemoryAgrees
      <3> QED
        BY <3>2, BlanksAgree
    <2>3. pc \in {"recover", "reloadReplay"} => Recoverable(disk, manifest)
      BY DEF IInv, MemoryRefersToDisk, Recoverable
    <2>4. Agree(disk, DiskManifest, DiskManifest) /\ CurrentManifest(disk) = DiskManifest
      BY AgreeIsMutual DEF DiskManifest
    <2> QED
      BY <1>1, <1>2, <1>3, <1>4, <2>1, <2>2, <2>3, <2>4, QuietMemory
  <1>7. StillBlank'
    <2>1. SUFFICES ASSUME "primary" \in ThrowAt, ~ HasPrimary
                   PROVE  /\ ~ (flush' = "none" /\ pc' = "primary") => Blank(disk, DiskManifest)
                          /\ (flush # "none" /\ Uncommitted)' =>
                                Blank(disk, manifest') /\ Blank(disk, next')
      BY <1>1, <1>2 DEF StillBlank
    <2>2. ~ (flush' = "none" /\ pc' = "primary") => Blank(disk, DiskManifest)
      BY <1>3, <2>1, QuietPrimary DEF ContentInv, StillBlank, FaultAssumption
    <2>3. (flush # "none" /\ Uncommitted)' => Blank(disk, manifest') /\ Blank(disk, next')
      BY <1>1, <2>1 DEF ContentInv, StillBlank, Uncommitted, CommitOrAfter, CommitPoints
    <2> QED
      BY <2>2, <2>3
  <1>8. CommitShape'
    BY <1>1 DEF CommitShape, ContentInv, Uncommitted, Committed, CommitOrAfter, CommitPoints
  <1>9. ServesOnce'
    <2>1. ServesOnce
      BY DEF ContentInv
    <2>2. ~ HasManifest(disk) => OneRecordEach({}, CurrentManifest(disk).nextSeq)
      BY EmptyFields DEF HasManifest, CurrentManifest, OneRecordEach
    <2>3. pc \in {"recover", "reloadReplay"} =>
              /\ Recoverable(disk, manifest)
              /\ OneRecordEach(Recovered(disk, manifest), manifest.nextSeq)
      <3>1. SUFFICES ASSUME pc \in {"recover", "reloadReplay"}
                     PROVE  /\ Recoverable(disk, manifest)
                            /\ OneRecordEach(Recovered(disk, manifest), manifest.nextSeq)
        OBVIOUS
      <3>2. Agree(disk, manifest, DiskManifest)
        BY <3>1 DEF ContentInv, MemoryAgrees
      <3>3. Founded(disk, manifest) /\ Covers(disk, LogFiles(manifest), manifest)
        BY <3>2, AgreeSound DEF ContentInv, SoundDisk
      <3> QED
        BY <3>1, <3>3, ManifestsAtHand, RecoversOnce DEF IInv, MemoryRefersToDisk, Recoverable
    <2>4. (rtUp /\ pc = "apply") => OneRecordEach(rtContent \cup {Batch}, next.nextSeq)
      <3>1. SUFFICES ASSUME rtUp, pc = "apply"
                     PROVE  OneRecordEach(rtContent \cup {Batch}, next.nextSeq)
        OBVIOUS
      <3>2. flush = "none"
        BY <3>1 DEF FlushRuns, FlushSteps, CommitOrAfter, CommitPoints
      <3>3. next.nextSeq = manifest.nextSeq + 1
        BY <3>1, <3>2 DEF ContentInv, CommitShape, Committed
      <3>4. OneRecordEach(rtContent, manifest.nextSeq)
        BY <3>1 DEF ContentInv, ServesOnce, Unserving, ReloadPoints
      <3>5. manifest.nextSeq \in Nat \ {0} /\ Batch.seq = manifest.nextSeq
        BY ManifestsAtHand DEF Manifests, Batch
      <3> QED
        BY <3>3, <3>4, <3>5, BatchIsNext
    <2>5. pc \in {"committed", "prune"} => next.nextSeq = manifest.nextSeq
      BY DEF ContentInv, CommitShape, Committed, FlushRuns
    <2> QED
      BY <1>3, <1>4, <2>1, <2>2, <2>3, <2>4, <2>5, QuietServes
  <1> QED
    BY <1>5, <1>6, <1>7, <1>8, <1>9 DEF ContentInv

-----------------------------------------------------------------------------
(* The theorem. *)

DurableInv ==
    /\ IInv
    /\ FlushRuns
    /\ ManifestsNameOld
    /\ NextGeneration
    /\ DiskNoYounger
    /\ ContentInv

LEMMA InitDurable ==
    ASSUME ResetRemoves
    PROVE  Init => DurableInv
  <1> SUFFICES ASSUME Init
               PROVE  DurableInv
    OBVIOUS
  <1>1. IInv
    BY InitIInv
  <1>2. pc = "down" /\ disk = [f \in {} |-> EmptyManifest] /\ flush = "none" /\ rtContent = {}
        /\ manifest = EmptyManifest /\ next = EmptyManifest /\ rtUp = FALSE
    BY DEF Init
  <1>3. DOMAIN disk = {} /\ DiskManifest = EmptyManifest
    BY <1>2 DEF DiskManifest, CurrentManifest
  <1>4. FlushRuns /\ ManifestsNameOld /\ NextGeneration /\ DiskNoYounger
    BY <1>2, <1>3, EmptyNamesOld DEF FlushRuns, FlushSteps, ManifestsNameOld, NextGeneration,
       DiskNoYounger, Committing, CommitOrAfter, CommitPoints
  <1>5. CheckpointContent(disk, EmptyManifest) = {}
    BY EmptyFields DEF CheckpointContent
  <1>6. Blank(disk, DiskManifest)
    BY <1>3, <1>5, EmptyFields DEF Blank
  <1>7. SoundDisk
    BY <1>3, <1>5, EmptyFields DEF SoundDisk, Founded, Covers, OneRecordEach
  <1>8. SoundNext /\ SafeTruncation /\ MemoryAgrees /\ CommitShape /\ NoReset
    BY <1>2 DEF SoundNext, SafeTruncation, MemoryAgrees, CommitShape, NoReset, Uncommitted,
       Committed, CommitOrAfter, CommitPoints
  <1>9. StillBlank /\ ServesOnce
    BY <1>2, <1>6 DEF StillBlank, ServesOnce, Uncommitted
  <1> QED
    BY <1>1, <1>4, <1>7, <1>8, <1>9 DEF DurableInv, ContentInv

LEMMA StepDurable ==
    ASSUME FaultAssumption, DurableInv, [Next]_vars
    PROVE  DurableInv'
  <1>1. IInv' /\ FlushRuns' /\ ManifestsNameOld' /\ NextGeneration' /\ DiskNoYounger'
    <2>1. Imports = {} /\ "committed" \notin ThrowAt
      BY DEF FaultAssumption, BenignThrows
    <2> QED
      BY <2>1, StepIInv, FlushRunsStep, NameOldStep, GenerationStep DEF DurableInv
  <1>2. ContentInv'
    <2>1. CASE WritesFiles
      <3>1. CASE \E f \in prune : PruneFile(f)
        BY <3>1, PruneContent DEF DurableInv
      <3> QED
        BY <2>1, <3>1, AppendContent, ContentCheckpointContent, DerivedCheckpointContent,
           CloseContent, BackupContent, PrimaryContent, TruncateContent
           DEF DurableInv, WritesFiles
    <2>2. CASE QuietStep
      BY <2>2, QuietContent DEF DurableInv
    <2> QED
      BY <2>1, <2>2, WriteOrQuiet
  <1> QED
    BY <1>1, <1>2 DEF DurableInv

\* The checkpoint and the log of the manifest in force hold, together, exactly one
\* record for each number it has handed out, at every instant of every run with
\* crashes anywhere and rejections that the service survives: no commit,
\* truncation, checkpoint or pruning opens a gap or lets a restart replay two.
THEOREM EveryNumberIsRecoveredOnce ==
    ASSUME FaultAssumption
    PROVE  Spec => []EverySeqRecoveredOnce
  <1>0. ResetRemoves
    BY DEF ResetRemoves, FaultAssumption, BenignThrows
  <1>1. DurableInv /\ [Next]_vars => DurableInv'
    BY StepDurable
  <1>2. DurableInv => EverySeqRecoveredOnce
    <2> SUFFICES ASSUME DurableInv
                 PROVE  EverySeqRecoveredOnce
      OBVIOUS
    <2>1. OneRecordEach(Recovered(disk, DiskManifest), DiskManifest.nextSeq)
      BY RecoveredOnce DEF DurableInv
    <2>2. ~ HasManifest(disk) => OneRecordEach({}, DiskManifest.nextSeq)
      BY EmptyFields DEF HasManifest, DiskManifest, CurrentManifest, OneRecordEach
    <2>3. OneRecordEach(DurableContent, DiskManifest.nextSeq)
      BY <2>1, <2>2, DiskRecoverable DEF DurableContent, DurableInv
    <2>4. DiskManifest.nextSeq \in Nat
      BY ManifestsAtHand DEF DurableInv, Manifests
    <2>5. (1 .. DiskManifest.nextSeq - 1) \ {0} = 1 .. DiskManifest.nextSeq - 1
      BY <2>4
    <2> QED
      BY <2>3, <2>5 DEF EverySeqRecoveredOnce, OneRecordEach
  <1> QED
    BY <1>0, <1>1, <1>2, InitDurable, PTL DEF Spec

=============================================================================
