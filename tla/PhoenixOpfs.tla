---------------------------- MODULE PhoenixOpfs ----------------------------
(***************************************************************************)
(* The Phoenix files in the origin-private file system, as the OPFS worker *)
(* (sqlite-opfs-core.ts) and the replay code of PhoenixStoreService read   *)
(* them.  A disk is a function from the files that exist to what they      *)
(* hold: the two manifest copies hold manifests, the active log and the    *)
(* closed segments hold sequences of WAL records, content checkpoints hold *)
(* the content they snapshot and derived checkpoints a derived version.    *)
(*                                                                         *)
(* A file is replaced as a whole when its writable stream closes           *)
(* (createWritable writes a swap file), so an append or an overwrite is    *)
(* never seen half done.                                                   *)
(***************************************************************************)
EXTENDS PhoenixWal, Sequences

CONSTANTS
    Mutations,      \* the content mutations clients may ask for
    Imports         \* the database images importDatabase may be given

(***************************************************************************)
(* Content is the set of WAL records applied to the runtime: the sequence  *)
(* numbers order them.  An imported image stands for all it contains and   *)
(* takes sequence number 0.                                                *)
(***************************************************************************)
Records == [seq: Nat, mut: Mutations \cup Imports]

WithFile(disk, file, value) ==
    [f \in DOMAIN disk \cup {file} |-> IF f = file THEN value ELSE disk[f]]

WithFiles(disk, files, value) ==
    [f \in DOMAIN disk \cup files |-> IF f \in files THEN value ELSE disk[f]]

WithoutFile(disk, file) == [f \in DOMAIN disk \ {file} |-> disk[f]]

-----------------------------------------------------------------------------
(* Reading the manifest: the primary copy, else the backup. *)

HasManifest(disk) == ManifestFile \in DOMAIN disk \/ ManifestBak \in DOMAIN disk

CurrentManifest(disk) ==
    IF ManifestFile \in DOMAIN disk THEN disk[ManifestFile]
    ELSE IF ManifestBak \in DOMAIN disk THEN disk[ManifestBak]
    ELSE EmptyManifest

\* A missing active log and an empty one read the same.
ActiveRecords(disk) == IF ActiveLog \in DOMAIN disk THEN disk[ActiveLog] ELSE <<>>

-----------------------------------------------------------------------------
(* commitPhoenixManifest, as functions of the disk it starts from. *)

\* The segment files that `manifest` lists and the manifest on disk does not:
\* the commit creates each as a copy of the active log.
AppendedClosed(disk, manifest) ==
    {FileOf(s) : s \in manifest.closed}
        \ {FileOf(s) : s \in CurrentManifest(disk).closed}

\* An empty active log is not copied (fileBytes is null).
WithClosedSegments(disk, manifest) ==
    IF ActiveRecords(disk) = <<>> THEN disk
    ELSE WithFiles(disk, AppendedClosed(disk, manifest), ActiveRecords(disk))

\* Mutant: truncates although the new manifest still counts live records.
ShouldTruncateActiveAlways(disk, manifest) ==
    \/ AppendedClosed(disk, manifest) # {}
    \/ CurrentManifest(disk).activeCount > 0

ShouldTruncateActive(disk, manifest) ==
    \/ AppendedClosed(disk, manifest) # {}
    \/ /\ CurrentManifest(disk).activeCount > 0
       /\ manifest.activeCount = 0
       /\ manifest.activeBytes = 0

-----------------------------------------------------------------------------
(* Recovery. *)

\* Every file recovery reads exists.  The derived checkpoint is read later,
\* on first use, and the active log may be missing.
Recoverable(disk, manifest) == References(manifest) \ {manifest.derivedFile} \subseteq DOMAIN disk

CheckpointContent(disk, manifest) ==
    IF manifest.checkpointFile = NoFile THEN {} ELSE disk[manifest.checkpointFile]

\* Where WAL records are found, and the order replayWalSegments reads them in:
\* the closed segments by startSeq, then the active log.
LogFiles(manifest) == {FileOf(s) : s \in manifest.closed} \cup {ActiveLog}

LogPositions(disk, manifest) ==
    UNION {{f} \X DOMAIN disk[f] : f \in LogFiles(manifest) \cap DOMAIN disk}

RecordAt(disk, p) == disk[p[1]][p[2]]

FileBefore(f, g) ==
    /\ f # ActiveLog
    /\ \/ g = ActiveLog
       \/ f[2] < g[2]
       \/ f[2] = g[2] /\ f[3] < g[3]

ReadBefore(p, q) ==
    \/ p[1] = q[1] /\ p[2] < q[2]
    \/ FileBefore(p[1], q[1])

\* Mutant: replays every record it scans, also a second one for a number.
ReplayedPositionsNoDedupe(disk, manifest) ==
    {p \in LogPositions(disk, manifest) :
        /\ RecordAt(disk, p).seq > manifest.lastCheckpointSeq
        /\ RecordAt(disk, p).seq < manifest.nextSeq}

\* A record is applied when its sequence number is past the checkpoint, below
\* nextSeq, and not seen earlier in the scan.
ReplayedPositions(disk, manifest) ==
    {p \in LogPositions(disk, manifest) :
        LET seq == RecordAt(disk, p).seq
        IN  /\ seq > manifest.lastCheckpointSeq
            /\ seq < manifest.nextSeq
            /\ \A q \in LogPositions(disk, manifest) :
                  RecordAt(disk, q).seq = seq => ~ ReadBefore(q, p)}

\* The content a complete recovery rebuilds.
Recovered(disk, manifest) ==
    CheckpointContent(disk, manifest)
        \cup {RecordAt(disk, p) : p \in ReplayedPositions(disk, manifest)}

\* What a recovery that throws may have built before it did: nothing, or the
\* checkpoint and the records read before some point of the scan, or all of
\* them when the index rebuild after the last one failed.  Without its
\* checkpoint it stops before it has built anything.
PartialRecoveries(disk, manifest) ==
    {{}} \cup
    IF manifest.checkpointFile \notin DOMAIN disk \cup {NoFile} THEN {}
    ELSE {Recovered(disk, manifest)} \cup
         {CheckpointContent(disk, manifest) \cup
             {RecordAt(disk, p) : p \in {x \in ReplayedPositions(disk, manifest) : ReadBefore(x, q)}} :
             q \in LogPositions(disk, manifest)}

=============================================================================
