----------------------------- MODULE PhoenixWal -----------------------------
(***************************************************************************)
(* The manifest algebra of the Phoenix write-ahead log: what               *)
(* phoenix-wal.ts computes on a PersistenceManifest.  Every operator is a  *)
(* pure function of manifests, as in the source; the files the manifest    *)
(* names are in PhoenixOpfs and the protocol that uses both in             *)
(* PhoenixStore.                                                           *)
(*                                                                         *)
(* Sizes are counted in records: activeSegmentBytes and a segment's bytes  *)
(* are the number of records the FILE holds, while the record counts are   *)
(* what the manifest believes it holds.  The two differ when the file has  *)
(* records no manifest was committed for.  Timestamps, the schema tag and  *)
(* the compaction block carry no control and are left out.                 *)
(***************************************************************************)
EXTENDS Naturals, FiniteSets, FiniteSetsExt

CONSTANTS
    MaxSegmentBytes,        \* PHOENIX_WAL_MAX_SEGMENT_BYTES
    MaxSegmentRecords,      \* PHOENIX_WAL_MAX_SEGMENT_RECORDS
    MaxUnreclaimedBytes,    \* PHOENIX_WAL_MAX_UNRECLAIMED_BYTES
    MaxUnreclaimedRecords   \* PHOENIX_WAL_MAX_UNRECLAIMED_RECORDS

ASSUME ThresholdAssumption ==
    /\ MaxSegmentBytes \in Nat \ {0}
    /\ MaxSegmentRecords \in Nat \ {0}
    /\ MaxUnreclaimedBytes \in Nat \ {0}
    /\ MaxUnreclaimedRecords \in Nat \ {0}

-----------------------------------------------------------------------------
(* File names, as triples <<kind, number, number>>. *)

ManifestFile == <<"manifest", 0, 0>>
ManifestBak  == <<"bak", 0, 0>>
ActiveLog    == <<"active", 0, 0>>
NoFile       == <<"none", 0, 0>>

SegmentFile(startSeq, endSeq) == <<"segment", startSeq, endSeq>>
ContentCheckpointFile(generation) == <<"content", generation, 0>>
DerivedCheckpointFile(generation) == <<"derived", generation, 0>>

ContentCheckpointFiles == {"content"} \X Nat \X {0}
DerivedCheckpointFiles == {"derived"} \X Nat \X {0}
SegmentFiles == {"segment"} \X Nat \X Nat
FileIds == {ManifestFile, ManifestBak, ActiveLog} \cup ContentCheckpointFiles
               \cup DerivedCheckpointFiles \cup SegmentFiles

-----------------------------------------------------------------------------
(* Manifests. *)

Segments == [startSeq: Nat, endSeq: Nat, recordCount: Nat, bytes: Nat]

Manifests ==
    [generation: Nat,
     checkpointFile: ContentCheckpointFiles \cup {NoFile},
     lastCheckpointSeq: Nat,
     nextSeq: Nat \ {0},
     activeBytes: Nat,
     activeCount: Nat,
     closed: SUBSET Segments,
     derivedFile: DerivedCheckpointFiles \cup {NoFile}]

\* Mutant: sequence numbers start at 0.
EmptyManifestFromZero ==
    [generation |-> 0, checkpointFile |-> NoFile, lastCheckpointSeq |-> 0,
     nextSeq |-> 0, activeBytes |-> 0, activeCount |-> 0, closed |-> {},
     derivedFile |-> NoFile]

\* closedSegments is kept sorted by startSeq (normalizeManifest), so it is the
\* set of its entries here; FileBefore in PhoenixOpfs is the array's order.
EmptyManifest ==
    [generation |-> 0, checkpointFile |-> NoFile, lastCheckpointSeq |-> 0,
     nextSeq |-> 1, activeBytes |-> 0, activeCount |-> 0, closed |-> {},
     derivedFile |-> NoFile]

FileOf(segment) == SegmentFile(segment.startSeq, segment.endSeq)

\* The files a manifest cannot be recovered without.
References(m) ==
    ({m.checkpointFile, m.derivedFile} \ {NoFile}) \cup {FileOf(s) : s \in m.closed}

CollectManifestFiles(m) == {ManifestFile, ManifestBak, ActiveLog} \cup References(m)

ShouldRollActiveSegment(m) ==
    \/ m.activeBytes >= MaxSegmentBytes
    \/ m.activeCount >= MaxSegmentRecords

\* The manifest after `count` records were appended to the active log, whose
\* file now holds `bytes` records and, counting from the manifest on disk,
\* `active` of them are live.  A full active segment is closed.
NextManifestWithWalAppend(m, count, bytes, active) ==
    LET grown == [m EXCEPT !.nextSeq = m.nextSeq + count,
                           !.activeBytes = bytes,
                           !.activeCount = active]
        segment == [startSeq |-> grown.nextSeq - active,
                    endSeq |-> grown.nextSeq - 1,
                    recordCount |-> active,
                    bytes |-> bytes]
    IN  IF /\ ShouldRollActiveSegment(grown)
           /\ grown.nextSeq > active
           /\ active > 0
        THEN [grown EXCEPT !.closed = grown.closed \cup {segment},
                           !.activeBytes = 0,
                           !.activeCount = 0]
        ELSE grown

Reclaimed(m, lastCheckpointSeq) == {s \in m.closed : s.endSeq <= lastCheckpointSeq}

\* Mutant: only a derived checkpoint starts a generation.
FinalizeContentCheckpointSameGeneration(m, file, lastCheckpointSeq) ==
    [m EXCEPT !.checkpointFile = file,
              !.lastCheckpointSeq = lastCheckpointSeq,
              !.activeBytes = 0,
              !.activeCount = 0,
              !.closed = m.closed \ Reclaimed(m, lastCheckpointSeq)]

FinalizeContentCheckpointManifest(m, file, lastCheckpointSeq) ==
    [m EXCEPT !.generation = m.generation + 1,
              !.checkpointFile = file,
              !.lastCheckpointSeq = lastCheckpointSeq,
              !.activeBytes = 0,
              !.activeCount = 0,
              !.closed = m.closed \ Reclaimed(m, lastCheckpointSeq)]

\* Mutant: the reclaimed segments are not listed.
ContentPruneFilesNoSegments(m, file, lastCheckpointSeq) ==
    {m.checkpointFile} \ {file, NoFile}

\* Mutant: the derived checkpoint goes with the content checkpoint.
ContentPruneFilesBoth(m, file, lastCheckpointSeq) ==
    ({m.checkpointFile, m.derivedFile} \ {file, NoFile})
        \cup {FileOf(s) : s \in Reclaimed(m, lastCheckpointSeq)}

ContentPruneFiles(m, file, lastCheckpointSeq) ==
    ({m.checkpointFile} \ {file, NoFile})
        \cup {FileOf(s) : s \in Reclaimed(m, lastCheckpointSeq)}

FinalizeDerivedCheckpointManifest(m, file) ==
    [m EXCEPT !.generation = m.generation + 1, !.derivedFile = file]

DerivedPruneFiles(m, file) == {m.derivedFile} \ {file, NoFile}

UnreclaimedBytes(m) ==
    m.activeBytes + MapThenSumSet(LAMBDA s : s.bytes, m.closed)

UnreclaimedRecords(m) ==
    m.activeCount + MapThenSumSet(LAMBDA s : s.recordCount, m.closed)

ShouldCheckpointContent(m) ==
    \/ UnreclaimedBytes(m) >= MaxUnreclaimedBytes
    \/ UnreclaimedRecords(m) >= MaxUnreclaimedRecords

HasUncheckpointed(m) == m.nextSeq - 1 > m.lastCheckpointSeq

=============================================================================
