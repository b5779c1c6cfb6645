---------------------------- MODULE NativeGraph ----------------------------
(***************************************************************************)
(* The native graph of phoenix-runtime: the deterministic kernel in memory *)
(* (phoenix-kernel over phoenix-graph-kernel), the journal, checkpoint and *)
(* commit index in LMDB it is rebuilt from (phoenix-store-lmdb), and the   *)
(* runtime operations that apply batches to the one and persist them in    *)
(* the other.  The runtime is used by one call at a time; a crash may come *)
(* between any two of its transactions.                                    *)
(*                                                                         *)
(* Asserted edges behave as candidate edges that are never rejected, and   *)
(* are left out.  Of the records kept of a vertex or edge only how many    *)
(* are not expired, whether one is, and whether the newest record of an    *)
(* edge says that it was rejected, is kept.                                *)
(***************************************************************************)
EXTENDS Integers, Sequences, FiniteSets, SequencesExt, FiniteSetsExt

CONSTANTS Vertices, Edges,
          Ends(_),            \* the vertices an edge joins
          AssertedScopes,     \* documents and sessions
          CandidateScopes,
          CompactionThreshold,   \* 32 in the code
          MaxBatches,         \* bound: batches ever made
          MaxCommits,         \* bound: commits
          BatchesPerCall,     \* bound: batches of one ingest
          ScopesPerRefresh,   \* candidate scopes of one refresh
          Faults              \* whether store transactions may fail

ASSUME NativeGraphAssumption ==
    /\ {CompactionThreshold, MaxBatches, BatchesPerCall, ScopesPerRefresh} \subseteq Nat \ {0}
    /\ MaxCommits \in Nat
    /\ Faults \in BOOLEAN
    /\ AssertedScopes \cap CandidateScopes = {}

VARIABLES graph,       \* in memory: the kernel's records, views and scope maps
          token,       \* in memory: its rebuild token's generation, or NoToken
          cache,       \* in memory: live_kernel_snapshot
          op,          \* the call under way and the batches it still has to persist
          checkpoint,  \* LMDB: graph_kernel_checkpoint; a missing one counts as empty
          journal,     \* LMDB: graph_kernel_journal
          index,       \* LMDB: graph_kernel_commit_index
          revision,    \* LMDB: commits of the session
          saved,       \* an exported snapshot, or NoExport
          made,        \* history: batches made
          held,        \* history: batches the kernel's graph is made from
          persisted,   \* history: batches whose append returned
          refreshed,   \* history: batches made by candidate refreshes
          ideal        \* history: the graph of a kernel that never was rebuilt

memory == <<graph, token, held>>
store == <<checkpoint, journal, index, revision, persisted, ideal>>
vars == <<memory, store, cache, op, saved, made, refreshed>>

NoToken == -1
NoExport == [there |-> FALSE]
NoCache == [gen |-> NoToken, batches |-> {}]
Idle == [phase |-> "idle", kind |-> "none", todo |-> <<>>, commit |-> FALSE]

-----------------------------------------------------------------------------
(* The kernel's graph: records of vertices and of candidate edges with the *)
(* active views, and per scope what its last batch brought.                *)

EmptyRecords == [live |-> [x \in Vertices \cup Edges |-> 0], dead |-> {}, rejected |-> {}]
EmptyGraph == [records |-> EmptyRecords, vertices |-> {}, edges |-> {},
               scopes |-> [s \in AssertedScopes \cup CandidateScopes |-> {}]]

Visible(edges, vertices) == {e \in edges : Ends(e) \subseteq vertices}

\* The newest record of each old element expires, and each new one gets a record.
Expire(records, old) ==
    [records EXCEPT !.live = [x \in Vertices \cup Edges |->
                                 IF x \in old /\ @[x] > 0 THEN @[x] - 1 ELSE @[x]],
                    !.dead = @ \cup {x \in old : records.live[x] > 0}]
Push(records, new) ==
    [records EXCEPT !.live = [x \in Vertices \cup Edges |->
                                 @[x] + IF x \in new THEN 1 ELSE 0]]

ReplaceVertexScope(g, s, new) ==
    LET vertices == (g.vertices \ g.scopes[s]) \cup new
    IN  [records  |-> Push(Expire(g.records, g.scopes[s]), new),
         vertices |-> vertices,
         edges    |-> Visible(g.edges, vertices),
         scopes   |-> [g.scopes EXCEPT ![s] = new]]

\* A record carries its status; whether a rejected edge is the newest record matters only
\* after a rebuild, where the newest record is the active one.
Judge(records, new, rejected) == [records EXCEPT !.rejected = (@ \ new) \cup rejected]

ReplaceEdgeScope(g, s, new, rejected) ==
    [records  |-> Judge(Push(Expire(g.records, g.scopes[s]), new), new, rejected),
     vertices |-> g.vertices,
     edges    |-> (g.edges \ (g.scopes[s] \cup new)) \cup Visible(new, g.vertices),
     scopes   |-> [g.scopes EXCEPT ![s] = new]]

ApplyKernelBatch(g, batch) ==
    IF batch.scope \in AssertedScopes
        THEN ReplaceVertexScope(g, batch.scope, batch.items)
        ELSE ReplaceEdgeScope(g, batch.scope, batch.items, batch.rejected)

\* Batches under numbers, in the order of the numbers.
ApplyKernelBatches(g, batches) ==
    MapThenFoldSet(LAMBDA n, h : ApplyKernelBatch(h, batches[n]), g,
                   LAMBDA n : n, Max, DOMAIN batches)

\* Full batches on an empty kernel: every record of the snapshot becomes active, the
\* expired ones too, and no scope lists it.
FullBatches(snapshot) ==
    LET recorded(S) == {x \in S : snapshot.live[x] > 0 \/ x \in snapshot.dead}
    IN  [EmptyGraph EXCEPT !.records = snapshot, !.vertices = recorded(Vertices),
                           !.edges = Visible(recorded(Edges), recorded(Vertices))]

\* A kernel made from a snapshot shows the records that are not expired.
FromSnapshot(snapshot) ==
    LET unexpired(S) == {x \in S : snapshot.live[x] > 0}
    IN  [EmptyGraph EXCEPT !.records = snapshot, !.vertices = unexpired(Vertices),
                           !.edges = Visible(unexpired(Edges), unexpired(Vertices))]

\* candidate_edge_is_active: an edge whose status is candidate_rejected is not.
Accepted(g) == g.edges \ g.records.rejected

OneRecordEach(S) == [EmptyRecords EXCEPT !.live = [x \in Vertices \cup Edges |->
                                                      IF x \in S THEN 1 ELSE 0]]

\* Mutant: the candidate edges are left out.
SnapshotLegacyAsserted(g) == OneRecordEach(g.vertices)

\* snapshot_legacy: the active records only, each once, without the rejected edges.
SnapshotLegacy(g) == OneRecordEach(g.vertices \cup Accepted(g))

-----------------------------------------------------------------------------
(* The store. *)

Entry(gen, batches, commit) == [gen |-> gen, batch |-> batches, commit |-> commit]
BatchEntry(gen, batch) == Entry(gen, {batch}, 0)
\* Mutant: the marker names the commit to come.
CommitMarkerOfNext(gen, commit) == Entry(gen, {}, commit + 1)

CommitMarker(gen, commit) == Entry(gen, {}, commit)

\* Mutant: the checkpoint's generation does not count.
GenerationsOfJournal == {0} \cup {e.gen : e \in journal}

Generations == {checkpoint.gen} \cup {e.gen : e \in journal}
KernelCurrentGeneration == CHOOSE g \in Generations : \A h \in Generations : h <= g

\* Mutants: off by one in either direction.
KernelJournalAfterNext(gen) == {e \in journal : e.gen > gen + 1}
KernelJournalAfterInclusive(gen) == {e \in journal : e.gen >= gen}

KernelJournalAfter(gen) == {e \in journal : e.gen > gen}
BatchesOf(entries) == UNION {e.batch : e \in entries}
Numbers(batches) == {b.number : b \in batches}

\* A rebuild sorts the entries by generation and skips the markers; no two batches
\* have one generation.
InOrder(entries) ==
    LET batchOf(gen) == BatchesOf({e \in entries : e.gen = gen})
    IN  [gen \in {e.gen : e \in {f \in entries : f.batch # {}}} |->
            CHOOSE b \in batchOf(gen) : TRUE]

DurableBatches == checkpoint.batches \cup Numbers(BatchesOf(KernelJournalAfter(checkpoint.gen)))
DurableGraph == ApplyKernelBatches(FullBatches(checkpoint.snapshot),
                                   InOrder(KernelJournalAfter(checkpoint.gen)))

-----------------------------------------------------------------------------
(* The runtime's access to the kernel. *)

Current == token = KernelCurrentGeneration

RebuildNativeGraph ==
    /\ graph' = DurableGraph
    /\ held' = DurableBatches
    /\ token' = KernelCurrentGeneration

\* Mutant: a call under way writes its checkpoint from the kernel as it is.
EnsureNativeGraphReadyIdle ==
    IF Current \/ op.phase # "idle" THEN UNCHANGED memory ELSE RebuildNativeGraph

\* ensure_native_graph_ready
EnsureNativeGraphReady == IF Current THEN UNCHANGED memory ELSE RebuildNativeGraph

Init ==
    /\ graph = EmptyGraph /\ token = 0 /\ held = {}
    /\ cache = NoCache
    /\ op = Idle
    /\ checkpoint = [gen |-> 0, snapshot |-> EmptyRecords, batches |-> {}]
    /\ journal = {} /\ index = {} /\ revision = 0
    /\ saved = NoExport
    /\ made = 0 /\ persisted = {} /\ refreshed = {} /\ ideal = EmptyGraph

-----------------------------------------------------------------------------
(* Operations. *)

Number(batches) == [i \in DOMAIN batches |->
    [number |-> made + i, scope |-> batches[i].scope, items |-> batches[i].items,
     rejected |-> batches[i].rejected]]

\* No call is under way, and the bound leaves room for the batches of another.
MayMake(n) == op.phase = "idle" /\ made + n <= MaxBatches

\* Every batch is applied to the kernel, of graph g made from batches h, before the first
\* is persisted.
Begin(kind, batches, commit, g, h) ==
    /\ MayMake(Len(batches))
    /\ made' = made + Len(batches)
    /\ graph' = ApplyKernelBatches(g, Number(batches))
    /\ held' = h \cup ((made + 1) .. (made + Len(batches)))
    /\ refreshed' = IF kind = "candidate" THEN refreshed \cup ((made + 1) .. (made + Len(batches)))
                                          ELSE refreshed
    /\ op' = [phase |-> "persist", kind |-> kind, todo |-> Number(batches), commit |-> commit]
    /\ UNCHANGED <<cache, store, saved>>

BeginAsIs(kind, batches, commit) ==
    Begin(kind, batches, commit, graph, held) /\ UNCHANGED token
BeginReady(kind, batches) ==
    /\ IF Current THEN Begin(kind, batches, FALSE, graph, held)
                  ELSE Begin(kind, batches, FALSE, DurableGraph, DurableBatches)
    /\ token' = KernelCurrentGeneration

AssertedBatch == [scope : AssertedScopes, items : SUBSET Vertices, rejected : {{}}]
CandidateBatch == [scope : CandidateScopes, items : SUBSET Edges, rejected : {{}}]

\* ingest: a document's batch, then perhaps its candidate batch, per document
Ingest ==
    \E n \in 1..BatchesPerCall, commit \in BOOLEAN :
        /\ MayMake(n)
        /\ commit => revision < MaxCommits
        /\ \E batches \in [1..n -> AssertedBatch \cup CandidateBatch] :
              /\ \A i \in 1..n : batches[i] \in CandidateBatch => i > 1 /\ batches[i - 1] \in AssertedBatch
              /\ \A i, j \in 1..n : i # j => batches[i].scope # batches[j].scope
              /\ BeginAsIs("ingest", batches, commit)

\* One batch of a session's chat and memory rows, made from the graph as it is read.
RefreshAssertedNativeGraph ==
    \E batch \in AssertedBatch : BeginReady("asserted", <<batch>>)

\* native_candidate_batches_from_rows: one batch per scope touched.
ScopeBatches(items, order, rejections) ==
    [i \in DOMAIN order |-> [scope |-> order[i], items |-> items[order[i]],
                             rejected |-> items[order[i]] \cap rejections]]

\* refresh_candidate_graph_edges and apply_nli_judgments: they read the graph, too, and
\* make one batch per document and per node touched, each row in the batch of its
\* document or node; judgments may reject edges.
PersistCandidateScopes ==
    \E scopes \in SUBSET CandidateScopes :
        /\ Cardinality(scopes) \in 1..ScopesPerRefresh
        /\ MayMake(Cardinality(scopes))
        /\ \E items \in [scopes -> SUBSET Edges], rejections \in SUBSET Edges,
              order \in SetToSeqs(scopes) :
               /\ \A s, t \in scopes : s # t => items[s] \cap items[t] = {}
               /\ rejections \subseteq UNION {items[s] : s \in scopes}
               /\ BeginReady("candidate", ScopeBatches(items, order, rejections))

\* persist_native_graph_batch up to the test of the journal's length
AppendKernelBatch ==
    LET generation == KernelCurrentGeneration + 1
        batch == Head(op.todo)
        appended == journal \cup {BatchEntry(generation, batch)}
    IN  /\ op.phase = "persist" /\ op.todo # <<>>
        /\ journal' = appended
        /\ persisted' = persisted \cup {batch.number}
        /\ ideal' = ApplyKernelBatch(ideal, batch)
        /\ cache' = NoCache
        /\ op' = [op EXCEPT !.todo = Tail(op.todo),
                            !.phase = IF Cardinality(appended) >= CompactionThreshold
                                      THEN "compact" ELSE "persist"]
        /\ UNCHANGED <<memory, checkpoint, index, revision, saved, made, refreshed>>

CompactKernelJournal(generation) == {e \in journal : e.gen > generation}

\* write_native_graph_checkpoint: the kernel's graph is brought up to date first.
WriteNativeGraphCheckpoint ==
    LET generation == KernelCurrentGeneration
    IN  /\ op.phase = "compact"
        /\ EnsureNativeGraphReady
        /\ checkpoint' = [gen |-> generation, snapshot |-> SnapshotLegacy(graph'),
                          batches |-> held']
        /\ journal' = CompactKernelJournal(generation)
        /\ cache' = [gen |-> generation, batches |-> held']
        /\ op' = [op EXCEPT !.phase = "persist"]
        /\ UNCHANGED <<index, revision, persisted, ideal, saved, made, refreshed>>

\* commit: session row, commit row, marker and index entry in one transaction
CommitSession ==
    LET generation == KernelCurrentGeneration
        commit == revision + 1
    IN  /\ revision' = commit
        /\ journal' = journal \cup {CommitMarker(generation, commit)}
        /\ index' = {i \in index : i.commit # commit}
                        \cup {[commit |-> commit, gen |-> generation, seen |-> persisted]}

\* Mutant: an ingest, too, declares the kernel current.
TokenOnReturnAlways == KernelCurrentGeneration

\* refresh_native_graph_rebuild_token, which only a candidate refresh calls
TokenOnReturn == IF op.kind = "candidate" THEN KernelCurrentGeneration ELSE token

\* The call returns: a candidate refresh declares the kernel current, an ingest leaves
\* the token as it was and may commit.
Finish ==
    /\ op.phase = "persist" /\ op.todo = <<>>
    /\ op' = Idle
    /\ IF op.commit THEN CommitSession ELSE UNCHANGED <<journal, index, revision>>
    /\ token' = TokenOnReturn
    /\ UNCHANGED <<graph, held, cache, checkpoint, persisted, ideal, saved, made, refreshed>>

Commit ==
    /\ op.phase = "idle" /\ revision < MaxCommits
    /\ CommitSession
    /\ UNCHANGED <<memory, cache, op, checkpoint, persisted, ideal, saved, made, refreshed>>

\* A store transaction of the call fails and its error returns; the kernel keeps what
\* was applied.
CallFails ==
    /\ Faults
    /\ op.phase # "idle"
    /\ IF op.phase = "compact" THEN EnsureNativeGraphReady ELSE UNCHANGED memory
    /\ op' = Idle
    /\ UNCHANGED <<store, cache, saved, made, refreshed>>

\* graph_snapshot, and every query that starts with it
ReadGraph ==
    /\ op.phase = "idle" /\ ~Current
    /\ EnsureNativeGraphReady
    /\ UNCHANGED <<store, cache, op, saved, made, refreshed>>

\* load_live_kernel_snapshot: the cached snapshot if it is of the current generation
LoadLiveKernelSnapshot ==
    /\ op.phase = "idle"
    /\ cache.gen # KernelCurrentGeneration
    /\ cache' = [gen |-> KernelCurrentGeneration, batches |-> DurableBatches]
    /\ UNCHANGED <<memory, store, op, saved, made, refreshed>>

-----------------------------------------------------------------------------
(* Snapshots and restart. *)

\* The kernel's snapshot is the checkpoint exported; no journal, no commit index.
ExportSnapshot ==
    /\ op.phase = "idle" /\ saved = NoExport
    /\ EnsureNativeGraphReady
    /\ saved' = [there |-> TRUE,
                 checkpoint |-> [gen |-> KernelCurrentGeneration, snapshot |-> graph'.records,
                                 batches |-> held'],
                 revision |-> revision, graph |-> graph']
    /\ UNCHANGED <<store, cache, op, made, refreshed>>

ImportSnapshot ==
    /\ op.phase = "idle" /\ saved.there
    /\ checkpoint' = saved.checkpoint
    /\ journal' = {} /\ index' = {}
    /\ revision' = saved.revision
    /\ cache' = [gen |-> saved.checkpoint.gen, batches |-> saved.checkpoint.batches]
    /\ graph' = FromSnapshot(saved.checkpoint.snapshot)
    /\ token' = saved.checkpoint.gen
    /\ held' = saved.checkpoint.batches
    /\ persisted' = saved.checkpoint.batches
    /\ ideal' = saved.graph
    /\ saved' = NoExport
    /\ UNCHANGED <<op, made, refreshed>>

\* A snapshot without a kernel invalidates the kernel and its cached snapshot, and the
\* kernel is rebuilt at once.
ImportDerivedSnapshot ==
    /\ op.phase = "idle"
    /\ cache' = NoCache
    /\ RebuildNativeGraph
    /\ UNCHANGED <<store, op, saved, made, refreshed>>

\* A crash, at any point, and the init of the next start.
Restart ==
    /\ cache' = NoCache
    /\ op' = Idle
    /\ RebuildNativeGraph
    /\ UNCHANGED <<store, saved, made, refreshed>>

Next == \/ Ingest \/ RefreshAssertedNativeGraph \/ PersistCandidateScopes
        \/ AppendKernelBatch \/ WriteNativeGraphCheckpoint \/ Finish \/ Commit \/ CallFails
        \/ ReadGraph \/ LoadLiveKernelSnapshot
        \/ ExportSnapshot \/ ImportSnapshot \/ ImportDerivedSnapshot \/ Restart

Spec == Init /\ [][Next]_vars

-----------------------------------------------------------------------------
(* Properties. *)

Batch == [number : 1..MaxBatches, scope : AssertedScopes \cup CandidateScopes,
          items : (SUBSET Vertices) \cup (SUBSET Edges), rejected : SUBSET Edges]
Checkpoint == [gen : Nat, snapshot : [live : [Vertices \cup Edges -> Nat],
                                      dead : SUBSET (Vertices \cup Edges),
                                      rejected : SUBSET Edges],
               batches : SUBSET (1..MaxBatches)]

\* Every piece of state has its type, and an export keeps what a checkpoint keeps.
TypeOK ==
    /\ made \in 0..MaxBatches
    /\ token \in Nat
    /\ held \subseteq 1..made /\ persisted \subseteq 1..made /\ refreshed \subseteq 1..made
    /\ cache.gen \in Nat \cup {NoToken} /\ cache.batches \subseteq 1..made
    /\ op.phase \in {"idle", "persist", "compact"} /\ op.kind \in {"none", "ingest", "asserted", "candidate"}
    /\ op.commit \in BOOLEAN /\ op.todo \in Seq(Batch)
    /\ checkpoint \in Checkpoint
    /\ \A e \in journal : /\ e.gen \in Nat /\ e.commit \in 0..revision
                          /\ e.batch = {} \/ \E b \in e.batch : b \in Batch /\ e.batch = {b}
    /\ revision \in 0..MaxCommits
    /\ \A i \in index : i.commit \in 1..revision /\ i.gen \in Nat /\ i.seen \subseteq 1..made
    /\ saved.there => saved.checkpoint \in Checkpoint /\ saved.revision \in 0..MaxCommits

\* Checkpoint and journal together hold every batch that was persisted and no other,
\* whatever was compacted, however a call ended: the compaction in the middle of a call
\* neither drops what the journal held nor takes in what the kernel is ahead by.
NothingLost == DurableBatches = persisted

\* A kernel the runtime takes for current, between two calls, lacks no persisted batch of
\* an ingest or of a session's rows (it may have more after a failed call): a rebuild that
\* a compaction forces inside such a call must not be mistaken for the graph of the whole
\* call.  A candidate refresh does declare such a kernel current.
CurrentKernelHasIngested == op.phase = "idle" /\ Current => persisted \ held \subseteq refreshed

\* The same for every batch: what refresh_candidate_graph_edges has persisted is what
\* candidate_edge_rows reads afterwards.
CurrentKernelHasAll == op.phase = "idle" /\ Current => persisted \subseteq held

\* The snapshot that store queries are served from, when its generation is the current
\* one, is made from every persisted batch.
CacheIsCurrent == cache.gen = KernelCurrentGeneration => cache.batches = persisted

\* What the delta since a commit reads from the journal are all the batches persisted
\* after the commit, as long as no checkpoint is newer than the commit.
DeltaSinceCommitComplete ==
    \A i \in index : i.gen >= checkpoint.gen =>
        persisted \ i.seen = Numbers(BatchesOf(KernelJournalAfter(i.gen)))

\* A restart shows every vertex and every edge not rejected that the persisted batches
\* leave in the graph, although checkpoints drop the scope maps, the expired records and
\* the pruned edges.
RestartShowsAll ==
    LET restarted == DurableGraph
    IN  /\ ideal.vertices \subseteq restarted.vertices
        /\ Accepted(ideal) \subseteq Accepted(restarted)

\* Only an import goes back to an earlier generation: neither a crash nor a compaction
\* makes the runtime reuse the generation of a batch for another.
GenerationsGrow ==
    [][KernelCurrentGeneration' < KernelCurrentGeneration => saved.there /\ ~saved'.there]_vars

\* What the current kernel shows are the vertices of the latest batch of each scope: the
\* next batch of a document replaces what the document brought before.
ReplacedIsGone == op.phase = "idle" /\ Current => graph.vertices \subseteq ideal.vertices
=============================================================================
