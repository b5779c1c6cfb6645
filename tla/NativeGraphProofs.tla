------------------------- MODULE NativeGraphProofs -------------------------
(***************************************************************************)
(* Theorems about the native graph of module NativeGraph, for any graph,   *)
(* threshold and number of batches and with failing store transactions:    *)
(* what the store holds, what its cache and its commit index say, what a   *)
(* kernel taken for current holds, and what a restart shows.  Only the     *)
(* last looks into the graphs: the first invariant, IInv, is about numbers *)
(* and generations, the second, DataInv, about batches and graphs.         *)
(***************************************************************************)
EXTENDS NativeGraph, SequenceTheorems, WellFoundedInduction, TLAPS

\* A batch before it gets its number.
Unnumbered == AssertedBatch \cup [scope : CandidateScopes, items : SUBSET Edges,
                                  rejected : SUBSET Edges]
Numbered == [number : Nat, scope : AssertedScopes \cup CandidateScopes,
             items : SUBSET (Vertices \cup Edges), rejected : SUBSET Edges]


\* The generations of the store have a greatest one, and a batch that the checkpoint does
\* not hold has a generation above the checkpoint's.
LogOK ==
    /\ checkpoint.gen \in Nat
    /\ \A e \in journal : e.gen \in Nat
    /\ \E m \in Generations : \A h \in Generations : h <= m
    /\ \A e \in journal : e.batch # {} => e.gen > checkpoint.gen
    /\ \A i \in index : i.gen \in Nat /\ i.gen <= KernelCurrentGeneration /\ i.seen \subseteq persisted
    /\ saved.there => saved.checkpoint.gen \in Nat /\ saved.checkpoint.batches \subseteq 1..made

\* The kernel's token is never ahead, and behind when a checkpoint is due.
KernelOK ==
    /\ made \in Nat
    /\ token \in Int /\ token <= KernelCurrentGeneration
    /\ op.phase = "compact" => token # KernelCurrentGeneration
    /\ held \subseteq 1..made

\* What is still to be persisted is not persisted yet, and nothing is between two calls.
TodoOK ==
    /\ persisted \subseteq 1..made
    /\ op.phase = "idle" => op.todo = <<>>
    /\ op.todo \in Seq(Numbered)
    /\ \A j \in 1..Len(op.todo) : op.todo[j].number \in 1..made /\ op.todo[j].number \notin persisted
    /\ \A j, k \in 1..Len(op.todo) : op.todo[j].number = op.todo[k].number => j = k

IInv == LogOK /\ KernelOK /\ TodoOK /\ NothingLost /\ CacheIsCurrent /\ DeltaSinceCommitComplete

-----------------------------------------------------------------------------
(* Lemmas. *)

\* The greatest element is the one chosen.
LEMMA GreatestChosen ==
    ASSUME NEW G, G \subseteq Nat, NEW m \in G, \A h \in G : h <= m
    PROVE  (CHOOSE g \in G : \A h \in G : h <= g) = m
<1>1. \A g \in G : (\A h \in G : h <= g) => g = m
  OBVIOUS
<1>2. \E g \in G : \A h \in G : h <= g
  OBVIOUS
<1> QED
  BY <1>1, <1>2

LEMMA CurrentIsGreatest ==
    ASSUME LogOK
    PROVE  /\ Generations \subseteq Nat
           /\ KernelCurrentGeneration \in Generations
           /\ KernelCurrentGeneration \in Nat
           /\ \A h \in Generations : h <= KernelCurrentGeneration
<1>1. Generations \subseteq Nat
  BY DEF LogOK, Generations
<1>2. PICK m \in Generations : \A h \in Generations : h <= m
  BY DEF LogOK
<1>3. KernelCurrentGeneration = m
  BY <1>1, <1>2, GreatestChosen DEF KernelCurrentGeneration
<1> QED
  BY <1>1, <1>2, <1>3

\* The same of the next state.
LEMMA NextCurrent ==
    ASSUME NEW m \in Nat, Generations' \subseteq Nat, m \in Generations',
           \A h \in Generations' : h <= m
    PROVE  KernelCurrentGeneration' = m
BY GreatestChosen DEF KernelCurrentGeneration

\* Nothing is newer than the current generation.
LEMMA NothingAfterCurrent ==
    ASSUME LogOK
    PROVE  KernelJournalAfter(KernelCurrentGeneration) = {}
<1>1. \A e \in journal : e.gen \in Generations
  BY DEF Generations
<1>2. \A e \in journal : e.gen \in Nat /\ e.gen <= KernelCurrentGeneration
  BY <1>1, CurrentIsGreatest
<1> QED
  BY <1>2, CurrentIsGreatest DEF KernelJournalAfter

\* An ensured kernel is current.
LEMMA EnsuredKernel ==
    ASSUME IInv, EnsureNativeGraphReady, NEW m, m = KernelCurrentGeneration
    PROVE  token' = m /\ held' \subseteq 1..made
<1>1. CASE Current
  BY <1>1 DEF IInv, KernelOK, EnsureNativeGraphReady, Current, memory
<1>2. CASE ~Current
  BY <1>2 DEF IInv, TodoOK, EnsureNativeGraphReady, RebuildNativeGraph, NothingLost
<1> QED
  BY <1>1, <1>2

\* Steps that leave the log alone leave what is said of it alone.
LEMMA LogUnchanged ==
    ASSUME IInv, UNCHANGED <<checkpoint, journal, index, persisted>>,
           made' \in Nat, made <= made',
           saved'.there => saved'.checkpoint.gen \in Nat /\ saved'.checkpoint.batches \subseteq 1..made'
    PROVE  /\ LogOK' /\ NothingLost' /\ DeltaSinceCommitComplete'
           /\ KernelCurrentGeneration' = KernelCurrentGeneration
           /\ DurableBatches' = DurableBatches
<1>1. KernelCurrentGeneration' = KernelCurrentGeneration /\ Generations' = Generations
  BY DEF KernelCurrentGeneration, Generations
<1>2. LogOK'
  BY <1>1 DEF IInv, LogOK
<1>3. \A g : KernelJournalAfter(g)' = KernelJournalAfter(g)
  BY DEF KernelJournalAfter
<1>4. DurableBatches' = DurableBatches
  BY DEF DurableBatches, KernelJournalAfter
<1>5. DeltaSinceCommitComplete'
  BY DEF IInv, DeltaSinceCommitComplete, KernelJournalAfter
<1> QED
  BY <1>1, <1>2, <1>4, <1>5 DEF IInv, NothingLost

-----------------------------------------------------------------------------
(* A call begins. *)

LEMMA NumberedBatches ==
    ASSUME made \in Nat, NEW batches, NEW n \in Nat,
           batches \in [1..n -> Unnumbered]
    PROVE  /\ Number(batches) \in Seq(Numbered)
           /\ Len(batches) = n /\ Len(Number(batches)) = n
           /\ \A j \in 1..n : Number(batches)[j].number = made + j
<1>1. Len(batches) = n /\ DOMAIN batches = 1..n
  OBVIOUS
<1>2. \A i \in 1..n : [number |-> made + i, scope |-> batches[i].scope,
                      items |-> batches[i].items, rejected |-> batches[i].rejected] \in Numbered
  BY DEF Numbered, Unnumbered, AssertedBatch
<1>3. Number(batches) \in [1..n -> Numbered]
  BY <1>1, <1>2 DEF Number
<1>4. \A j \in 1..n : Number(batches)[j].number = made + j
  BY <1>1 DEF Number
<1> QED
  BY <1>1, <1>3, <1>4

LEMMA BeginStep ==
    ASSUME IInv, NEW kind, NEW batches, NEW n \in Nat, NEW commit, NEW g, NEW h,
           batches \in [1..n -> Unnumbered],
           Begin(kind, batches, commit, g, h), h \subseteq 1..made,
           token' \in Int, token' <= KernelCurrentGeneration
    PROVE  IInv'
<1>1. made \in Nat /\ persisted \subseteq 1..made
  BY DEF IInv, KernelOK, TodoOK
<1>2. /\ made' = made + n /\ op'.todo = Number(batches) /\ op'.phase = "persist"
      /\ held' = h \cup ((made + 1) .. (made + n))
      /\ UNCHANGED <<cache, checkpoint, journal, index, persisted, saved>>
  BY NumberedBatches, <1>1 DEF Begin, store
<1>3. LogOK' /\ NothingLost' /\ DeltaSinceCommitComplete'
      /\ KernelCurrentGeneration' = KernelCurrentGeneration
  <2>1. made' \in Nat /\ made <= made'
    BY <1>1, <1>2
  <2>2. saved'.there => saved'.checkpoint.gen \in Nat /\ saved'.checkpoint.batches \subseteq 1..made'
    BY <1>1, <1>2 DEF IInv, LogOK
  <2> QED
    BY <1>2, <2>1, <2>2, LogUnchanged
<1>4. KernelOK'
  <2>1. held' \subseteq 1..made'
    BY <1>1, <1>2
  <2> QED
    BY <1>1, <1>2, <1>3, <2>1 DEF KernelOK
<1>5. TodoOK'
  BY <1>1, <1>2, NumberedBatches DEF TodoOK
<1>6. CacheIsCurrent'
  BY <1>2, <1>3 DEF IInv, CacheIsCurrent
<1> QED
  BY <1>3, <1>4, <1>5, <1>6 DEF IInv

LEMMA BeginReadyStep ==
    ASSUME IInv, NEW kind, NEW batches, NEW n \in Nat,
           batches \in [1..n -> Unnumbered],
           BeginReady(kind, batches)
    PROVE  IInv'
<1>1. token' = KernelCurrentGeneration /\ KernelCurrentGeneration \in Nat
  BY CurrentIsGreatest DEF BeginReady, IInv
<1>4. token' \in Int /\ token' <= KernelCurrentGeneration
  BY <1>1
<1>2. CASE Current
  <2>1. Begin(kind, batches, FALSE, graph, held)
    BY <1>2 DEF BeginReady
  <2>2. held \subseteq 1..made
    BY DEF IInv, KernelOK
  <2> QED
    BY <1>4, <2>1, <2>2, BeginStep
<1>3. CASE ~Current
  <2>1. Begin(kind, batches, FALSE, DurableGraph, DurableBatches)
    BY <1>3 DEF BeginReady
  <2>2. DurableBatches \subseteq 1..made
    BY DEF IInv, TodoOK, NothingLost
  <2> QED
    BY <1>4, <2>1, <2>2, BeginStep
<1> QED
  BY <1>2, <1>3

LEMMA IngestStep == IInv /\ Ingest => IInv'
<1> SUFFICES ASSUME IInv, Ingest PROVE IInv'
  OBVIOUS
<1>1. PICK n \in 1..BatchesPerCall, commit \in BOOLEAN :
        \E batches \in [1..n -> AssertedBatch \cup CandidateBatch] :
            BeginAsIs("ingest", batches, commit)
  BY DEF Ingest
<1>2. PICK batches \in [1..n -> AssertedBatch \cup CandidateBatch] :
            BeginAsIs("ingest", batches, commit)
  BY <1>1
<1>3. n \in Nat /\ batches \in [1..n -> Unnumbered]
  BY <1>2 DEF AssertedBatch, CandidateBatch, Unnumbered
<1>4. held \subseteq 1..made /\ token \in Int /\ token <= KernelCurrentGeneration
  BY DEF IInv, KernelOK
<1> QED
  BY <1>2, <1>3, <1>4, BeginStep DEF BeginAsIs

LEMMA RefreshAssertedStep == IInv /\ RefreshAssertedNativeGraph => IInv'
<1> SUFFICES ASSUME IInv, RefreshAssertedNativeGraph PROVE IInv'
  OBVIOUS
<1>1. PICK batch \in AssertedBatch : BeginReady("asserted", <<batch>>)
  BY DEF RefreshAssertedNativeGraph
<1>2. <<batch>> \in [1..1 -> Unnumbered]
  BY DEF Unnumbered
<1> QED
  BY <1>1, <1>2, BeginReadyStep

\* A candidate refresh begins with at least one batch.
LEMMA CandidateRefresh ==
    ASSUME PersistCandidateScopes
    PROVE  \E n \in Nat \ {0} :
               \E batches \in [1..n -> Unnumbered] : BeginReady("candidate", batches)
<1>1. PICK scopes \in SUBSET CandidateScopes :
        /\ Cardinality(scopes) \in 1..ScopesPerRefresh
        /\ \E items \in [scopes -> SUBSET Edges], rejections \in SUBSET Edges,
              order \in SetToSeqs(scopes) :
               BeginReady("candidate", ScopeBatches(items, order, rejections))
  BY DEF PersistCandidateScopes
<1>2. PICK items \in [scopes -> SUBSET Edges], rejections \in SUBSET Edges,
           order \in SetToSeqs(scopes) :
               BeginReady("candidate", ScopeBatches(items, order, rejections))
  BY <1>1
<1>3. Cardinality(scopes) \in Nat \ {0}
  BY <1>1, NativeGraphAssumption
<1>4. order \in [1..Cardinality(scopes) -> scopes]
  BY <1>2 DEF SetToSeqs
<1>5. ScopeBatches(items, order, rejections) \in [1..Cardinality(scopes) -> Unnumbered]
  BY <1>2, <1>4 DEF ScopeBatches, Unnumbered
<1> QED
  BY <1>2, <1>3, <1>4, <1>5

LEMMA PersistCandidateStep == IInv /\ PersistCandidateScopes => IInv'
<1> SUFFICES ASSUME IInv, PersistCandidateScopes PROVE IInv'
  OBVIOUS
<1>1. PICK n \in Nat \ {0} :
        \E batches \in [1..n -> Unnumbered] : BeginReady("candidate", batches)
  BY CandidateRefresh
<1>2. PICK batches \in [1..n -> Unnumbered] : BeginReady("candidate", batches)
  BY <1>1
<1> QED
  BY <1>2, BeginReadyStep

-----------------------------------------------------------------------------
(* Steps that leave the log alone. *)

LEMMA MemoryStep ==
    ASSUME IInv, UNCHANGED <<store, made>>, op' = op \/ op' = Idle,
           saved'.there => saved'.checkpoint.gen \in Nat /\ saved'.checkpoint.batches \subseteq 1..made,
           token' \in Int, token' <= KernelCurrentGeneration, held' \subseteq 1..made,
           token' = KernelCurrentGeneration => op'.phase # "compact",
           cache'.gen = KernelCurrentGeneration => cache'.batches = persisted
    PROVE  IInv'
<1>1. UNCHANGED <<checkpoint, journal, index, persisted, made>>
  BY DEF store
<1>2. made \in Nat /\ persisted \subseteq 1..made
  BY DEF IInv, KernelOK, TodoOK
<1>3. LogOK' /\ NothingLost' /\ DeltaSinceCommitComplete'
      /\ KernelCurrentGeneration' = KernelCurrentGeneration
  <2>1. made' \in Nat /\ made <= made'
    BY <1>1, <1>2
  <2> QED
    BY <1>1, <2>1, LogUnchanged
<1>4. KernelOK'
  BY <1>1, <1>2, <1>3 DEF KernelOK
<1>5. TodoOK'
  <2>1. CASE op' = op
    BY <1>1, <2>1 DEF IInv, TodoOK
  <2>2. CASE op' = Idle
    <3>1. op'.todo = <<>>
      BY <2>2 DEF Idle
    <3>2. Len(op'.todo) = 0 /\ op'.todo \in Seq(Numbered)
      BY <3>1
    <3> QED
      BY <1>1, <1>2, <3>2 DEF TodoOK
  <2> QED
    BY <2>1, <2>2
<1>6. CacheIsCurrent'
  BY <1>1, <1>3 DEF CacheIsCurrent
<1> QED
  BY <1>3, <1>4, <1>5, <1>6 DEF IInv

\* What MemoryStep asks of the parts a step leaves alone.
LEMMA KernelFacts ==
    ASSUME IInv
    PROVE  /\ KernelCurrentGeneration \in Nat
           /\ made \in Nat /\ persisted \subseteq 1..made /\ held \subseteq 1..made
           /\ token \in Int /\ token <= KernelCurrentGeneration
           /\ token = KernelCurrentGeneration => op.phase # "compact"
           /\ cache.gen = KernelCurrentGeneration => cache.batches = persisted
           /\ saved.there => saved.checkpoint.gen \in Nat /\ saved.checkpoint.batches \subseteq 1..made
           /\ DurableBatches = persisted
BY CurrentIsGreatest
   DEF IInv, LogOK, KernelOK, TodoOK, CacheIsCurrent, NothingLost

LEMMA CallFailsStep == IInv /\ CallFails => IInv'
<1> SUFFICES ASSUME IInv, CallFails PROVE IInv'
  OBVIOUS
<1>1. op' = Idle /\ UNCHANGED <<store, cache, saved, made>> /\ op'.phase # "compact"
  BY DEF CallFails, Idle
<1>2. token' \in Int /\ token' <= KernelCurrentGeneration /\ held' \subseteq 1..made
  <2>1. CASE op.phase = "compact"
    <3>1. EnsureNativeGraphReady
      BY <2>1 DEF CallFails
    <3> QED
      BY <3>1, KernelFacts, EnsuredKernel
  <2>2. CASE op.phase # "compact"
    BY <2>2, KernelFacts DEF CallFails, memory
  <2> QED
    BY <2>1, <2>2
<1> QED
  BY <1>1, <1>2, KernelFacts, MemoryStep

LEMMA ReadGraphStep == IInv /\ ReadGraph => IInv'
<1> SUFFICES ASSUME IInv, ReadGraph PROVE IInv'
  OBVIOUS
<1>1. op' = op /\ op'.phase # "compact" /\ UNCHANGED <<store, cache, saved, made>>
  BY DEF ReadGraph
<1>2. token' = KernelCurrentGeneration /\ held' \subseteq 1..made
  BY EnsuredKernel DEF ReadGraph
<1> QED
  BY <1>1, <1>2, KernelFacts, MemoryStep

LEMMA LoadLiveKernelSnapshotStep == IInv /\ LoadLiveKernelSnapshot => IInv'
<1> SUFFICES ASSUME IInv, LoadLiveKernelSnapshot PROVE IInv'
  OBVIOUS
<1>1. /\ cache'.batches = persisted
      /\ op' = op /\ UNCHANGED <<store, saved, made>> /\ UNCHANGED <<token, held>>
  BY KernelFacts DEF LoadLiveKernelSnapshot, memory
<1> QED
  BY <1>1, KernelFacts, MemoryStep

LEMMA ExportSnapshotStep == IInv /\ ExportSnapshot => IInv'
<1> SUFFICES ASSUME IInv, ExportSnapshot PROVE IInv'
  OBVIOUS
<1>1. op' = op /\ op'.phase # "compact" /\ UNCHANGED <<store, cache, made>>
  BY DEF ExportSnapshot
<1>2. token' = KernelCurrentGeneration /\ held' \subseteq 1..made
  BY EnsuredKernel DEF ExportSnapshot
<1>3. saved'.checkpoint.gen = KernelCurrentGeneration /\ saved'.checkpoint.batches = held'
  BY DEF ExportSnapshot
<1> QED
  BY <1>1, <1>2, <1>3, KernelFacts, MemoryStep

LEMMA ImportDerivedSnapshotStep == IInv /\ ImportDerivedSnapshot => IInv'
<1> SUFFICES ASSUME IInv, ImportDerivedSnapshot PROVE IInv'
  OBVIOUS
<1>1. op' = op /\ op'.phase # "compact" /\ UNCHANGED <<store, saved, made>>
  BY DEF ImportDerivedSnapshot
<1>2. token' = KernelCurrentGeneration /\ held' = persisted
  BY KernelFacts DEF ImportDerivedSnapshot, RebuildNativeGraph
<1>3. cache'.gen \notin Nat
  BY DEF ImportDerivedSnapshot, NoCache, NoToken
<1> QED
  BY <1>1, <1>2, <1>3, KernelFacts, MemoryStep

LEMMA RestartStep == IInv /\ Restart => IInv'
<1> SUFFICES ASSUME IInv, Restart PROVE IInv'
  OBVIOUS
<1>1. op' = Idle /\ op'.phase # "compact" /\ UNCHANGED <<store, saved, made>>
  BY DEF Restart, Idle
<1>2. token' = KernelCurrentGeneration /\ held' = persisted
  BY KernelFacts DEF Restart, RebuildNativeGraph
<1>3. cache'.gen \notin Nat
  BY DEF Restart, NoCache, NoToken
<1> QED
  BY <1>1, <1>2, <1>3, KernelFacts, MemoryStep

LEMMA StutterStep == IInv /\ UNCHANGED vars => IInv'
<1> SUFFICES ASSUME IInv, UNCHANGED vars PROVE IInv'
  OBVIOUS
<1>1. op' = op /\ UNCHANGED <<store, cache, saved, made>> /\ UNCHANGED <<token, held>>
  BY DEF vars, store, memory
<1> QED
  BY <1>1, KernelFacts, MemoryStep

-----------------------------------------------------------------------------
(* Steps that change the log. *)

LEMMA BatchesOfMore ==
    ASSUME NEW S, NEW e
    PROVE  BatchesOf(S \cup {e}) = BatchesOf(S) \cup e.batch
BY DEF BatchesOf

LEMMA NumbersOfMore ==
    ASSUME NEW S, NEW e, NEW b, e.batch = {b}
    PROVE  Numbers(BatchesOf(S \cup {e})) = Numbers(BatchesOf(S)) \cup {b.number}
<1>1. BatchesOf(S \cup {e}) = BatchesOf(S) \cup {b}
  BY BatchesOfMore
<1> QED
  BY <1>1 DEF Numbers

LEMMA NumbersOfMarker ==
    ASSUME NEW S, NEW e, e.batch = {}
    PROVE  BatchesOf(S \cup {e}) = BatchesOf(S)
BY BatchesOfMore

LEMMA NumbersOfNone == Numbers(BatchesOf({})) = {}
<1>1. BatchesOf({}) = {}
  BY DEF BatchesOf
<1> QED
  BY <1>1 DEF Numbers

LEMMA AppendKernelBatchStep ==
    IInv /\ AppendKernelBatch => IInv' /\ KernelCurrentGeneration' = KernelCurrentGeneration + 1
<1> SUFFICES ASSUME IInv, AppendKernelBatch
             PROVE  IInv' /\ KernelCurrentGeneration' = KernelCurrentGeneration + 1
  OBVIOUS
<1> DEFINE n == KernelCurrentGeneration
           batch == Head(op.todo)
           entry == BatchEntry(n + 1, batch)
<1>1. /\ op.phase = "persist" /\ op.todo # <<>>
      /\ journal' = journal \cup {entry} /\ persisted' = persisted \cup {batch.number}
      /\ cache' = NoCache /\ op'.todo = Tail(op.todo) /\ op'.phase # "idle"
      /\ UNCHANGED <<checkpoint, index, saved, made, token, held>>
  BY DEF AppendKernelBatch, memory
<1>2. n \in Nat /\ (\A h \in Generations : h \in Nat /\ h <= n) /\ checkpoint.gen \in Nat
      /\ checkpoint.gen <= n
  BY CurrentIsGreatest DEF IInv, Generations, LogOK
<1>3. entry.gen = n + 1 /\ entry.batch = {batch}
  BY DEF BatchEntry, Entry
<1>4. Generations' = Generations \cup {n + 1}
  BY <1>1, <1>3 DEF Generations
<1>5. KernelCurrentGeneration' = n + 1
  <2>1. Generations' \subseteq Nat /\ n + 1 \in Nat /\ n + 1 \in Generations'
    BY <1>2, <1>4
  <2>2. \A h \in Generations' : h <= n + 1
    BY <1>2, <1>4
  <2> QED
    BY <2>1, <2>2, NextCurrent
<1>6. batch = op.todo[1] /\ batch.number \in 1..made /\ batch.number \notin persisted
      /\ Len(op.todo) \in Nat /\ Len(op.todo) > 0
  BY <1>1 DEF IInv, TodoOK
<1>7. \A g \in Nat : g <= n =>
        {e \in journal' : e.gen > g} = KernelJournalAfter(g) \cup {entry}
  BY <1>1, <1>2, <1>3 DEF KernelJournalAfter
<1>8. \A g \in Nat : g <= n =>
        Numbers(BatchesOf({e \in journal' : e.gen > g}))
            = Numbers(BatchesOf(KernelJournalAfter(g))) \cup {batch.number}
  <2> HIDE DEF n, batch, entry
  <2> SUFFICES ASSUME NEW g \in Nat, g <= n
               PROVE  Numbers(BatchesOf({e \in journal' : e.gen > g}))
                        = Numbers(BatchesOf(KernelJournalAfter(g))) \cup {batch.number}
    OBVIOUS
  <2>1. {e \in journal' : e.gen > g} = KernelJournalAfter(g) \cup {entry}
    BY <1>7
  <2>2. Numbers(BatchesOf(KernelJournalAfter(g) \cup {entry}))
            = Numbers(BatchesOf(KernelJournalAfter(g))) \cup {batch.number}
    <3>1. entry.batch = {batch}
      BY <1>3
    <3> QED
      BY <3>1, NumbersOfMore, Zenon
  <2> QED
    BY <2>1, <2>2
<1>9. LogOK'
  <2>1. \A e \in journal' : e.gen \in Nat
    BY <1>1, <1>2, <1>3 DEF IInv, LogOK
  <2>2. \E m \in Generations' : \A h \in Generations' : h <= m
    BY <1>2, <1>4
  <2>3. \A e \in journal' : e.batch # {} => e.gen > checkpoint.gen
    BY <1>1, <1>2, <1>3 DEF IInv, LogOK
  <2>4. \A i \in index : i.gen \in Nat /\ i.gen <= n + 1 /\ i.seen \subseteq persisted'
    BY <1>1, <1>2 DEF IInv, LogOK
  <2> QED
    BY <1>1, <1>2, <1>5, <2>1, <2>2, <2>3, <2>4 DEF IInv, LogOK
<1>10. KernelOK'
  <2>1. token' \in Int /\ token' < n + 1 /\ made \in Nat /\ held \subseteq 1..made
    BY <1>1, <1>2 DEF IInv, KernelOK
  <2> QED
    BY <1>1, <1>2, <1>5, <2>1 DEF KernelOK
<1>11. TodoOK'
  <2>1. /\ op'.todo \in Seq(Numbered) /\ Len(op'.todo) = Len(op.todo) - 1
        /\ \A j \in 1..Len(op'.todo) : op'.todo[j] = op.todo[j + 1]
    BY <1>1, <1>6 DEF IInv, TodoOK
  <2>2. \A j \in 1..Len(op'.todo) : j + 1 \in 1..Len(op.todo) /\ j + 1 # 1
    BY <2>1, <1>6
  <2>3. 1 \in 1..Len(op.todo)
    BY <1>6
  <2>4. \A j \in 1..Len(op'.todo) : op'.todo[j].number \in 1..made /\ op'.todo[j].number \notin persisted'
    BY <1>1, <1>6, <2>1, <2>2, <2>3 DEF IInv, TodoOK
  <2>5. \A j, k \in 1..Len(op'.todo) : op'.todo[j].number = op'.todo[k].number => j = k
    <3> SUFFICES ASSUME NEW j \in 1..Len(op'.todo), NEW k \in 1..Len(op'.todo),
                        op'.todo[j].number = op'.todo[k].number
                 PROVE  j = k
      OBVIOUS
    <3>1. op.todo[j + 1].number = op.todo[k + 1].number
      BY <2>1
    <3>2. j + 1 = k + 1
      BY <2>2, <3>1 DEF IInv, TodoOK
    <3> QED
      BY <2>1, <1>6, <3>2
  <2>6. persisted' \subseteq 1..made
    BY <1>1, <1>6 DEF IInv, TodoOK
  <2> QED
    BY <1>1, <2>1, <2>4, <2>5, <2>6 DEF TodoOK
<1>12. NothingLost'
  <2>1. DurableBatches' = checkpoint.batches
                              \cup Numbers(BatchesOf({e \in journal' : e.gen > checkpoint.gen}))
    BY <1>1 DEF DurableBatches, KernelJournalAfter, Numbers, BatchesOf
  <2>2. DurableBatches' = DurableBatches \cup {batch.number}
    BY <1>2, <1>8, <2>1 DEF DurableBatches
  <2> QED
    BY <1>1, <2>2 DEF IInv, NothingLost
<1>13. CacheIsCurrent'
  BY <1>1, <1>2, <1>5 DEF CacheIsCurrent, NoCache, NoToken
<1>14. DeltaSinceCommitComplete'
  <2> SUFFICES ASSUME NEW i \in index, i.gen >= checkpoint.gen
               PROVE  persisted' \ i.seen = Numbers(BatchesOf({e \in journal' : e.gen > i.gen}))
    BY <1>1 DEF DeltaSinceCommitComplete, KernelJournalAfter, Numbers, BatchesOf
  <2>1. i.gen \in Nat /\ i.gen <= n /\ i.seen \subseteq persisted
    BY DEF IInv, LogOK
  <2>2. persisted' \ i.seen = (persisted \ i.seen) \cup {batch.number}
    BY <1>1, <1>6, <2>1
  <2>3. persisted \ i.seen = Numbers(BatchesOf(KernelJournalAfter(i.gen)))
    BY DEF IInv, DeltaSinceCommitComplete
  <2> QED
    BY <1>8, <2>1, <2>2, <2>3
<1> QED
  BY <1>5, <1>9, <1>10, <1>11, <1>12, <1>13, <1>14 DEF IInv

LEMMA WriteNativeGraphCheckpointStep ==
    IInv /\ WriteNativeGraphCheckpoint => IInv' /\ KernelCurrentGeneration' = KernelCurrentGeneration
<1> SUFFICES ASSUME IInv, WriteNativeGraphCheckpoint
             PROVE  IInv' /\ KernelCurrentGeneration' = KernelCurrentGeneration
  OBVIOUS
<1> DEFINE n == KernelCurrentGeneration
<1>1. /\ op.phase = "compact" /\ EnsureNativeGraphReady
      /\ checkpoint'.gen = n /\ checkpoint'.batches = held'
      /\ cache'.gen = n /\ cache'.batches = held'
      /\ journal' = CompactKernelJournal(n)
      /\ op'.phase = "persist" /\ op'.todo = op.todo
      /\ UNCHANGED <<index, persisted, saved, made>>
  BY DEF WriteNativeGraphCheckpoint
<1>2. n \in Nat /\ checkpoint.gen \in Nat /\ checkpoint.gen <= n
  BY CurrentIsGreatest DEF IInv, LogOK, Generations
<1>3. token' = n /\ held' = persisted
  <2>1. ~Current
    BY <1>1 DEF IInv, KernelOK, Current
  <2> QED
    BY <1>1, <2>1 DEF EnsureNativeGraphReady, RebuildNativeGraph, IInv, NothingLost
<1>4. journal' = {} /\ KernelJournalAfter(n) = {}
  BY <1>1, NothingAfterCurrent DEF IInv, CompactKernelJournal, KernelJournalAfter
<1>5. Generations' = {n}
  BY <1>1, <1>4 DEF Generations
<1>6. KernelCurrentGeneration' = n
  BY <1>2, <1>5, NextCurrent
<1>7. LogOK'
  <2>1. \A i \in index : i.gen \in Nat /\ i.gen <= n /\ i.seen \subseteq persisted
    BY DEF IInv, LogOK
  <2> QED
    BY <1>1, <1>2, <1>4, <1>5, <1>6, <2>1 DEF IInv, LogOK
<1>8. KernelOK' /\ TodoOK'
  BY <1>1, <1>2, <1>3, <1>6 DEF IInv, KernelOK, TodoOK
<1>9. NothingLost'
  <2>1. {e \in journal' : e.gen > checkpoint'.gen} = {}
    BY <1>4
  <2>2. DurableBatches' = held' \cup Numbers(BatchesOf({}))
    BY <1>1, <2>1 DEF DurableBatches, KernelJournalAfter, Numbers, BatchesOf
  <2> QED
    BY <1>1, <1>3, <2>2, NumbersOfNone DEF NothingLost
<1>10. CacheIsCurrent'
  BY <1>1, <1>3 DEF CacheIsCurrent
<1>11. DeltaSinceCommitComplete'
  <2> SUFFICES ASSUME NEW i \in index, i.gen >= n
               PROVE  persisted \ i.seen = Numbers(BatchesOf({e \in journal' : e.gen > i.gen}))
    BY <1>1 DEF DeltaSinceCommitComplete, KernelJournalAfter, Numbers, BatchesOf
  <2>1. i.gen = n
    BY <1>2 DEF IInv, LogOK
  <2>2. persisted \ i.seen = Numbers(BatchesOf(KernelJournalAfter(n)))
    BY <1>2, <2>1 DEF IInv, DeltaSinceCommitComplete
  <2>3. {e \in journal' : e.gen > i.gen} = {}
    BY <1>4
  <2> QED
    BY <1>4, <2>2, <2>3
<1> QED
  BY <1>6, <1>7, <1>8, <1>9, <1>10, <1>11 DEF IInv

\* A marker brings no batch, and its generation is the current one already.
LEMMA CommitSessionStep ==
    ASSUME IInv, CommitSession, UNCHANGED <<checkpoint, persisted, made, saved, held, cache>>,
           op'.phase = "idle", op'.todo = <<>>,
           token' = token \/ token' = KernelCurrentGeneration
    PROVE  IInv' /\ KernelCurrentGeneration' = KernelCurrentGeneration
<1> DEFINE n == KernelCurrentGeneration
           marker == CommitMarker(n, revision + 1)
           entry == [commit |-> revision + 1, gen |-> n, seen |-> persisted]
<1>1. /\ journal' = journal \cup {marker}
      /\ index' = {i \in index : i.commit # revision + 1} \cup {entry}
  BY DEF CommitSession
<1>2. n \in Nat /\ n \in Generations /\ checkpoint.gen \in Nat /\ checkpoint.gen <= n
      /\ Generations \subseteq Nat /\ \A h \in Generations : h <= n
  BY CurrentIsGreatest DEF IInv, LogOK, Generations
<1>3. marker.gen = n /\ marker.batch = {}
  BY DEF CommitMarker, Entry
<1>4. Generations' = Generations
  BY <1>1, <1>2, <1>3 DEF Generations
<1>5. KernelCurrentGeneration' = n
  BY <1>2, <1>4, NextCurrent
<1>6. ASSUME NEW g
      PROVE  BatchesOf({e \in journal' : e.gen > g}) = BatchesOf(KernelJournalAfter(g))
  <2> HIDE DEF marker, n
  <2>1. CASE n > g
    <3>1. {e \in journal' : e.gen > g} = KernelJournalAfter(g) \cup {marker}
      BY <1>1, <1>3, <2>1 DEF KernelJournalAfter
    <3>2. BatchesOf(KernelJournalAfter(g) \cup {marker}) = BatchesOf(KernelJournalAfter(g))
      <4>1. marker.batch = {}
        BY <1>3
      <4> QED
        BY <4>1, NumbersOfMarker, Zenon
    <3> QED
      BY <3>1, <3>2
  <2>2. CASE ~(n > g)
    <3>1. {e \in journal' : e.gen > g} = KernelJournalAfter(g)
      BY <1>1, <1>3, <2>2 DEF KernelJournalAfter
    <3> QED
      BY <3>1
  <2> QED
    BY <2>1, <2>2
<1>7. LogOK'
  <2>1. \A e \in journal' : e.gen \in Nat /\ (e.batch # {} => e.gen > checkpoint.gen)
    BY <1>1, <1>2, <1>3 DEF IInv, LogOK
  <2>2. \A i \in index' : i.gen \in Nat /\ i.gen <= n /\ i.seen \subseteq persisted
    BY <1>1, <1>2 DEF IInv, LogOK
  <2> QED
    BY <1>2, <1>4, <1>5, <2>1, <2>2 DEF IInv, LogOK
<1>8. KernelOK'
  BY <1>2, <1>5 DEF IInv, KernelOK
<1>9. TodoOK'
  <2>1. Len(op'.todo) = 0 /\ op'.todo \in Seq(Numbered)
    OBVIOUS
  <2> QED
    BY <2>1 DEF IInv, TodoOK
<1>10. NothingLost'
  <2>1. DurableBatches' = checkpoint.batches
                              \cup Numbers(BatchesOf({e \in journal' : e.gen > checkpoint.gen}))
    BY DEF DurableBatches, KernelJournalAfter, Numbers, BatchesOf
  <2> QED
    BY <1>6, <2>1 DEF IInv, NothingLost, DurableBatches
<1>11. CacheIsCurrent'
  BY <1>5 DEF IInv, CacheIsCurrent
<1>12. DeltaSinceCommitComplete'
  <2> SUFFICES ASSUME NEW i \in index', i.gen >= checkpoint.gen
               PROVE  persisted \ i.seen = Numbers(BatchesOf({e \in journal' : e.gen > i.gen}))
    BY DEF DeltaSinceCommitComplete, KernelJournalAfter, Numbers, BatchesOf
  <2>1. CASE i \in index
    BY <1>6, <2>1 DEF IInv, DeltaSinceCommitComplete
  <2>2. CASE i = entry
    <3>1. i.gen = n /\ i.seen = persisted
      BY <2>2
    <3>2. KernelJournalAfter(n) = {}
      BY NothingAfterCurrent DEF IInv
    <3> QED
      BY <1>6, <3>1, <3>2, NumbersOfNone
  <2> QED
    BY <1>1, <2>1, <2>2
<1> QED
  BY <1>5, <1>7, <1>8, <1>9, <1>10, <1>11, <1>12 DEF IInv

LEMMA SameCurrent ==
    ASSUME UNCHANGED <<checkpoint, journal>>
    PROVE  KernelCurrentGeneration' = KernelCurrentGeneration
BY DEF KernelCurrentGeneration, Generations

LEMMA FinishStep ==
    IInv /\ Finish => IInv' /\ KernelCurrentGeneration' = KernelCurrentGeneration
<1> SUFFICES ASSUME IInv, Finish
             PROVE  IInv' /\ KernelCurrentGeneration' = KernelCurrentGeneration
  OBVIOUS
<1>1. /\ op' = Idle /\ op'.phase # "compact" /\ op'.phase = "idle" /\ op'.todo = <<>>
      /\ UNCHANGED <<held, cache, checkpoint, persisted, ideal, saved, made>>
      /\ token' = token \/ token' = KernelCurrentGeneration
  BY DEF Finish, Idle, TokenOnReturn
<1>2. CASE op.commit
  <2>1. CommitSession
    BY <1>2 DEF Finish
  <2> QED
    BY <1>1, <2>1, CommitSessionStep
<1>3. CASE ~op.commit
  <2>1. UNCHANGED store
    BY <1>1, <1>3 DEF Finish, store
  <2>2. UNCHANGED <<checkpoint, journal>>
    BY <2>1 DEF store
  <2>3. token' \in Int /\ token' <= KernelCurrentGeneration
    BY <1>1, KernelFacts
  <2>4. IInv'
    BY <1>1, <2>1, <2>3, KernelFacts, MemoryStep
  <2> QED
    BY <2>2, <2>4, SameCurrent
<1> QED
  BY <1>2, <1>3

LEMMA ImportSnapshotStep == IInv /\ ImportSnapshot => IInv' /\ saved.there /\ ~saved'.there
<1> SUFFICES ASSUME IInv, ImportSnapshot PROVE IInv' /\ saved.there /\ ~saved'.there
  OBVIOUS
<1> DEFINE n == saved.checkpoint.gen
           kept == saved.checkpoint.batches
<1>1. /\ op.phase = "idle" /\ saved.there /\ ~saved'.there
      /\ checkpoint' = saved.checkpoint /\ journal' = {} /\ index' = {}
      /\ cache'.gen = n /\ cache'.batches = kept
      /\ token' = n /\ held' = kept /\ persisted' = kept
      /\ UNCHANGED <<op, made>>
  BY DEF ImportSnapshot, NoExport
<1>2. n \in Nat /\ kept \subseteq 1..made
  BY <1>1 DEF IInv, LogOK
<1>3. Generations' = {n}
  BY <1>1 DEF Generations
<1>4. KernelCurrentGeneration' = n
  BY <1>2, <1>3, NextCurrent
<1>5. LogOK'
  BY <1>1, <1>2, <1>3 DEF LogOK
<1>6. KernelOK'
  BY <1>1, <1>2, <1>4 DEF IInv, KernelOK
<1>7. TodoOK'
  <2>1. op'.todo = <<>> /\ Len(op'.todo) = 0 /\ op'.todo \in Seq(Numbered)
    BY <1>1 DEF IInv, TodoOK
  <2> QED
    BY <1>1, <1>2, <2>1 DEF TodoOK
<1>8. NothingLost'
  <2>1. {e \in journal' : e.gen > checkpoint'.gen} = {}
    BY <1>1
  <2>2. DurableBatches' = kept \cup Numbers(BatchesOf({}))
    BY <1>1, <2>1 DEF DurableBatches, KernelJournalAfter, Numbers, BatchesOf
  <2> QED
    BY <1>1, <2>2, NumbersOfNone DEF NothingLost
<1>9. CacheIsCurrent' /\ DeltaSinceCommitComplete'
  BY <1>1 DEF CacheIsCurrent, DeltaSinceCommitComplete
<1> QED
  BY <1>1, <1>5, <1>6, <1>7, <1>8, <1>9 DEF IInv

-----------------------------------------------------------------------------
(* The store's theorems. *)

LEMMA InitIInv == Init => IInv
<1> SUFFICES ASSUME Init PROVE IInv
  OBVIOUS
<1>1. /\ checkpoint.gen = 0 /\ checkpoint.batches = {} /\ journal = {} /\ index = {}
      /\ ~saved.there /\ made = 0 /\ token = 0 /\ held = {} /\ persisted = {}
      /\ cache.gen = -1 /\ op.phase = "idle" /\ op.todo = <<>>
  BY DEF Init, NoExport, NoCache, NoToken, Idle
<1>2. Generations = {0}
  BY <1>1 DEF Generations
<1>3. KernelCurrentGeneration = 0
  BY <1>2, GreatestChosen DEF KernelCurrentGeneration
<1>4. LogOK
  BY <1>1, <1>2 DEF LogOK
<1>5. KernelOK
  BY <1>1, <1>3 DEF KernelOK
<1>6. TodoOK
  <2>1. Len(op.todo) = 0 /\ op.todo \in Seq(Numbered)
    BY <1>1
  <2> QED
    BY <1>1, <2>1 DEF TodoOK
<1>7. NothingLost
  <2>1. KernelJournalAfter(checkpoint.gen) = {}
    BY <1>1 DEF KernelJournalAfter
  <2> QED
    BY <1>1, <2>1, NumbersOfNone DEF NothingLost, DurableBatches
<1>8. CacheIsCurrent /\ DeltaSinceCommitComplete
  BY <1>1, <1>3 DEF CacheIsCurrent, DeltaSinceCommitComplete
<1> QED
  BY <1>4, <1>5, <1>6, <1>7, <1>8 DEF IInv

\* What the current generation may do in a step.
GenerationMoves ==
    \/ KernelCurrentGeneration' = KernelCurrentGeneration
    \/ KernelCurrentGeneration' = KernelCurrentGeneration + 1
    \/ saved.there /\ ~saved'.there

LEMMA CommitStep ==
    IInv /\ Commit => IInv' /\ KernelCurrentGeneration' = KernelCurrentGeneration
<1> SUFFICES ASSUME IInv, Commit
             PROVE  IInv' /\ KernelCurrentGeneration' = KernelCurrentGeneration
  OBVIOUS
<1>1. /\ CommitSession /\ op.phase = "idle" /\ op' = op
      /\ UNCHANGED <<checkpoint, persisted, made, saved, held, cache, token>>
  BY DEF Commit, memory
<1>2. op'.phase = "idle" /\ op'.todo = <<>>
  BY <1>1 DEF IInv, TodoOK
<1> QED
  BY <1>1, <1>2, CommitSessionStep

LEMMA StepKeepsIInv == IInv /\ [Next]_vars => IInv' /\ GenerationMoves
<1> SUFFICES ASSUME IInv, [Next]_vars PROVE IInv' /\ GenerationMoves
  OBVIOUS
<1>0. UNCHANGED <<checkpoint, journal>> => GenerationMoves
  BY SameCurrent DEF GenerationMoves
<1>1. CASE Ingest
  <2>1. UNCHANGED <<checkpoint, journal>>
    BY <1>1 DEF Ingest, BeginAsIs, Begin, store
  <2> QED
    BY <1>0, <1>1, <2>1, IngestStep
<1>2. CASE RefreshAssertedNativeGraph
  <2>1. UNCHANGED <<checkpoint, journal>>
    BY <1>2 DEF RefreshAssertedNativeGraph, BeginReady, Begin, store
  <2> QED
    BY <1>0, <1>2, <2>1, RefreshAssertedStep
<1>3. CASE PersistCandidateScopes
  <2>1. UNCHANGED <<checkpoint, journal>>
    BY <1>3 DEF PersistCandidateScopes, BeginReady, Begin, store
  <2> QED
    BY <1>0, <1>3, <2>1, PersistCandidateStep
<1>4. CASE AppendKernelBatch
  BY <1>4, AppendKernelBatchStep DEF GenerationMoves
<1>5. CASE WriteNativeGraphCheckpoint
  BY <1>5, WriteNativeGraphCheckpointStep DEF GenerationMoves
<1>6. CASE Finish
  BY <1>6, FinishStep DEF GenerationMoves
<1>7. CASE Commit
  BY <1>7, CommitStep DEF GenerationMoves
<1>8. CASE CallFails
  <2>1. UNCHANGED <<checkpoint, journal>>
    BY <1>8 DEF CallFails, store
  <2> QED
    BY <1>0, <1>8, <2>1, CallFailsStep
<1>9. CASE ReadGraph
  <2>1. UNCHANGED <<checkpoint, journal>>
    BY <1>9 DEF ReadGraph, store
  <2> QED
    BY <1>0, <1>9, <2>1, ReadGraphStep
<1>10. CASE LoadLiveKernelSnapshot
  <2>1. UNCHANGED <<checkpoint, journal>>
    BY <1>10 DEF LoadLiveKernelSnapshot, store
  <2> QED
    BY <1>0, <1>10, <2>1, LoadLiveKernelSnapshotStep
<1>11. CASE ExportSnapshot
  <2>1. UNCHANGED <<checkpoint, journal>>
    BY <1>11 DEF ExportSnapshot, store
  <2> QED
    BY <1>0, <1>11, <2>1, ExportSnapshotStep
<1>12. CASE ImportSnapshot
  BY <1>12, ImportSnapshotStep DEF GenerationMoves
<1>13. CASE ImportDerivedSnapshot
  <2>1. UNCHANGED <<checkpoint, journal>>
    BY <1>13 DEF ImportDerivedSnapshot, store
  <2> QED
    BY <1>0, <1>13, <2>1, ImportDerivedSnapshotStep
<1>14. CASE Restart
  <2>1. UNCHANGED <<checkpoint, journal>>
    BY <1>14 DEF Restart, store
  <2> QED
    BY <1>0, <1>14, <2>1, RestartStep
<1>15. CASE UNCHANGED vars
  <2>1. UNCHANGED <<checkpoint, journal>>
    BY <1>15 DEF vars, store
  <2> QED
    BY <1>0, <1>15, <2>1, StutterStep
<1> QED
  BY <1>1, <1>2, <1>3, <1>4, <1>5, <1>6, <1>7, <1>8, <1>9, <1>10, <1>11, <1>12, <1>13, <1>14,
     <1>15 DEF Next

\* What the checkpoint and the journal after it hold are the batches whose append returned:
\* the compactions (phoenix-runtime's write_native_graph_checkpoint), failed calls,
\* restarts and imports lose none and take in none.
THEOREM NothingPersistedIsLost == Spec => []NothingLost
<1>1. IInv => NothingLost
  BY DEF IInv
<1> QED
  BY <1>1, InitIInv, StepKeepsIInv, PTL DEF Spec

\* load_live_kernel_snapshot never serves a cached snapshot that misses a persisted batch
\* or has one that is not.
THEOREM CacheServesCurrent == Spec => []CacheIsCurrent
<1>1. IInv => CacheIsCurrent
  BY DEF IInv
<1> QED
  BY <1>1, InitIInv, StepKeepsIInv, PTL DEF Spec

\* graph_delta finds in the journal every batch persisted since a commit no older than the
\* checkpoint, although compactions cut the journal.
THEOREM DeltasAreComplete == Spec => []DeltaSinceCommitComplete
<1>1. IInv => DeltaSinceCommitComplete
  BY DEF IInv
<1> QED
  BY <1>1, InitIInv, StepKeepsIInv, PTL DEF Spec

\* No step but an import goes back to an earlier generation, so append_kernel_batch gives no
\* two batches of one store the same.
THEOREM GenerationsOnlyGrow == Spec => GenerationsGrow
<1>1. IInv /\ [Next]_vars
        => [KernelCurrentGeneration' < KernelCurrentGeneration => saved.there /\ ~saved'.there]_vars
  <2> SUFFICES ASSUME IInv, [Next]_vars, KernelCurrentGeneration' < KernelCurrentGeneration
               PROVE  saved.there /\ ~saved'.there
    OBVIOUS
  <2>1. KernelCurrentGeneration \in Nat
    BY CurrentIsGreatest DEF IInv
  <2>2. KernelCurrentGeneration' # KernelCurrentGeneration
        /\ KernelCurrentGeneration' # KernelCurrentGeneration + 1
    BY <2>1
  <2> QED
    BY <2>2, StepKeepsIInv DEF GenerationMoves
<1> QED
  BY <1>1, InitIInv, StepKeepsIInv, PTL DEF Spec, GenerationsGrow

-----------------------------------------------------------------------------
(* What a kernel taken for current may lack. *)

\* A kernel whose token is the current generation, and the kernel of a candidate refresh
\* under way, lack no batch but those of candidate refreshes: only these declare the
\* kernel current after a compaction has rebuilt it in mid call.
HeldOK ==
    /\ token = KernelCurrentGeneration => persisted \ held \subseteq refreshed
    /\ op.kind = "candidate" /\ op.phase # "idle" =>
           /\ persisted \ held \subseteq refreshed
           /\ \A j \in 1..Len(op.todo) : op.todo[j].number \in refreshed

LEMMA EnsuredHeld ==
    ASSUME IInv, HeldOK, EnsureNativeGraphReady
    PROVE  persisted \ held' \subseteq refreshed
<1>1. CASE Current
  BY <1>1 DEF HeldOK, EnsureNativeGraphReady, Current, memory
<1>2. CASE ~Current
  BY <1>2, KernelFacts DEF EnsureNativeGraphReady, RebuildNativeGraph
<1> QED
  BY <1>1, <1>2

\* Steps between two calls, or that end one.
LEMMA HeldAtRest ==
    ASSUME op'.phase = "idle",
           token' = KernelCurrentGeneration' => persisted' \ held' \subseteq refreshed'
    PROVE  HeldOK'
BY DEF HeldOK

LEMMA HeldWhenBegun ==
    ASSUME IInv, HeldOK, NEW kind, NEW batches, BeginReady(kind, batches)
    PROVE  /\ persisted' \ held' \subseteq refreshed'
           /\ op'.kind = kind /\ op'.todo = Number(batches)
           /\ kind = "candidate" => (made + 1) .. (made + Len(batches)) \subseteq refreshed'
<1>1. /\ persisted' = persisted /\ op'.kind = kind /\ op'.todo = Number(batches)
      /\ refreshed \subseteq refreshed'
      /\ kind = "candidate" => (made + 1) .. (made + Len(batches)) \subseteq refreshed'
  BY DEF BeginReady, Begin, store
<1>2. CASE Current
  <2>1. held \subseteq held'
    BY <1>2 DEF BeginReady, Begin
  <2>2. persisted \ held \subseteq refreshed
    BY <1>2 DEF HeldOK, Current
  <2> QED
    BY <1>1, <2>1, <2>2
<1>3. CASE ~Current
  <2>1. DurableBatches \subseteq held'
    BY <1>3 DEF BeginReady, Begin
  <2> QED
    BY <1>1, <2>1, KernelFacts
<1> QED
  BY <1>2, <1>3

LEMMA CandidateHeld ==
    ASSUME IInv, HeldOK, PersistCandidateScopes
    PROVE  HeldOK'
<1>1. PICK n \in Nat \ {0} :
        \E batches \in [1..n -> Unnumbered] : BeginReady("candidate", batches)
  BY CandidateRefresh
<1>7. PICK batches \in [1..n -> Unnumbered] : BeginReady("candidate", batches)
  BY <1>1
<1>2. made \in Nat
  BY KernelFacts
<1>3. /\ Number(batches) \in Seq(Numbered) /\ Len(batches) = n /\ Len(Number(batches)) = n
      /\ \A k \in 1..n : Number(batches)[k].number = made + k
  BY <1>7, <1>2, NumberedBatches
<1>4. /\ persisted' \ held' \subseteq refreshed' /\ op'.todo = Number(batches)
      /\ (made + 1) .. (made + Len(batches)) \subseteq refreshed'
  BY <1>7, HeldWhenBegun
<1>5. \A k \in 1..n : made + k \in (made + 1) .. (made + n)
  BY <1>2
<1>6. \A k \in 1..Len(op'.todo) : op'.todo[k].number \in refreshed'
  BY <1>3, <1>4, <1>5
<1> QED
  BY <1>4, <1>6 DEF HeldOK

LEMMA AppendHeld ==
    ASSUME IInv, HeldOK, AppendKernelBatch
    PROVE  HeldOK'
<1>1. /\ op.phase = "persist" /\ op.todo # <<>>
      /\ persisted' = persisted \cup {Head(op.todo).number}
      /\ op'.todo = Tail(op.todo) /\ op'.kind = op.kind
      /\ token' = token /\ held' = held /\ refreshed' = refreshed
  BY DEF AppendKernelBatch, memory
<1>2. token' # KernelCurrentGeneration'
  BY <1>1, KernelFacts, AppendKernelBatchStep
<1>3. op.todo \in Seq(Numbered) /\ Len(op.todo) \in Nat /\ Len(op.todo) > 0
      /\ Head(op.todo) = op.todo[1]
  BY <1>1 DEF IInv, TodoOK
<1>4. Len(op'.todo) = Len(op.todo) - 1
      /\ \A k \in 1..Len(op'.todo) : op'.todo[k] = op.todo[k + 1]
  BY <1>1, <1>3
<1>5. ASSUME op.kind = "candidate"
      PROVE  /\ persisted' \ held' \subseteq refreshed'
             /\ \A k \in 1..Len(op'.todo) : op'.todo[k].number \in refreshed'
  <2>1. /\ persisted \ held \subseteq refreshed
        /\ \A k \in 1..Len(op.todo) : op.todo[k].number \in refreshed
    BY <1>1, <1>5 DEF HeldOK
  <2>2. Head(op.todo).number \in refreshed
    BY <1>3, <2>1
  <2> QED
    BY <1>1, <1>3, <1>4, <2>1, <2>2
<1> QED
  BY <1>1, <1>2, <1>5 DEF HeldOK

LEMMA CheckpointHeld ==
    ASSUME IInv, HeldOK, WriteNativeGraphCheckpoint
    PROVE  HeldOK'
<1>1. /\ op.phase = "compact" /\ EnsureNativeGraphReady
      /\ persisted' = persisted /\ refreshed' = refreshed
      /\ op'.todo = op.todo /\ op'.kind = op.kind /\ op'.phase = "persist"
  BY DEF WriteNativeGraphCheckpoint
<1>2. persisted' \ held' \subseteq refreshed'
  BY <1>1, EnsuredHeld
<1>3. op.kind = "candidate" => \A k \in 1..Len(op.todo) : op.todo[k].number \in refreshed
  BY <1>1 DEF HeldOK
<1> QED
  BY <1>1, <1>2, <1>3 DEF HeldOK

LEMMA StepKeepsHeldOK ==
    ASSUME IInv, HeldOK, [Next]_vars
    PROVE  HeldOK'
<1>1. CASE Ingest
  <2>1. /\ op'.kind = "ingest" /\ UNCHANGED <<token, checkpoint, journal, persisted, refreshed>>
        /\ held \subseteq held'
    BY <1>1 DEF Ingest, BeginAsIs, Begin, store
  <2> QED
    BY <2>1, SameCurrent DEF HeldOK
<1>2. CASE RefreshAssertedNativeGraph
  <2>1. PICK batch \in AssertedBatch : BeginReady("asserted", <<batch>>)
    BY <1>2 DEF RefreshAssertedNativeGraph
  <2>2. persisted' \ held' \subseteq refreshed' /\ op'.kind = "asserted"
    BY <2>1, HeldWhenBegun
  <2> QED
    BY <2>2 DEF HeldOK
<1>3. CASE PersistCandidateScopes
  BY <1>3, CandidateHeld
<1>4. CASE AppendKernelBatch
  BY <1>4, AppendHeld
<1>5. CASE WriteNativeGraphCheckpoint
  BY <1>5, CheckpointHeld
<1>6. CASE Finish
  <2>1. /\ op.phase = "persist" /\ op'.phase = "idle" /\ UNCHANGED <<held, persisted, refreshed>>
        /\ token' = IF op.kind = "candidate" THEN KernelCurrentGeneration ELSE token
    BY <1>6 DEF Finish, Idle, TokenOnReturn
  <2>2. KernelCurrentGeneration' = KernelCurrentGeneration
    BY <1>6, FinishStep
  <2> QED
    BY <2>1, <2>2, HeldAtRest DEF HeldOK
<1>7. CASE Commit
  <2>1. op'.phase = "idle" /\ UNCHANGED <<held, persisted, token, refreshed>>
    BY <1>7 DEF Commit, memory
  <2>2. KernelCurrentGeneration' = KernelCurrentGeneration
    BY <1>7, CommitStep
  <2> QED
    BY <2>1, <2>2, HeldAtRest DEF HeldOK
<1>8. CASE CallFails
  <2>1. op'.phase = "idle" /\ UNCHANGED <<persisted, checkpoint, journal, refreshed>>
    BY <1>8 DEF CallFails, Idle, store
  <2>2. CASE op.phase = "compact"
    BY <1>8, <2>1, <2>2, EnsuredHeld, HeldAtRest DEF CallFails
  <2>3. CASE op.phase # "compact"
    <3>1. UNCHANGED <<token, held>>
      BY <1>8, <2>3 DEF CallFails, memory
    <3> QED
      BY <2>1, <3>1, SameCurrent, HeldAtRest DEF HeldOK
  <2> QED
    BY <2>2, <2>3
<1>9. CASE ReadGraph
  BY <1>9, EnsuredHeld, HeldAtRest DEF ReadGraph, store
<1>10. CASE LoadLiveKernelSnapshot
  <2>1. op'.phase = "idle" /\ UNCHANGED <<token, held, persisted, checkpoint, journal, refreshed>>
    BY <1>10 DEF LoadLiveKernelSnapshot, memory, store
  <2> QED
    BY <2>1, SameCurrent, HeldAtRest DEF HeldOK
<1>11. CASE ExportSnapshot
  BY <1>11, EnsuredHeld, HeldAtRest DEF ExportSnapshot, store
<1>12. CASE ImportSnapshot
  BY <1>12, HeldAtRest DEF ImportSnapshot
<1>13. CASE ImportDerivedSnapshot
  BY <1>13, KernelFacts, HeldAtRest DEF ImportDerivedSnapshot, RebuildNativeGraph, store
<1>14. CASE Restart
  <2>1. op'.phase = "idle" /\ persisted' = persisted /\ held' = persisted
    BY <1>14, KernelFacts DEF Restart, RebuildNativeGraph, Idle, store
  <2> QED
    BY <2>1, HeldAtRest
<1>15. CASE UNCHANGED vars
  <2>1. UNCHANGED <<op, token, held, persisted, checkpoint, journal, refreshed>>
    BY <1>15 DEF vars, memory, store
  <2> QED
    BY <2>1, SameCurrent DEF HeldOK
<1> QED
  BY <1>1, <1>2, <1>3, <1>4, <1>5, <1>6, <1>7, <1>8, <1>9, <1>10, <1>11, <1>12, <1>13, <1>14,
     <1>15 DEF Next

\* Between two calls a kernel whose token is the current one has every persisted batch of
\* an ingest or of a session's rows, for any number of scopes a refresh touches: only
\* refresh_native_graph_rebuild_token declares a kernel current that a compaction rebuilt
\* in mid call, and what such a kernel lacks are batches of candidate refreshes.
THEOREM CurrentKernelHasWhatWasIngested == Spec => []CurrentKernelHasIngested
<1>1. Init => HeldOK
  BY DEF Init, HeldOK, Idle
<1>2. IInv /\ HeldOK /\ [Next]_vars => HeldOK'
  BY StepKeepsHeldOK
<1>3. HeldOK => CurrentKernelHasIngested
  BY DEF HeldOK, CurrentKernelHasIngested, Current
<1> QED
  BY <1>1, <1>2, <1>3, InitIInv, StepKeepsIInv, PTL DEF Spec

-----------------------------------------------------------------------------
(* Replay, the fold of a set of numbered batches over a graph.  What is    *)
(* true of the empty set and stays true with each further number is true   *)
(* of every set of numbers: else there is a least bound with a             *)
(* counterexample below it.                                                *)

\* Every set of naturals but the empty one has a least element.
LEMMA LeastOf ==
    ASSUME NEW S \in SUBSET Nat, S # {}
    PROVE  \E n \in S : \A k \in S : n <= k
<1>1. PICK n \in S : \A k \in S : ~ (<<k, n>> \in OpToRel(<, Nat))
  BY NatLessThanWellFounded, WFMin
<1>2. \A k \in S : ~ (k < n)
  BY <1>1 DEF OpToRel
<1> QED
  BY <1>2

LEMMA MaxIsGreatest ==
    ASSUME NEW n \in Nat, NEW s \in SUBSET (1..n), s # {}
    PROVE  Max(s) \in s /\ \A k \in s : k <= Max(s)
<1> DEFINE bounds == {m \in Nat : \A k \in s : k <= m}
<1>1. n \in bounds
  OBVIOUS
<1>2. PICK m \in bounds : \A k \in bounds : m <= k
  BY <1>1, LeastOf
<1>3. m \in s
  <2>1. SUFFICES ASSUME m \notin s PROVE FALSE
    OBVIOUS
  <2>2. PICK k \in s : TRUE
    OBVIOUS
  <2>3. m \in Nat /\ k \in Nat /\ 1 <= k /\ k <= m /\ m - 1 \in Nat
    BY <1>2, <2>2
  <2>4. \A j \in s : j <= m - 1
    BY <1>2, <2>1, <2>3
  <2>5. m - 1 \in bounds
    BY <2>3, <2>4
  <2>6. m <= m - 1
    <3> HIDE DEF bounds
    <3> QED
      BY <1>2, <2>5
  <2> QED
    BY <2>3, <2>6
<1>4. \E x \in s : \A y \in s : x >= y
  BY <1>2, <1>3
<1>5. Max(s) \in s /\ \A y \in s : Max(s) >= y
  <2> HIDE DEF bounds
  <2> QED
    BY <1>4 DEF Max
<1> QED
  BY <1>5

\* f is what the fold of batches over each subset of D comes to.
Replayed(g, batches, f, D) ==
    f = [s \in SUBSET D |-> IF s = {} THEN g ELSE ApplyKernelBatch(f[s \ {Max(s)}], batches[Max(s)])]

LEMMA MaxOf ==
    ASSUME NEW m \in Nat, NEW s \in SUBSET (1 .. m + 1), m + 1 \in s
    PROVE  Max(s) = m + 1
<1>1. m + 1 \in Nat
  OBVIOUS
<1>2. Max(s) \in s /\ m + 1 <= Max(s)
  BY <1>1, MaxIsGreatest
<1>4. Max(s) \in 1 .. m + 1
  BY <1>2
<1>3. Max(s) \in Nat /\ Max(s) <= m + 1
  BY <1>4
<1> QED
  BY <1>2, <1>3

\* The recursion that a fold stands for has a solution.
LEMMA FoldExists ==
    ASSUME NEW n \in Nat, NEW D \in SUBSET (1..n), NEW g, NEW batches
    PROVE  \E f : Replayed(g, batches, f, D)
<1> DEFINE P(m) == \E f : Replayed(g, batches, f, D \cap 1..m)
           bad == {m \in Nat : ~P(m)}
<1>1. P(0)
  <2>1. D \cap 1..0 = {}
    OBVIOUS
  <2>2. [s \in SUBSET {} |-> g] = [s \in SUBSET {} |-> IF s = {} THEN g
            ELSE ApplyKernelBatch([t \in SUBSET {} |-> g][s \ {Max(s)}], batches[Max(s)])]
    OBVIOUS
  <2> QED
    BY <2>1, <2>2 DEF Replayed
<1>2. ASSUME NEW m \in Nat, P(m)
      PROVE  P(m + 1)
  <2>1. PICK f : Replayed(g, batches, f, D \cap 1..m)
    BY <1>2
  <2>2. CASE m + 1 \notin D
    <3>1. D \cap 1 .. m + 1 = D \cap 1..m
      BY <2>2
    <3> QED
      BY <2>1, <3>1
  <2>3. CASE m + 1 \in D
    <3> DEFINE E == D \cap 1 .. m + 1
               h == [s \in SUBSET E |-> IF m + 1 \in s
                        THEN ApplyKernelBatch(f[s \ {m + 1}], batches[m + 1]) ELSE f[s]]
    <3>1. ASSUME NEW s \in SUBSET E
          PROVE  h[s] = IF s = {} THEN g ELSE ApplyKernelBatch(h[s \ {Max(s)}], batches[Max(s)])
      <4>1. CASE m + 1 \in s
        <5>1. Max(s) = m + 1
          BY <4>1, MaxOf
        <5>2. s \ {m + 1} \in SUBSET E /\ m + 1 \notin s \ {m + 1}
          OBVIOUS
        <5>3. h[s \ {m + 1}] = f[s \ {m + 1}]
          BY <5>2
        <5> QED
          BY <4>1, <5>1, <5>3
      <4>2. CASE m + 1 \notin s
        <5>1. s \in SUBSET (D \cap 1..m)
          BY <4>2
        <5>2. h[s] = f[s]
          BY <4>2
        <5>3. f[s] = IF s = {} THEN g ELSE ApplyKernelBatch(f[s \ {Max(s)}], batches[Max(s)])
          BY <2>1, <5>1 DEF Replayed
        <5>4. s # {} => h[s \ {Max(s)}] = f[s \ {Max(s)}]
          BY <4>2
        <5> QED
          BY <5>2, <5>3, <5>4
      <4> QED
        BY <4>1, <4>2
    <3>2. Replayed(g, batches, h, E)
      <4> DEFINE F(s) == IF s = {} THEN g ELSE ApplyKernelBatch(h[s \ {Max(s)}], batches[Max(s)])
      <4>1. \A s \in SUBSET E : h[s] = F(s)
        BY <3>1
      <4>2. h = [s \in SUBSET E |-> h[s]]
        OBVIOUS
      <4> HIDE DEF h, F
      <4>3. h = [s \in SUBSET E |-> F(s)]
        BY <4>1, <4>2
      <4> QED
        BY <4>3 DEF Replayed, F
    <3> HIDE DEF h
    <3> QED
      BY <3>2
  <2> QED
    BY <2>2, <2>3
<1>3. bad = {}
  <2>1. SUFFICES ASSUME bad # {} PROVE FALSE
    OBVIOUS
  <2>2. PICK m \in bad : \A k \in bad : m <= k
    <3> HIDE DEF P
    <3> QED
      BY <2>1, LeastOf
  <2>3. m # 0
    BY <1>1, <2>2
  <2>4. m - 1 \in Nat /\ m - 1 \notin bad /\ (m - 1) + 1 = m
    <3> HIDE DEF P
    <3> QED
      BY <2>2, <2>3
  <2>5. P(m - 1)
    BY <2>4
  <2>6. P((m - 1) + 1)
    <3> HIDE DEF P
    <3> QED
      BY <1>2, <2>4, <2>5
  <2> QED
    BY <2>2, <2>4, <2>6
<1>4. P(n)
  BY <1>3
<1>5. D \cap 1..n = D
  OBVIOUS
<1> QED
  BY <1>4, <1>5

LEMMA FoldSolves ==
    ASSUME NEW n \in Nat, NEW batches, DOMAIN batches \subseteq 1..n, NEW g
    PROVE  \E f : /\ ApplyKernelBatches(g, batches) = f[DOMAIN batches]
                  /\ Replayed(g, batches, f, DOMAIN batches)
<1>1. \E f : Replayed(g, batches, f, DOMAIN batches)
  BY FoldExists
<1>2. \E f : f = [s \in SUBSET (DOMAIN batches) |-> IF s = {} THEN g
                     ELSE ApplyKernelBatch(f[s \ {Max(s)}], batches[Max(s)])]
  BY <1>1 DEF Replayed
<1>3. \E f : /\ ApplyKernelBatches(g, batches) = f[DOMAIN batches]
             /\ f = [s \in SUBSET (DOMAIN batches) |-> IF s = {} THEN g
                     ELSE ApplyKernelBatch(f[s \ {Max(s)}], batches[Max(s)])]
  BY <1>2 DEF ApplyKernelBatches, MapThenFoldSet
<1> QED
  BY <1>3 DEF Replayed

\* A property of the empty set that each further number keeps is one of all numbered sets.
LEMMA FoldStays ==
    ASSUME NEW n \in Nat, NEW D \in SUBSET (1..n), NEW Good,
           {} \in Good,
           \A s \in SUBSET D : s # {} /\ s \ {Max(s)} \in Good => s \in Good
    PROVE  \A s \in SUBSET D : s \in Good
<1> DEFINE bad == {m \in Nat : \E s \in SUBSET D : s \subseteq 1..m /\ s \notin Good}
<1>1. SUFFICES ASSUME bad # {} PROVE FALSE
  <2>1. \A s \in SUBSET D : s \subseteq 1..n
    OBVIOUS
  <2> QED
    BY <2>1
<1>2. PICK m \in bad : \A k \in bad : m <= k
  BY <1>1, LeastOf
<1>3. PICK s \in SUBSET D : s \subseteq 1..m /\ s \notin Good
  BY <1>2
<1>4. s # {} /\ m \in Nat
  BY <1>2, <1>3
<1>5. s \in SUBSET (1..m)
  BY <1>3
<1>6. Max(s) \in s /\ \A k \in s : k <= Max(s)
  BY <1>4, <1>5, MaxIsGreatest
<1>12. Max(s) \in 1..m
  BY <1>5, <1>6
<1>7. Max(s) \in Nat /\ 1 <= Max(s) /\ Max(s) <= m
  BY <1>4, <1>12
<1>8. ASSUME NEW k \in s \ {Max(s)} PROVE k \in 1 .. Max(s) - 1
  <2>1. k \in 1..m /\ k <= Max(s) /\ k # Max(s)
    BY <1>5, <1>6
  <2> QED
    BY <1>4, <1>7, <2>1
<1>9. s \ {Max(s)} \notin Good /\ s \ {Max(s)} \in SUBSET D
  BY <1>3, <1>4
<1>10. Max(s) - 1 \in bad
  BY <1>7, <1>8, <1>9
<1>11. m <= Max(s) - 1
  <2> HIDE DEF bad
  <2> QED
    BY <1>2, <1>10
<1> QED
  BY <1>4, <1>7, <1>11

LEMMA ReplayNone ==
    ASSUME NEW batches, DOMAIN batches = {}, NEW g
    PROVE  ApplyKernelBatches(g, batches) = g
<1>1. PICK f : ApplyKernelBatches(g, batches) = f[{}] /\ Replayed(g, batches, f, {})
  <2>1. DOMAIN batches \subseteq 1..0
    OBVIOUS
  <2> QED
    BY <2>1, FoldSolves
<1> QED
  BY <1>1 DEF Replayed

LEMMA ReplayType ==
    ASSUME NEW n \in Nat, NEW batches, DOMAIN batches \subseteq 1..n, NEW G, NEW g \in G,
           \A h \in G : \A k \in DOMAIN batches : ApplyKernelBatch(h, batches[k]) \in G
    PROVE  ApplyKernelBatches(g, batches) \in G
<1> DEFINE D == DOMAIN batches
<1>1. PICK f : ApplyKernelBatches(g, batches) = f[D] /\ Replayed(g, batches, f, D)
  BY FoldSolves
<1> DEFINE Good == {s \in SUBSET D : f[s] \in G}
<1>2. {} \in Good
  BY <1>1 DEF Replayed
<1>3. ASSUME NEW s \in SUBSET D, s # {}, s \ {Max(s)} \in Good
      PROVE  s \in Good
  <2>1. f[s] = ApplyKernelBatch(f[s \ {Max(s)}], batches[Max(s)])
    BY <1>1, <1>3 DEF Replayed
  <2>2. s \in SUBSET (1..n)
    OBVIOUS
  <2>3. Max(s) \in s
    BY <1>3, <2>2, MaxIsGreatest
  <2> QED
    BY <1>3, <2>1, <2>3
<1>4. D \in SUBSET (1..n) /\ D \in SUBSET D
  OBVIOUS
<1>6. \A s \in SUBSET D : s # {} /\ s \ {Max(s)} \in Good => s \in Good
  BY <1>3
<1>5. D \in Good
  <2> HIDE DEF Good, D
  <2> QED
    BY <1>2, <1>4, <1>6, FoldStays
<1> QED
  BY <1>1, <1>5

\* Batches more are those of batches, of numbers up to n, and one of number m above them.
OneMore(batches, n, more, m) ==
    /\ n \in Nat /\ m \in Nat /\ n < m
    /\ DOMAIN batches \subseteq 1..n /\ DOMAIN more = DOMAIN batches \cup {m}
    /\ \A k \in DOMAIN batches : more[k] = batches[k]

\* One more batch, of a number above the others, is applied last.
LEMMA ReplayMore ==
    ASSUME NEW batches, NEW n, NEW more, NEW m, OneMore(batches, n, more, m), NEW g
    PROVE  ApplyKernelBatches(g, more) = ApplyKernelBatch(ApplyKernelBatches(g, batches), more[m])
<1> n \in Nat /\ m \in Nat /\ n < m /\ DOMAIN batches \subseteq 1..n
    /\ DOMAIN more = DOMAIN batches \cup {m} /\ \A k \in DOMAIN batches : more[k] = batches[k]
  BY DEF OneMore
<1> DEFINE D == DOMAIN batches
           E == DOMAIN more
<1>1. PICK f : ApplyKernelBatches(g, batches) = f[D] /\ Replayed(g, batches, f, D)
  BY FoldSolves
<1>2. E \subseteq 1..m
  OBVIOUS
<1>3. PICK h : ApplyKernelBatches(g, more) = h[E] /\ Replayed(g, more, h, E)
  BY <1>2, FoldSolves
<1> DEFINE Good == {s \in SUBSET D : f[s] = h[s]}
<1>4. {} \in Good
  BY <1>1, <1>3 DEF Replayed
<1>5. ASSUME NEW s \in SUBSET D, s # {}, s \ {Max(s)} \in Good
      PROVE  s \in Good
  <2>1. f[s] = ApplyKernelBatch(f[s \ {Max(s)}], batches[Max(s)])
    BY <1>1, <1>5 DEF Replayed
  <2>2. s \in SUBSET (1..n) /\ s \in SUBSET E
    OBVIOUS
  <2>3. Max(s) \in s
    BY <1>5, <2>2, MaxIsGreatest
  <2>4. h[s] = ApplyKernelBatch(h[s \ {Max(s)}], more[Max(s)])
    BY <1>3, <1>5, <2>2 DEF Replayed
  <2>5. more[Max(s)] = batches[Max(s)]
    BY <2>3
  <2>6. f[s \ {Max(s)}] = h[s \ {Max(s)}]
    BY <1>5
  <2> QED
    BY <2>1, <2>4, <2>5, <2>6
<1>6. D \in Good
  <2>1. D \in SUBSET (1..n) /\ D \in SUBSET D
    OBVIOUS
  <2>2. \A s \in SUBSET D : s # {} /\ s \ {Max(s)} \in Good => s \in Good
    BY <1>5
  <2> HIDE DEF Good, D
  <2> QED
    BY <1>4, <2>1, <2>2, FoldStays
<1>7. Max(E) = m
  <2>1. m - 1 \in Nat /\ (m - 1) + 1 = m
    OBVIOUS
  <2>2. E \in SUBSET (1 .. (m - 1) + 1) /\ (m - 1) + 1 \in E
    BY <2>1
  <2> QED
    BY <2>1, <2>2, MaxOf
<1>8. E \ {m} = D
  <2>1. m \notin D
    OBVIOUS
  <2> QED
    BY <2>1
<1>9. h[E] = ApplyKernelBatch(h[E \ {Max(E)}], more[Max(E)])
  <2>1. E # {} /\ E \in SUBSET E
    OBVIOUS
  <2> QED
    BY <1>3, <2>1 DEF Replayed
<1>10. f[D] = h[D]
  BY <1>6
<1> QED
  BY <1>1, <1>3, <1>7, <1>8, <1>9, <1>10

-----------------------------------------------------------------------------
(* What is in the journal and in the graphs. *)

Records == [live : [Vertices \cup Edges -> Nat], dead : SUBSET (Vertices \cup Edges),
            rejected : SUBSET Edges]
Graph == [records : Records, vertices : SUBSET Vertices, edges : SUBSET Edges,
          scopes : [AssertedScopes \cup CandidateScopes -> SUBSET (Vertices \cup Edges)]]

\* A batch of a document or session brings vertices, one of a candidate scope edges.
GoodBatch == {b \in Batch : IF b.scope \in AssertedScopes THEN b.items \subseteq Vertices
                                                          ELSE b.items \subseteq Edges}

\* An edge that is shown has its ends shown, and what is shown has a record.
GoodGraph == {g \in Graph : /\ \A e \in g.edges : Ends(e) \subseteq g.vertices
                            /\ \A x \in g.vertices \cup g.edges :
                                  g.records.live[x] > 0 \/ x \in g.records.dead}

\* The batches of entries are what calls made, one for each generation.
OneEach(entries) ==
    /\ \A e \in entries : e.batch = {} \/ \E b \in GoodBatch : e.batch = {b}
    /\ \A e, f \in entries : e.batch # {} /\ f.batch # {} /\ e.gen = f.gen => e.batch = f.batch

JournalOK ==
    /\ OneEach(journal)
    /\ \A i \in 1..Len(op.todo) : op.todo[i] \in GoodBatch

\* A commit that is under way is within the bound.
CommitOK == op.commit => op.phase # "idle" /\ revision < MaxCommits

GraphsOK ==
    /\ graph \in GoodGraph
    /\ ideal \in GoodGraph
    /\ saved.there => saved.graph \in GoodGraph /\ saved.checkpoint.snapshot = saved.graph.records

\* Graph d shows what graph g shows, rejected edges apart, and its scopes list no more than
\* those of g, so the next batch of a scope removes no more from it.
Covers(d, g) ==
    /\ g.vertices \subseteq d.vertices
    /\ Accepted(g) \subseteq Accepted(d)
    /\ \A s \in AssertedScopes \cup CandidateScopes : d.scopes[s] \subseteq g.scopes[s]

RestartCovers == Covers(DurableGraph, ideal)

DataInv == TypeOK /\ JournalOK /\ CommitOK /\ GraphsOK /\ RestartCovers

-----------------------------------------------------------------------------
(* What the operations of the kernel do to a graph. *)

LEMMA RecordsOfPush ==
    ASSUME NEW r \in Records, NEW new \in SUBSET (Vertices \cup Edges)
    PROVE  /\ Push(r, new) \in Records
           /\ Push(r, new).dead = r.dead /\ Push(r, new).rejected = r.rejected
           /\ \A x \in Vertices \cup Edges :
                 Push(r, new).live[x] = r.live[x] + IF x \in new THEN 1 ELSE 0
<1>1. r.live \in [Vertices \cup Edges -> Nat] /\ r.dead \in SUBSET (Vertices \cup Edges)
      /\ r.rejected \in SUBSET Edges
      /\ r = [live |-> r.live, dead |-> r.dead, rejected |-> r.rejected]
  BY DEF Records
<1> DEFINE live == [x \in Vertices \cup Edges |-> r.live[x] + IF x \in new THEN 1 ELSE 0]
<1>2. Push(r, new) = [live |-> live, dead |-> r.dead, rejected |-> r.rejected]
  BY <1>1 DEF Push
<1>3. live \in [Vertices \cup Edges -> Nat]
  BY <1>1
<1> QED
  BY <1>1, <1>2, <1>3 DEF Records

LEMMA RecordsOfExpire ==
    ASSUME NEW r \in Records, NEW old \in SUBSET (Vertices \cup Edges)
    PROVE  /\ Expire(r, old) \in Records
           /\ Expire(r, old).rejected = r.rejected
           /\ \A x \in Vertices \cup Edges : r.live[x] > 0 \/ x \in r.dead =>
                  Expire(r, old).live[x] > 0 \/ x \in Expire(r, old).dead
<1>1. r.live \in [Vertices \cup Edges -> Nat] /\ r.dead \in SUBSET (Vertices \cup Edges)
      /\ r.rejected \in SUBSET Edges
      /\ r = [live |-> r.live, dead |-> r.dead, rejected |-> r.rejected]
  BY DEF Records
<1> DEFINE live == [x \in Vertices \cup Edges |-> IF x \in old /\ r.live[x] > 0
                                                  THEN r.live[x] - 1 ELSE r.live[x]]
           dead == r.dead \cup {x \in old : r.live[x] > 0}
<1>2. Expire(r, old) = [live |-> live, dead |-> dead, rejected |-> r.rejected]
  <2> DEFINE s == [r EXCEPT !.live = live]
  <2>1. s = [live |-> live, dead |-> r.dead, rejected |-> r.rejected]
    BY <1>1
  <2>2. Expire(r, old) = [s EXCEPT !.dead = dead]
    BY <1>1 DEF Expire
  <2> HIDE DEF s, live, dead
  <2> QED
    BY <2>1, <2>2
<1>3. ASSUME NEW x \in Vertices \cup Edges
      PROVE  live[x] \in Nat /\ (r.live[x] > 0 \/ x \in r.dead => live[x] > 0 \/ x \in dead)
  BY <1>1
<1>4. live \in [Vertices \cup Edges -> Nat] /\ dead \in SUBSET (Vertices \cup Edges)
  BY <1>1, <1>3
<1> QED
  BY <1>1, <1>2, <1>3, <1>4 DEF Records

LEMMA RecordsOfJudge ==
    ASSUME NEW r \in Records, NEW new, NEW rejected \in SUBSET Edges
    PROVE  /\ Judge(r, new, rejected) \in Records
           /\ Judge(r, new, rejected).live = r.live /\ Judge(r, new, rejected).dead = r.dead
           /\ Judge(r, new, rejected).rejected = (r.rejected \ new) \cup rejected
<1>1. Judge(r, new, rejected)
        = [live |-> r.live, dead |-> r.dead, rejected |-> (r.rejected \ new) \cup rejected]
  BY DEF Judge, Records
<1> QED
  BY <1>1 DEF Records

LEMMA GraphFields ==
    ASSUME NEW g \in GoodGraph
    PROVE  /\ g.records \in Records /\ g.vertices \subseteq Vertices /\ g.edges \subseteq Edges
           /\ g.scopes \in [AssertedScopes \cup CandidateScopes -> SUBSET (Vertices \cup Edges)]
           /\ \A e \in g.edges : Ends(e) \subseteq g.vertices
           /\ \A x \in g.vertices \cup g.edges : g.records.live[x] > 0 \/ x \in g.records.dead
BY DEF GoodGraph, Graph

LEMMA BatchFields ==
    ASSUME NEW b \in GoodBatch
    PROVE  /\ b.scope \in AssertedScopes \cup CandidateScopes /\ b.number \in 1..MaxBatches
           /\ b.items \subseteq Vertices \cup Edges
           /\ b.scope \in AssertedScopes => b.items \subseteq Vertices
           /\ b.scope \notin AssertedScopes => b.items \subseteq Edges
           /\ b.rejected \subseteq Edges
BY DEF GoodBatch, Batch

\* The records after a batch: whatever had a record has one, and what the batch brings.
LEMMA RecordsOfBatch ==
    ASSUME NEW r \in Records, NEW old \in SUBSET (Vertices \cup Edges),
           NEW new \in SUBSET (Vertices \cup Edges)
    PROVE  /\ Push(Expire(r, old), new) \in Records
           /\ Push(Expire(r, old), new).rejected = r.rejected
           /\ \A x \in Vertices \cup Edges : x \in new \/ r.live[x] > 0 \/ x \in r.dead =>
                 \/ Push(Expire(r, old), new).live[x] > 0
                 \/ x \in Push(Expire(r, old), new).dead
<1>1. Expire(r, old) \in Records /\ Expire(r, old).rejected = r.rejected
  BY RecordsOfExpire
<1>2. \A x \in Vertices \cup Edges : Expire(r, old).live[x] \in Nat
  BY <1>1 DEF Records
<1>3. /\ Push(Expire(r, old), new) \in Records
      /\ Push(Expire(r, old), new).dead = Expire(r, old).dead
      /\ Push(Expire(r, old), new).rejected = Expire(r, old).rejected
      /\ \A x \in Vertices \cup Edges :
            Push(Expire(r, old), new).live[x] = Expire(r, old).live[x] + IF x \in new THEN 1 ELSE 0
  BY <1>1, RecordsOfPush
<1>4. ASSUME NEW x \in Vertices \cup Edges, x \in new \/ r.live[x] > 0 \/ x \in r.dead
      PROVE  \/ Push(Expire(r, old), new).live[x] > 0
             \/ x \in Push(Expire(r, old), new).dead
  BY <1>2, <1>3, <1>4, RecordsOfExpire
<1> QED
  BY <1>1, <1>3, <1>4

LEMMA ApplyGood ==
    ASSUME NEW g \in GoodGraph, NEW b \in GoodBatch
    PROVE  ApplyKernelBatch(g, b) \in GoodGraph
<1> DEFINE r == Push(Expire(g.records, g.scopes[b.scope]), b.items)
           a == ApplyKernelBatch(g, b)
<1>1. g.scopes[b.scope] \in SUBSET (Vertices \cup Edges)
  BY GraphFields, BatchFields
<1>2. /\ r \in Records
      /\ \A x \in Vertices \cup Edges : x \in b.items \/ g.records.live[x] > 0 \/ x \in g.records.dead =>
            r.live[x] > 0 \/ x \in r.dead
  BY <1>1, RecordsOfBatch, GraphFields, BatchFields
<1> HIDE DEF r
<1>3. [g.scopes EXCEPT ![b.scope] = b.items]
          \in [AssertedScopes \cup CandidateScopes -> SUBSET (Vertices \cup Edges)]
  BY GraphFields, BatchFields
<1>4. CASE b.scope \in AssertedScopes
  <2> DEFINE v == (g.vertices \ g.scopes[b.scope]) \cup b.items
  <2>1. a = [records |-> r, vertices |-> v, edges |-> Visible(g.edges, v),
             scopes |-> [g.scopes EXCEPT ![b.scope] = b.items]]
    BY <1>4 DEF ApplyKernelBatch, ReplaceVertexScope, r
  <2>2. v \subseteq Vertices /\ Visible(g.edges, v) \subseteq g.edges
        /\ \A e \in Visible(g.edges, v) : Ends(e) \subseteq v
    BY <1>4, GraphFields, BatchFields DEF Visible
  <2>3. \A x \in v \cup Visible(g.edges, v) : r.live[x] > 0 \/ x \in r.dead
    BY <1>2, <2>2, GraphFields
  <2> HIDE DEF v
  <2> QED
    BY <1>2, <1>3, <2>1, <2>2, <2>3, GraphFields DEF GoodGraph, Graph
<1>5. CASE b.scope \notin AssertedScopes
  <2> DEFINE e == (g.edges \ (g.scopes[b.scope] \cup b.items)) \cup Visible(b.items, g.vertices)
             q == Judge(r, b.items, b.rejected)
  <2>1. a = [records |-> q, vertices |-> g.vertices, edges |-> e,
             scopes |-> [g.scopes EXCEPT ![b.scope] = b.items]]
    BY <1>5 DEF ApplyKernelBatch, ReplaceEdgeScope, r
  <2>4. q \in Records /\ q.live = r.live /\ q.dead = r.dead
    BY <1>2, BatchFields, RecordsOfJudge
  <2>2. e \subseteq Edges /\ e \subseteq g.edges \cup b.items /\ \A x \in e : Ends(x) \subseteq g.vertices
    BY <1>5, GraphFields, BatchFields DEF Visible
  <2>3. \A x \in g.vertices \cup e : q.live[x] > 0 \/ x \in q.dead
    BY <1>2, <2>2, <2>4, GraphFields
  <2> HIDE DEF e, q
  <2> QED
    BY <1>3, <2>1, <2>2, <2>3, <2>4, GraphFields DEF GoodGraph, Graph
<1> QED
  BY <1>4, <1>5

\* The rejected edges after a batch.
LEMMA RejectedAfter ==
    ASSUME NEW g \in GoodGraph, NEW b \in GoodBatch
    PROVE  ApplyKernelBatch(g, b).records.rejected
               = IF b.scope \in AssertedScopes THEN g.records.rejected
                 ELSE (g.records.rejected \ b.items) \cup b.rejected
<1> DEFINE r == Push(Expire(g.records, g.scopes[b.scope]), b.items)
<1>1. g.scopes[b.scope] \in SUBSET (Vertices \cup Edges)
  BY GraphFields, BatchFields
<1>2. r \in Records /\ r.rejected = g.records.rejected
  BY <1>1, RecordsOfBatch, GraphFields, BatchFields
<1> HIDE DEF r
<1>3. CASE b.scope \in AssertedScopes
  <2>1. ApplyKernelBatch(g, b).records = r
    BY <1>3 DEF ApplyKernelBatch, ReplaceVertexScope, r
  <2> QED
    BY <1>2, <1>3, <2>1
<1>4. CASE b.scope \notin AssertedScopes
  <2>1. ApplyKernelBatch(g, b).records = Judge(r, b.items, b.rejected)
    BY <1>4 DEF ApplyKernelBatch, ReplaceEdgeScope, r
  <2> QED
    BY <1>2, <1>4, <2>1, BatchFields, RecordsOfJudge
<1> QED
  BY <1>3, <1>4

\* A batch that both graphs get leaves the one covering the other.
LEMMA ApplyCovers ==
    ASSUME NEW d \in GoodGraph, NEW g \in GoodGraph, Covers(d, g), NEW b \in GoodBatch
    PROVE  Covers(ApplyKernelBatch(d, b), ApplyKernelBatch(g, b))
<1> DEFINE dv == (d.vertices \ d.scopes[b.scope]) \cup b.items
           gv == (g.vertices \ g.scopes[b.scope]) \cup b.items
           de == (d.edges \ (d.scopes[b.scope] \cup b.items)) \cup Visible(b.items, d.vertices)
           ge == (g.edges \ (g.scopes[b.scope] \cup b.items)) \cup Visible(b.items, g.vertices)
           da == ApplyKernelBatch(d, b)
           ga == ApplyKernelBatch(g, b)
<1>1. \A s \in AssertedScopes \cup CandidateScopes :
         /\ d.scopes[s] \subseteq g.scopes[s]
         /\ [d.scopes EXCEPT ![b.scope] = b.items][s] = IF s = b.scope THEN b.items ELSE d.scopes[s]
         /\ [g.scopes EXCEPT ![b.scope] = b.items][s] = IF s = b.scope THEN b.items ELSE g.scopes[s]
  BY GraphFields DEF Covers
<1>2. d.scopes[b.scope] \subseteq g.scopes[b.scope]
  BY <1>1, BatchFields
<1>3. CASE b.scope \in AssertedScopes
  <2>1. /\ da.vertices = dv /\ da.edges = Visible(d.edges, dv)
        /\ ga.vertices = gv /\ ga.edges = Visible(g.edges, gv)
        /\ da.scopes = [d.scopes EXCEPT ![b.scope] = b.items]
        /\ ga.scopes = [g.scopes EXCEPT ![b.scope] = b.items]
    BY <1>3 DEF ApplyKernelBatch, ReplaceVertexScope
  <2>2. da.records.rejected = d.records.rejected /\ ga.records.rejected = g.records.rejected
    BY <1>3, RejectedAfter
  <2>3. gv \subseteq dv
    BY <1>2 DEF Covers
  <2>4. Visible(g.edges, gv) \ g.records.rejected \subseteq Visible(d.edges, dv) \ d.records.rejected
    BY <2>3 DEF Covers, Accepted, Visible
  <2>5. Accepted(ga) \subseteq Accepted(da)
    BY <2>1, <2>2, <2>4 DEF Accepted
  <2>6. \A s \in AssertedScopes \cup CandidateScopes : da.scopes[s] \subseteq ga.scopes[s]
    BY <1>1, <2>1
  <2>7. ga.vertices \subseteq da.vertices
    BY <2>1, <2>3
  <2> QED
    BY <2>5, <2>6, <2>7, Zenon DEF Covers
<1>4. CASE b.scope \notin AssertedScopes
  <2>1. /\ da.vertices = d.vertices /\ da.edges = de
        /\ ga.vertices = g.vertices /\ ga.edges = ge
        /\ da.scopes = [d.scopes EXCEPT ![b.scope] = b.items]
        /\ ga.scopes = [g.scopes EXCEPT ![b.scope] = b.items]
    BY <1>4 DEF ApplyKernelBatch, ReplaceEdgeScope
  <2>2. /\ da.records.rejected = (d.records.rejected \ b.items) \cup b.rejected
        /\ ga.records.rejected = (g.records.rejected \ b.items) \cup b.rejected
    BY <1>4, RejectedAfter
  <2>3. Visible(b.items, g.vertices) \subseteq Visible(b.items, d.vertices)
    BY DEF Covers, Visible
  <2>4. ge \ ((g.records.rejected \ b.items) \cup b.rejected)
           \subseteq de \ ((d.records.rejected \ b.items) \cup b.rejected)
    <3>1. Visible(b.items, g.vertices) \subseteq b.items
      BY DEF Visible
    <3> QED
      BY <1>2, <2>3, <3>1 DEF Covers, Accepted
  <2>5. Accepted(ga) \subseteq Accepted(da)
    BY <2>1, <2>2, <2>4 DEF Accepted
  <2>6. \A s \in AssertedScopes \cup CandidateScopes : da.scopes[s] \subseteq ga.scopes[s]
    BY <1>1, <2>1
  <2>7. ga.vertices \subseteq da.vertices
    BY <2>1 DEF Covers
  <2> QED
    BY <2>5, <2>6, <2>7, Zenon DEF Covers
<1> QED
  BY <1>3, <1>4

LEMMA EmptyGood == EmptyGraph \in GoodGraph /\ EmptyRecords \in Records
<1>1. EmptyRecords \in Records
  BY DEF EmptyRecords, Records
<1> QED
  BY <1>1 DEF EmptyGraph, GoodGraph, Graph

\* A rebuild from a checkpoint starts with a graph, and so does an imported kernel.
LEMMA SnapshotGood ==
    ASSUME NEW r \in Records
    PROVE  FullBatches(r) \in GoodGraph /\ FromSnapshot(r) \in GoodGraph
<1> DEFINE none == [s \in AssertedScopes \cup CandidateScopes |-> {}]
<1>1. /\ none \in [AssertedScopes \cup CandidateScopes -> SUBSET (Vertices \cup Edges)]
      /\ EmptyGraph.scopes = none
  BY DEF EmptyGraph
<1>4. ASSUME NEW a, NEW b, NEW c
      PROVE  [EmptyGraph EXCEPT !.records = a, !.vertices = b, !.edges = c]
                = [records |-> a, vertices |-> b, edges |-> c, scopes |-> EmptyGraph.scopes]
  <2>1. EmptyGraph = [records |-> EmptyRecords, vertices |-> {}, edges |-> {}, scopes |-> none]
    BY DEF EmptyGraph
  <2> HIDE DEF none
  <2> DEFINE g1 == [EmptyGraph EXCEPT !.records = a]
             g2 == [g1 EXCEPT !.vertices = b]
             g3 == [g2 EXCEPT !.edges = c]
  <2>2. g1 = [records |-> a, vertices |-> {}, edges |-> {}, scopes |-> none]
    BY <2>1
  <2>3. g2 = [records |-> a, vertices |-> b, edges |-> {}, scopes |-> none]
    <3> HIDE DEF g1
    <3> QED
      BY <2>2
  <2>4. g3 = [records |-> a, vertices |-> b, edges |-> c, scopes |-> none]
    <3> HIDE DEF g2
    <3> QED
      BY <2>3
  <2>5. [EmptyGraph EXCEPT !.records = a, !.vertices = b, !.edges = c] = g3
    OBVIOUS
  <2> HIDE DEF g3
  <2> QED
    BY <1>1, <2>4, <2>5
<1> HIDE DEF none
<1>2. FullBatches(r) \in GoodGraph
  <2> DEFINE v == {x \in Vertices : r.live[x] > 0 \/ x \in r.dead}
             w == {x \in Edges : r.live[x] > 0 \/ x \in r.dead}
  <2>1. FullBatches(r) = [records |-> r, vertices |-> v, edges |-> Visible(w, v),
                          scopes |-> EmptyGraph.scopes]
    BY <1>4 DEF FullBatches
  <2>2. Visible(w, v) \subseteq w /\ \A e \in Visible(w, v) : Ends(e) \subseteq v
    BY DEF Visible
  <2> QED
    BY <1>1, <2>1, <2>2 DEF GoodGraph, Graph
<1>3. FromSnapshot(r) \in GoodGraph
  <2> DEFINE v == {x \in Vertices : r.live[x] > 0}
             w == {x \in Edges : r.live[x] > 0}
  <2>1. FromSnapshot(r) = [records |-> r, vertices |-> v, edges |-> Visible(w, v),
                           scopes |-> EmptyGraph.scopes]
    BY <1>4 DEF FromSnapshot
  <2>2. Visible(w, v) \subseteq w /\ \A e \in Visible(w, v) : Ends(e) \subseteq v
    BY DEF Visible
  <2> QED
    BY <1>1, <2>1, <2>2 DEF GoodGraph, Graph
<1> QED
  BY <1>2, <1>3

\* What a graph shows has a record, so the full batches of its records show it again, and
\* so do those of its active records.
LEMMA FullCovers ==
    ASSUME NEW d \in GoodGraph, NEW g \in GoodGraph, Covers(d, g)
    PROVE  /\ Covers(FullBatches(SnapshotLegacy(d)), g)
           /\ SnapshotLegacy(d) \in Records
           /\ Covers(FullBatches(d.records), g)
<1>1. \A s \in AssertedScopes \cup CandidateScopes : EmptyGraph.scopes[s] = {}
  BY DEF EmptyGraph
<1>2. ASSUME NEW r, \A x \in d.vertices \cup Accepted(d) : r.live[x] > 0 \/ x \in r.dead,
             Accepted(d) \cap r.rejected = {}
      PROVE  Covers(FullBatches(r), g)
  <2> DEFINE v == {x \in Vertices : r.live[x] > 0 \/ x \in r.dead}
             w == {x \in Edges : r.live[x] > 0 \/ x \in r.dead}
  <2>1. /\ FullBatches(r).vertices = v /\ FullBatches(r).edges = Visible(w, v)
        /\ FullBatches(r).scopes = EmptyGraph.scopes /\ FullBatches(r).records = r
    BY DEF FullBatches, EmptyGraph
  <2>2. d.vertices \subseteq v /\ Accepted(d) \subseteq w
    BY <1>2, GraphFields DEF Accepted
  <2>3. Accepted(d) \subseteq Visible(w, v)
    BY <2>2, GraphFields DEF Visible, Accepted
  <2>4. Accepted(d) \subseteq Accepted(FullBatches(r))
    BY <1>2, <2>1, <2>3 DEF Accepted
  <2> QED
    BY <1>1, <2>1, <2>2, <2>4 DEF Covers
<1> DEFINE S == d.vertices \cup Accepted(d)
           live == [x \in Vertices \cup Edges |-> IF x \in S THEN 1 ELSE 0]
<1>3. SnapshotLegacy(d) = [live |-> live, dead |-> {}, rejected |-> {}]
  BY DEF SnapshotLegacy, OneRecordEach, EmptyRecords
<1>4. S \subseteq Vertices \cup Edges
  BY GraphFields DEF Accepted
<1>5. \A x \in S : live[x] > 0
  BY <1>4
<1>6. SnapshotLegacy(d) \in Records
  BY <1>3 DEF Records
<1>7. Covers(FullBatches(SnapshotLegacy(d)), g)
  BY <1>2, <1>3, <1>5
<1>8. Covers(FullBatches(d.records), g)
  BY <1>2, GraphFields DEF Accepted
<1> QED
  BY <1>6, <1>7, <1>8

-----------------------------------------------------------------------------
(* What a restart rebuilds. *)

LEMMA InOrderFacts ==
    ASSUME NEW S, OneEach(S)
    PROVE  /\ DOMAIN InOrder(S) = {e.gen : e \in {f \in S : f.batch # {}}}
           /\ \A e \in S : e.batch # {} => /\ InOrder(S)[e.gen] \in GoodBatch
                                           /\ e.batch = {InOrder(S)[e.gen]}
<1>1. DOMAIN InOrder(S) = {e.gen : e \in {f \in S : f.batch # {}}}
  BY DEF InOrder
<1>2. ASSUME NEW e \in S, e.batch # {}
      PROVE  InOrder(S)[e.gen] \in GoodBatch /\ e.batch = {InOrder(S)[e.gen]}
  <2>1. PICK b \in GoodBatch : e.batch = {b}
    BY <1>2 DEF OneEach
  <2>2. \A f \in S : f.gen = e.gen => f.batch \subseteq {b}
    BY <1>2, <2>1 DEF OneEach
  <2>3. BatchesOf({f \in S : f.gen = e.gen}) = {b}
    BY <2>1, <2>2 DEF BatchesOf
  <2>4. InOrder(S)[e.gen] = CHOOSE c \in BatchesOf({f \in S : f.gen = e.gen}) : TRUE
    BY <1>2 DEF InOrder
  <2>5. InOrder(S)[e.gen] = b
    BY <2>3, <2>4
  <2> QED
    BY <2>1, <2>5
<1> QED
  BY <1>1, <1>2

\* A commit marker changes no order.
LEMMA InOrderMarker ==
    ASSUME NEW S, NEW e, e.batch = {}
    PROVE  InOrder(S \cup {e}) = InOrder(S)
<1> DEFINE gens(T) == {f.gen : f \in {h \in T : h.batch # {}}}
           batch(T, gen) == CHOOSE b \in BatchesOf({f \in T : f.gen = gen}) : TRUE
<1>1. gens(S \cup {e}) = gens(S)
  OBVIOUS
<1>2. ASSUME NEW gen
      PROVE  batch(S \cup {e}, gen) = batch(S, gen)
  <2>1. BatchesOf({f \in S \cup {e} : f.gen = gen}) = BatchesOf({f \in S : f.gen = gen})
    BY DEF BatchesOf
  <2> QED
    BY <2>1
<1>3. \A T : InOrder(T) = [gen \in gens(T) |-> batch(T, gen)]
  BY DEF InOrder
<1> HIDE DEF gens, batch
<1> QED
  BY <1>1, <1>2, <1>3

LEMMA NothingInOrder == DOMAIN InOrder({}) = {}
BY DEF InOrder

LEMMA JournalNumbers ==
    ASSUME IInv, DataInv
    PROVE  LET entries == KernelJournalAfter(checkpoint.gen)
           IN  /\ OneEach(entries)
               /\ KernelCurrentGeneration \in Nat
               /\ DOMAIN InOrder(entries) \subseteq 1 .. KernelCurrentGeneration
               /\ \A k \in DOMAIN InOrder(entries) : InOrder(entries)[k] \in GoodBatch
<1> DEFINE entries == KernelJournalAfter(checkpoint.gen)
<1>1. entries \subseteq journal /\ \A e \in entries : e.gen > checkpoint.gen
  BY DEF KernelJournalAfter
<1>2. OneEach(entries)
  BY <1>1 DEF DataInv, JournalOK, OneEach
<1>3. \A e \in journal : e.gen \in Generations
  BY DEF Generations
<1>4. \A e \in entries : e.gen \in 1 .. KernelCurrentGeneration
  <2>1. checkpoint.gen \in Nat
    BY DEF IInv, LogOK
  <2> QED
    BY <1>1, <1>3, <2>1, CurrentIsGreatest DEF IInv
<1> HIDE DEF entries
<1>7. /\ DOMAIN InOrder(entries) = {e.gen : e \in {f \in entries : f.batch # {}}}
      /\ \A e \in entries : e.batch # {} => InOrder(entries)[e.gen] \in GoodBatch
  BY <1>2, InOrderFacts
<1>8. ASSUME NEW k \in DOMAIN InOrder(entries)
      PROVE  k \in 1 .. KernelCurrentGeneration /\ InOrder(entries)[k] \in GoodBatch
  <2>1. PICK e \in entries : e.batch # {} /\ e.gen = k
    BY <1>7
  <2> QED
    BY <1>4, <1>7, <2>1
<1>5. DOMAIN InOrder(entries) \subseteq 1 .. KernelCurrentGeneration
  BY <1>8
<1>6. \A k \in DOMAIN InOrder(entries) : InOrder(entries)[k] \in GoodBatch
  BY <1>8
<1> QED
  BY <1>2, <1>5, <1>6, CurrentIsGreatest DEF IInv, entries

LEMMA DurableGraphGood ==
    ASSUME IInv, DataInv
    PROVE  DurableGraph \in GoodGraph
<1> DEFINE entries == KernelJournalAfter(checkpoint.gen)
<1>1. checkpoint.snapshot \in Records
  BY DEF DataInv, TypeOK, Checkpoint, Records
<1>2. FullBatches(checkpoint.snapshot) \in GoodGraph
  BY <1>1, SnapshotGood
<1>3. \A h \in GoodGraph : \A k \in DOMAIN InOrder(entries) :
         ApplyKernelBatch(h, InOrder(entries)[k]) \in GoodGraph
  BY JournalNumbers, ApplyGood
<1> HIDE DEF entries
<1>4. ApplyKernelBatches(FullBatches(checkpoint.snapshot), InOrder(entries)) \in GoodGraph
  <2>1. KernelCurrentGeneration \in Nat /\ DOMAIN InOrder(entries) \subseteq 1 .. KernelCurrentGeneration
    BY JournalNumbers DEF entries
  <2> QED
    BY <1>2, <1>3, <2>1, ReplayType
<1> QED
  BY <1>4 DEF DurableGraph, entries

LEMMA EnsuredGraph ==
    ASSUME IInv, DataInv, EnsureNativeGraphReady
    PROVE  graph' \in GoodGraph /\ token' = KernelCurrentGeneration /\ token' \in Nat
<1>1. KernelCurrentGeneration \in Nat /\ graph \in GoodGraph
  BY CurrentIsGreatest DEF IInv, DataInv, GraphsOK
<1> QED
  BY <1>1, DurableGraphGood DEF EnsureNativeGraphReady, RebuildNativeGraph, Current, memory

-----------------------------------------------------------------------------
(* Steps that leave the store alone. *)

LEMMA MemoryData ==
    ASSUME IInv, IInv', DataInv, UNCHANGED <<store, made, refreshed>>, op' = op \/ op' = Idle,
           graph' \in GoodGraph, token' \in Nat,
           cache'.gen \in Nat \cup {NoToken}, cache'.batches \subseteq 1..made,
           saved' = saved \/ /\ saved'.checkpoint \in Checkpoint /\ saved'.revision \in 0..MaxCommits
                             /\ saved'.graph \in GoodGraph
                             /\ saved'.checkpoint.snapshot = saved'.graph.records
    PROVE  DataInv'
<1>1. UNCHANGED <<checkpoint, journal, index, revision, persisted, ideal, made, refreshed>>
  BY DEF store
<1>2. held' \subseteq 1..made' /\ persisted' \subseteq 1..made'
  BY DEF IInv, KernelOK, TodoOK
<1>3. /\ op'.phase \in {"idle", "persist", "compact"}
      /\ op'.kind \in {"none", "ingest", "asserted", "candidate"}
      /\ op'.commit \in BOOLEAN /\ op'.todo \in Seq(Batch)
      /\ \A i \in 1..Len(op'.todo) : op'.todo[i] \in GoodBatch
      /\ CommitOK'
  <2>1. CASE op' = op
    BY <1>1, <2>1 DEF DataInv, TypeOK, JournalOK, CommitOK
  <2>2. CASE op' = Idle
    <3>1. op'.todo = <<>> /\ Len(op'.todo) = 0
      BY <2>2 DEF Idle
    <3> QED
      BY <2>2, <3>1 DEF Idle, CommitOK
  <2> QED
    BY <2>1, <2>2
<1>4. saved'.there => /\ saved'.checkpoint \in Checkpoint /\ saved'.revision \in 0..MaxCommits
                      /\ saved'.graph \in GoodGraph
                      /\ saved'.checkpoint.snapshot = saved'.graph.records
  BY DEF DataInv, TypeOK, GraphsOK
<1>5. TypeOK'
  BY <1>1, <1>2, <1>3, <1>4 DEF DataInv, TypeOK
<1>6. JournalOK' /\ GraphsOK'
  BY <1>1, <1>3, <1>4 DEF DataInv, JournalOK, OneEach, GraphsOK
<1>7. DurableGraph' = DurableGraph
  BY <1>1 DEF DurableGraph, KernelJournalAfter
<1> QED
  BY <1>1, <1>3, <1>5, <1>6, <1>7 DEF DataInv, RestartCovers

LEMMA DataFacts ==
    ASSUME IInv, DataInv
    PROVE  /\ graph \in GoodGraph /\ token \in Nat /\ KernelCurrentGeneration \in Nat
           /\ cache.gen \in Nat \cup {NoToken} /\ cache.batches \subseteq 1..made
           /\ made \in 0..MaxBatches /\ MaxBatches \in Nat
           /\ revision \in 0..MaxCommits /\ persisted \subseteq 1..made /\ DurableBatches = persisted
BY CurrentIsGreatest, NativeGraphAssumption DEF IInv, NothingLost, DataInv, TypeOK, GraphsOK

LEMMA QuietData ==
    ASSUME IInv, IInv', DataInv,
           CallFails \/ ReadGraph \/ LoadLiveKernelSnapshot \/ ImportDerivedSnapshot \/ Restart
               \/ UNCHANGED vars
    PROVE  DataInv'
<1>1. CASE CallFails
  <2>1. graph' \in GoodGraph /\ token' \in Nat
    BY <1>1, EnsuredGraph, DataFacts DEF CallFails, memory
  <2> QED
    BY <1>1, <2>1, DataFacts, MemoryData DEF CallFails
<1>2. CASE ReadGraph
  BY <1>2, EnsuredGraph, DataFacts, MemoryData DEF ReadGraph
<1>3. CASE LoadLiveKernelSnapshot
  BY <1>3, DataFacts, MemoryData DEF LoadLiveKernelSnapshot, memory
<1>4. CASE ImportDerivedSnapshot
  BY <1>4, DurableGraphGood, DataFacts, MemoryData
     DEF ImportDerivedSnapshot, RebuildNativeGraph, NoCache
<1>5. CASE Restart
  BY <1>5, DurableGraphGood, DataFacts, MemoryData DEF Restart, RebuildNativeGraph, NoCache
<1>6. CASE UNCHANGED vars
  BY <1>6, DataFacts, MemoryData DEF vars, memory
<1> QED
  BY <1>1, <1>2, <1>3, <1>4, <1>5, <1>6

LEMMA ExportData ==
    ASSUME IInv, IInv', DataInv, ExportSnapshot
    PROVE  DataInv'
<1>1. graph' \in GoodGraph /\ token' \in Nat
  BY EnsuredGraph DEF ExportSnapshot
<1>2. op' = op /\ UNCHANGED <<store, cache, made, refreshed>>
  BY DEF ExportSnapshot
<1>3. held' \subseteq 1..MaxBatches
  BY <1>2, DataFacts DEF IInv, KernelOK
<1>4. graph'.records \in Records
  BY <1>1, GraphFields
<1>5. saved'.checkpoint \in Checkpoint
  BY <1>3, <1>4, DataFacts DEF ExportSnapshot, Checkpoint, Records
<1>6. saved'.revision \in 0..MaxCommits /\ saved'.graph = graph'
      /\ saved'.checkpoint.snapshot = graph'.records
  BY DataFacts DEF ExportSnapshot
<1> QED
  BY <1>1, <1>2, <1>5, <1>6, DataFacts, MemoryData

-----------------------------------------------------------------------------
(* Steps that begin a call. *)

LEMMA NumberedGood ==
    ASSUME IInv, DataInv, NEW n \in Nat, NEW batches \in [1..n -> Unnumbered],
           made + n <= MaxBatches
    PROVE  /\ Number(batches) \in Seq(Batch) /\ Len(batches) = n /\ Len(Number(batches)) = n
           /\ DOMAIN Number(batches) = 1..n
           /\ \A i \in 1..n : Number(batches)[i] \in GoodBatch
<1>1. made \in Nat /\ MaxBatches \in Nat
  BY DataFacts
<1>2. DOMAIN batches = 1..n /\ Len(batches) = n
  OBVIOUS
<1>3. DOMAIN Number(batches) = 1..n
  BY <1>2 DEF Number
<1>4. ASSUME NEW i \in 1..n
      PROVE  Number(batches)[i] \in GoodBatch
  <2>1. Number(batches)[i] = [number |-> made + i, scope |-> batches[i].scope,
                              items |-> batches[i].items, rejected |-> batches[i].rejected]
    BY <1>2 DEF Number
  <2>2. made + i \in 1..MaxBatches
    BY <1>1
  <2>3. /\ \/ batches[i].scope \in AssertedScopes /\ batches[i].items \subseteq Vertices
           \/ batches[i].scope \in CandidateScopes /\ batches[i].items \subseteq Edges
        /\ batches[i].rejected \subseteq Edges
    BY DEF AssertedBatch, Unnumbered
  <2>4. batches[i].scope \in CandidateScopes => batches[i].scope \notin AssertedScopes
    BY NativeGraphAssumption
  <2>5. \A b : b = Number(batches)[i] =>
           b \in Batch /\ b.scope = batches[i].scope /\ b.items = batches[i].items
    <3> DEFINE s == batches[i].scope
               t == batches[i].items
               u == batches[i].rejected
    <3>1. u \in SUBSET Edges /\ s \in AssertedScopes \cup CandidateScopes /\ t \in (SUBSET Vertices) \cup (SUBSET Edges)
      BY <2>3
    <3> HIDE DEF s, t, u
    <3>2. [number |-> made + i, scope |-> s, items |-> t, rejected |-> u] \in Batch
      BY <2>2, <3>1 DEF Batch
    <3> QED
      BY <2>1, <3>2 DEF s, t, u
  <2> QED
    BY <2>3, <2>4, <2>5 DEF GoodBatch
<1>5. Number(batches) \in [1..n -> Batch]
  <2>1. Number(batches) = [i \in 1..n |-> Number(batches)[i]]
    BY <1>2 DEF Number
  <2> QED
    BY <1>4, <2>1 DEF GoodBatch
<1> QED
  BY <1>2, <1>3, <1>4, <1>5

LEMMA BeginData ==
    ASSUME IInv, IInv', DataInv, NEW kind \in {"ingest", "asserted", "candidate"}, NEW n \in Nat,
           NEW batches \in [1..n -> Unnumbered], NEW commit \in BOOLEAN,
           NEW g \in GoodGraph, NEW h, Begin(kind, batches, commit, g, h),
           commit => revision < MaxCommits, token' \in Nat
    PROVE  DataInv'
<1>1. Len(batches) = n
  OBVIOUS
<1>2. /\ made' = made + n /\ made + n <= MaxBatches
      /\ graph' = ApplyKernelBatches(g, Number(batches))
      /\ op'.phase = "persist" /\ op'.kind = kind /\ op'.todo = Number(batches)
      /\ op'.commit = commit
      /\ refreshed' \in {refreshed, refreshed \cup ((made + 1) .. (made + n))}
      /\ UNCHANGED <<cache, checkpoint, journal, index, revision, persisted, ideal, saved>>
  BY <1>1 DEF Begin, MayMake, store
<1>3. /\ Number(batches) \in Seq(Batch) /\ Len(Number(batches)) = n
      /\ DOMAIN Number(batches) = 1..n
      /\ \A i \in 1..n : Number(batches)[i] \in GoodBatch
  BY <1>2, NumberedGood
<1>4. graph' \in GoodGraph
  BY <1>2, <1>3, ApplyGood, ReplayType
<1>5. made' \in 0..MaxBatches /\ 1..made \subseteq 1..made'
  BY <1>2, DataFacts
<1>6. TypeOK'
  <2>1. held' \subseteq 1..made' /\ persisted' \subseteq 1..made'
    BY DEF IInv, KernelOK, TodoOK
  <2>2. /\ op'.phase \in {"idle", "persist", "compact"}
        /\ op'.kind \in {"none", "ingest", "asserted", "candidate"}
        /\ op'.commit \in BOOLEAN /\ op'.todo \in Seq(Batch)
    BY <1>2, <1>3
  <2>3. refreshed' \subseteq 1..made'
    BY <1>2, <1>5, DataFacts DEF DataInv, TypeOK
  <2> QED
    BY <1>2, <1>5, <2>1, <2>2, <2>3 DEF DataInv, TypeOK
<1>7. JournalOK'
  BY <1>2, <1>3 DEF DataInv, JournalOK, OneEach
<1>8. CommitOK' /\ GraphsOK'
  BY <1>2, <1>4 DEF CommitOK, DataInv, GraphsOK
<1>9. RestartCovers'
  <2>1. DurableGraph' = DurableGraph
    BY <1>2 DEF DurableGraph, KernelJournalAfter
  <2> QED
    BY <1>2, <2>1 DEF DataInv, RestartCovers
<1> QED
  BY <1>6, <1>7, <1>8, <1>9 DEF DataInv

LEMMA BeginReadyData ==
    ASSUME IInv, IInv', DataInv, NEW kind \in {"asserted", "candidate"}, NEW n \in Nat,
           NEW batches \in [1..n -> Unnumbered], BeginReady(kind, batches)
    PROVE  DataInv'
<1>1. token' \in Nat
  BY DataFacts DEF BeginReady
<1>2. CASE Current
  <2>1. Begin(kind, batches, FALSE, graph, held)
    BY <1>2 DEF BeginReady
  <2> QED
    BY <1>1, <2>1, DataFacts, BeginData
<1>3. CASE ~Current
  <2>1. Begin(kind, batches, FALSE, DurableGraph, DurableBatches)
    BY <1>3 DEF BeginReady
  <2> QED
    BY <1>1, <2>1, DurableGraphGood, BeginData
<1> QED
  BY <1>2, <1>3

LEMMA CallData ==
    ASSUME IInv, IInv', DataInv, Ingest \/ RefreshAssertedNativeGraph \/ PersistCandidateScopes
    PROVE  DataInv'
<1>1. CASE Ingest
  <2>1. PICK n \in 1..BatchesPerCall, commit \in BOOLEAN :
            \E batches \in [1..n -> AssertedBatch \cup CandidateBatch] :
                /\ commit => revision < MaxCommits
                /\ BeginAsIs("ingest", batches, commit)
    BY <1>1 DEF Ingest
  <2>2. PICK batches \in [1..n -> AssertedBatch \cup CandidateBatch] :
                /\ commit => revision < MaxCommits
                /\ BeginAsIs("ingest", batches, commit)
    BY <2>1
  <2>3. n \in Nat /\ batches \in [1..n -> Unnumbered]
    BY DEF CandidateBatch, Unnumbered
  <2>4. Begin("ingest", batches, commit, graph, held) /\ token' = token
    BY <2>2 DEF BeginAsIs
  <2> QED
    BY <2>2, <2>3, <2>4, DataFacts, BeginData
<1>2. CASE RefreshAssertedNativeGraph
  <2>1. PICK batch \in AssertedBatch : BeginReady("asserted", <<batch>>)
    BY <1>2 DEF RefreshAssertedNativeGraph
  <2>2. 1 \in Nat /\ <<batch>> \in [1..1 -> Unnumbered]
    BY DEF Unnumbered
  <2> QED
    BY <2>1, <2>2, BeginReadyData
<1>3. CASE PersistCandidateScopes
  <2>1. PICK n \in Nat \ {0} :
        \E batches \in [1..n -> Unnumbered] : BeginReady("candidate", batches)
    BY <1>3, CandidateRefresh
  <2>2. PICK batches \in [1..n -> Unnumbered] : BeginReady("candidate", batches)
    BY <2>1
  <2> QED
    BY <2>2, BeginReadyData
<1> QED
  BY <1>1, <1>2, <1>3

-----------------------------------------------------------------------------
(* Steps that change the store. *)

LEMMA AppendData ==
    ASSUME IInv, IInv', DataInv, AppendKernelBatch
    PROVE  DataInv'
<1> DEFINE n == KernelCurrentGeneration
           batch == Head(op.todo)
           entry == BatchEntry(n + 1, batch)
           entries == KernelJournalAfter(checkpoint.gen)
<1>1. /\ op.phase = "persist" /\ op.todo # <<>>
      /\ journal' = journal \cup {entry} /\ persisted' = persisted \cup {batch.number}
      /\ ideal' = ApplyKernelBatch(ideal, batch) /\ cache' = NoCache
      /\ op'.todo = Tail(op.todo) /\ op'.phase \in {"persist", "compact"}
      /\ op'.kind = op.kind /\ op'.commit = op.commit
      /\ UNCHANGED <<checkpoint, index, revision, saved, made, graph, token, held, refreshed>>
  BY DEF AppendKernelBatch, memory
<1>2. n \in Nat /\ checkpoint.gen \in Nat /\ checkpoint.gen <= n
      /\ \A e \in journal : e.gen \in Nat /\ e.gen <= n
  BY CurrentIsGreatest DEF IInv, Generations, LogOK
<1>3. entry.gen = n + 1 /\ entry.batch = {batch} /\ entry.commit = 0
  BY DEF BatchEntry, Entry
<1>4. /\ op.todo \in Seq(Batch) /\ Len(op.todo) \in Nat /\ Len(op.todo) > 0
      /\ batch = op.todo[1] /\ batch \in GoodBatch
      /\ \A i \in 1..Len(op.todo) : op.todo[i] \in GoodBatch
  <2>1. op.todo \in Seq(Batch) /\ \A i \in 1..Len(op.todo) : op.todo[i] \in GoodBatch
    BY DEF DataInv, TypeOK, JournalOK
  <2> QED
    BY <1>1, <2>1
<1>5. /\ op'.todo \in Seq(Batch)
      /\ \A i \in 1..Len(op'.todo) : op'.todo[i] \in GoodBatch
  BY <1>1, <1>4
<1> HIDE DEF n, batch, entry
<1>6. TypeOK'
  <2>1. held' \subseteq 1..made' /\ persisted' \subseteq 1..made'
    BY DEF IInv, KernelOK, TodoOK
  <2>2. \A e \in journal' : /\ e.gen \in Nat /\ e.commit \in 0..revision
                            /\ e.batch = {} \/ \E b \in e.batch : b \in Batch /\ e.batch = {b}
    BY <1>1, <1>2, <1>3, <1>4 DEF DataInv, TypeOK, GoodBatch
  <2>3. cache'.gen \in Nat \cup {NoToken} /\ cache'.batches \subseteq 1..made'
    BY <1>1 DEF NoCache
  <2> QED
    BY <1>1, <1>5, <2>1, <2>2, <2>3 DEF DataInv, TypeOK
<1>7. OneEach(journal')
  <2>1. \A e, f \in journal' : e.batch # {} /\ f.batch # {} /\ e.gen = f.gen => e.batch = f.batch
    BY <1>1, <1>2, <1>3 DEF DataInv, JournalOK, OneEach
  <2>2. \A e \in journal' : e.batch = {} \/ \E b \in GoodBatch : e.batch = {b}
    BY <1>1, <1>3, <1>4 DEF DataInv, JournalOK, OneEach
  <2> QED
    BY <2>1, <2>2 DEF OneEach
<1>8. JournalOK'
  BY <1>5, <1>7 DEF JournalOK
<1>9. CommitOK' /\ GraphsOK'
  BY <1>1, <1>4, ApplyGood DEF CommitOK, DataInv, GraphsOK
<1>10. RestartCovers'
  <2>1. DurableGraph' = ApplyKernelBatches(FullBatches(checkpoint.snapshot),
                                           InOrder(entries \cup {entry}))
    <3>1. KernelJournalAfter(checkpoint.gen)' = entries \cup {entry}
      BY <1>1, <1>2, <1>3 DEF KernelJournalAfter
    <3> QED
      BY <1>1, <3>1 DEF DurableGraph
  <2>2. /\ OneEach(entries)
        /\ DOMAIN InOrder(entries) \subseteq 1..n
    BY JournalNumbers DEF n
  <2>3. OneEach(entries \cup {entry})
    <3>1. entries \cup {entry} \subseteq journal'
      BY <1>1 DEF KernelJournalAfter
    <3> QED
      BY <1>7, <3>1 DEF OneEach
  <2> HIDE DEF entries
  <2>4. /\ DOMAIN InOrder(entries) = {e.gen : e \in {f \in entries : f.batch # {}}}
        /\ \A e \in entries : e.batch # {} => e.batch = {InOrder(entries)[e.gen]}
    BY <2>2, InOrderFacts
  <2>5. /\ DOMAIN InOrder(entries \cup {entry})
              = {e.gen : e \in {f \in entries \cup {entry} : f.batch # {}}}
        /\ \A e \in entries \cup {entry} : e.batch # {} =>
              e.batch = {InOrder(entries \cup {entry})[e.gen]}
    BY <2>3, InOrderFacts
  <2>6. DOMAIN InOrder(entries \cup {entry}) = DOMAIN InOrder(entries) \cup {n + 1}
    BY <1>3, <2>4, <2>5
  <2>7. \A k \in DOMAIN InOrder(entries) : InOrder(entries \cup {entry})[k] = InOrder(entries)[k]
    <3> SUFFICES ASSUME NEW k \in DOMAIN InOrder(entries)
                 PROVE  InOrder(entries \cup {entry})[k] = InOrder(entries)[k]
      OBVIOUS
    <3>1. PICK e \in entries : e.batch # {} /\ e.gen = k
      BY <2>4
    <3>2. e.batch = {InOrder(entries)[k]} /\ e.batch = {InOrder(entries \cup {entry})[k]}
      BY <2>4, <2>5, <3>1
    <3> QED
      BY <3>2
  <2>8. InOrder(entries \cup {entry})[n + 1] = batch
    BY <1>3, <2>5
  <2>9. DurableGraph' = ApplyKernelBatch(DurableGraph, batch)
    <3> DEFINE old == InOrder(entries)
               new == InOrder(entries \cup {entry})
               g == FullBatches(checkpoint.snapshot)
    <3>1. DurableGraph = ApplyKernelBatches(g, old)
      BY DEF DurableGraph, entries
    <3>2. n + 1 \in Nat /\ n < n + 1
      BY <1>2
    <3> HIDE DEF old, new, g, n
    <3>3. OneMore(old, n, new, n + 1)
      BY <1>2, <2>2, <2>6, <2>7, <3>2 DEF OneMore, old, new
    <3>4. ApplyKernelBatches(g, new) = ApplyKernelBatch(ApplyKernelBatches(g, old), new[n + 1])
      BY <3>3, ReplayMore
    <3> QED
      BY <2>1, <2>8, <3>1, <3>4 DEF new, g
  <2>10. Covers(ApplyKernelBatch(DurableGraph, batch), ApplyKernelBatch(ideal, batch))
    BY <1>4, DurableGraphGood, ApplyCovers DEF DataInv, GraphsOK, RestartCovers
  <2> QED
    BY <1>1, <2>9, <2>10 DEF RestartCovers
<1> QED
  BY <1>6, <1>8, <1>9, <1>10 DEF DataInv

LEMMA CheckpointData ==
    ASSUME IInv, IInv', DataInv, WriteNativeGraphCheckpoint
    PROVE  DataInv'
<1>1. /\ op.phase = "compact" /\ EnsureNativeGraphReady
      /\ checkpoint' = [gen |-> KernelCurrentGeneration, snapshot |-> SnapshotLegacy(graph'),
                        batches |-> held']
      /\ journal' = CompactKernelJournal(KernelCurrentGeneration)
      /\ cache' = [gen |-> KernelCurrentGeneration, batches |-> held']
      /\ op'.phase = "persist" /\ op'.todo = op.todo /\ op'.kind = op.kind /\ op'.commit = op.commit
      /\ UNCHANGED <<index, revision, persisted, ideal, saved, made, refreshed>>
  BY DEF WriteNativeGraphCheckpoint
<1>2. graph' = DurableGraph /\ token' = KernelCurrentGeneration /\ token' \in Nat
  <2>1. ~Current
    BY <1>1 DEF IInv, KernelOK, Current
  <2> QED
    BY <1>1, <2>1, DataFacts DEF EnsureNativeGraphReady, RebuildNativeGraph
<1>3. journal' = {}
  BY <1>1, NothingAfterCurrent DEF IInv, CompactKernelJournal, KernelJournalAfter
<1>4. /\ SnapshotLegacy(graph') \in Records
      /\ Covers(FullBatches(SnapshotLegacy(graph')), ideal)
      /\ graph' \in GoodGraph
  BY <1>2, DurableGraphGood, FullCovers DEF DataInv, GraphsOK, RestartCovers
<1>5. held' \subseteq 1..made /\ held' \subseteq 1..MaxBatches /\ persisted' \subseteq 1..made
  BY <1>1, DataFacts DEF IInv, KernelOK
<1>6. TypeOK'
  <2>1. checkpoint' \in Checkpoint
    BY <1>1, <1>4, <1>5, DataFacts DEF Checkpoint, Records
  <2>2. cache'.gen \in Nat \cup {NoToken} /\ cache'.batches \subseteq 1..made'
    BY <1>1, <1>5, DataFacts
  <2> QED
    BY <1>1, <1>2, <1>3, <1>5, <2>1, <2>2 DEF DataInv, TypeOK
<1>7. JournalOK' /\ CommitOK' /\ GraphsOK'
  BY <1>1, <1>3, <1>4 DEF DataInv, JournalOK, OneEach, CommitOK, GraphsOK
<1>8. RestartCovers'
  <2>1. KernelJournalAfter(checkpoint.gen)' = {}
    BY <1>3 DEF KernelJournalAfter
  <2>2. DurableGraph' = ApplyKernelBatches(FullBatches(SnapshotLegacy(graph')), InOrder({}))
    BY <1>1, <2>1 DEF DurableGraph
  <2>3. DurableGraph' = FullBatches(SnapshotLegacy(graph'))
    BY <2>2, NothingInOrder, ReplayNone
  <2> QED
    BY <1>1, <1>4, <2>3 DEF RestartCovers
<1> QED
  BY <1>6, <1>7, <1>8 DEF DataInv

LEMMA CommitSessionData ==
    ASSUME IInv, IInv', DataInv, CommitSession, revision < MaxCommits,
           UNCHANGED <<checkpoint, persisted, ideal, saved, made, refreshed, cache, graph>>,
           token' \in Nat, op' = Idle \/ (op' = op /\ op.phase = "idle")
    PROVE  DataInv'
<1> DEFINE n == KernelCurrentGeneration
           marker == CommitMarker(n, revision + 1)
           entries == KernelJournalAfter(checkpoint.gen)
<1>1. /\ revision' = revision + 1 /\ journal' = journal \cup {marker}
      /\ index' = {i \in index : i.commit # revision + 1}
                     \cup {[commit |-> revision + 1, gen |-> n, seen |-> persisted]}
  BY DEF CommitSession
<1>2. marker.gen = n /\ marker.batch = {} /\ marker.commit = revision + 1
  BY DEF CommitMarker, Entry
<1>3. revision \in Nat /\ revision' \in 0..MaxCommits /\ n \in Nat
  <2>1. MaxCommits \in Nat
    BY NativeGraphAssumption
  <2> QED
    BY <1>1, <2>1, DataFacts
<1>4. /\ op'.phase \in {"idle", "persist", "compact"}
      /\ op'.kind \in {"none", "ingest", "asserted", "candidate"}
      /\ op'.commit \in BOOLEAN /\ op'.todo \in Seq(Batch)
      /\ \A i \in 1..Len(op'.todo) : op'.todo[i] \in GoodBatch
      /\ CommitOK'
  <2>1. CASE op' = op /\ op.phase = "idle"
    BY <2>1 DEF DataInv, TypeOK, JournalOK, CommitOK
  <2>2. CASE op' = Idle
    <3>1. op'.todo = <<>> /\ Len(op'.todo) = 0
      BY <2>2 DEF Idle
    <3> QED
      BY <2>2, <3>1 DEF Idle, CommitOK
  <2> QED
    BY <2>1, <2>2
<1> HIDE DEF n, marker
<1>5. TypeOK'
  <2>1. held' \subseteq 1..made' /\ persisted' \subseteq 1..made'
    BY DEF IInv, KernelOK, TodoOK
  <2>2. \A e \in journal' : /\ e.gen \in Nat /\ e.commit \in 0..revision'
                            /\ e.batch = {} \/ \E b \in e.batch : b \in Batch /\ e.batch = {b}
    BY <1>1, <1>2, <1>3 DEF DataInv, TypeOK
  <2>3. \A i \in index' : i.commit \in 1..revision' /\ i.gen \in Nat /\ i.seen \subseteq 1..made'
    <3>1. \A i \in index : i.commit \in 1..revision /\ i.gen \in Nat /\ i.seen \subseteq 1..made
      BY DEF DataInv, TypeOK
    <3> DEFINE new == [commit |-> revision + 1, gen |-> n, seen |-> persisted]
    <3>2. new.commit = revision + 1 /\ new.gen = n /\ new.seen = persisted
      OBVIOUS
    <3>3. \A i \in index' : i \in index \/ i = new
      BY <1>1
    <3>4. persisted \subseteq 1..made
      BY DataFacts
    <3> HIDE DEF new
    <3> SUFFICES ASSUME NEW i \in index'
                 PROVE  i.commit \in 1..revision' /\ i.gen \in Nat /\ i.seen \subseteq 1..made
      OBVIOUS
    <3>5. CASE i \in index
      <4>1. i.commit \in 1..revision
        BY <3>1, <3>5
      <4> QED
        BY <1>1, <1>3, <3>1, <3>5, <4>1
    <3>6. CASE i = new
      <4>1. revision + 1 \in 1..revision'
        BY <1>1, <1>3
      <4> QED
        BY <1>3, <3>2, <3>4, <3>6, <4>1
    <3> QED
      BY <3>3, <3>5, <3>6
  <2> QED
    BY <1>3, <1>4, <2>1, <2>2, <2>3 DEF DataInv, TypeOK
<1>6. JournalOK'
  <2>1. OneEach(journal')
    BY <1>1, <1>2 DEF DataInv, JournalOK, OneEach
  <2> QED
    BY <1>4, <2>1 DEF JournalOK
<1>7. GraphsOK'
  BY DEF DataInv, GraphsOK
<1>8. RestartCovers'
  <2>1. KernelJournalAfter(checkpoint.gen)' = entries
        \/ KernelJournalAfter(checkpoint.gen)' = entries \cup {marker}
    BY <1>1, <1>2 DEF KernelJournalAfter
  <2>2. InOrder(entries \cup {marker}) = InOrder(entries)
    BY <1>2, InOrderMarker
  <2> HIDE DEF entries
  <2>3. DurableGraph' = ApplyKernelBatches(FullBatches(checkpoint.snapshot), InOrder(entries))
    BY <2>1, <2>2 DEF DurableGraph
  <2>4. DurableGraph' = DurableGraph
    BY <2>3 DEF DurableGraph, entries
  <2> QED
    BY <2>4 DEF DataInv, RestartCovers
<1> QED
  BY <1>4, <1>5, <1>6, <1>7, <1>8 DEF DataInv

LEMMA FinishData ==
    ASSUME IInv, IInv', DataInv, Finish
    PROVE  DataInv'
<1>1. /\ op' = Idle /\ UNCHANGED <<graph, cache, checkpoint, persisted, ideal, saved, made, refreshed>>
      /\ token' \in Nat
  BY DataFacts DEF Finish, TokenOnReturn
<1>2. CASE op.commit
  <2>1. CommitSession
    BY <1>2 DEF Finish
  <2>2. revision < MaxCommits
    BY <1>2 DEF DataInv, CommitOK
  <2>3. UNCHANGED <<checkpoint, persisted, ideal, saved, made, refreshed, cache, graph>>
    BY <1>1
  <2>4. token' \in Nat /\ (op' = Idle \/ (op' = op /\ op.phase = "idle"))
    BY <1>1
  <2> QED
    BY <2>1, <2>2, <2>3, <2>4, CommitSessionData
<1>3. CASE ~op.commit
  <2>1. UNCHANGED <<store, made, refreshed>>
    BY <1>1, <1>3 DEF Finish, store
  <2> QED
    BY <1>1, <2>1, DataFacts, MemoryData
<1> QED
  BY <1>2, <1>3

LEMMA CommitData ==
    ASSUME IInv, IInv', DataInv, Commit
    PROVE  DataInv'
<1>1. /\ CommitSession /\ revision < MaxCommits /\ op' = op /\ op.phase = "idle"
      /\ UNCHANGED <<graph, token, cache, checkpoint, persisted, ideal, saved, made, refreshed>>
  BY DEF Commit, memory
<1> QED
  BY <1>1, DataFacts, CommitSessionData

LEMMA ImportData ==
    ASSUME IInv, IInv', DataInv, ImportSnapshot
    PROVE  DataInv'
<1> DEFINE c == saved.checkpoint
<1>1. /\ op.phase = "idle" /\ saved.there /\ checkpoint' = c /\ journal' = {} /\ index' = {}
      /\ revision' = saved.revision /\ cache' = [gen |-> c.gen, batches |-> c.batches]
      /\ graph' = FromSnapshot(c.snapshot) /\ token' = c.gen /\ ideal' = saved.graph
      /\ saved' = NoExport /\ UNCHANGED <<op, made, refreshed>>
  BY DEF ImportSnapshot
<1>2. /\ c \in Checkpoint /\ saved.revision \in 0..MaxCommits /\ saved.graph \in GoodGraph
      /\ c.snapshot = saved.graph.records
  BY <1>1 DEF DataInv, TypeOK, GraphsOK
<1>3. c.gen \in Nat /\ c.snapshot \in Records /\ c.batches \subseteq 1..made
  BY <1>1, <1>2 DEF Checkpoint, Records, IInv, LogOK
<1> HIDE DEF c
<1>4. ~saved'.there
  BY <1>1 DEF NoExport
<1>5. TypeOK'
  <2>1. held' \subseteq 1..made' /\ persisted' \subseteq 1..made'
    BY DEF IInv, KernelOK, TodoOK
  <2>2. cache'.gen \in Nat \cup {NoToken} /\ cache'.batches \subseteq 1..made'
    BY <1>1, <1>3
  <2> QED
    BY <1>1, <1>2, <1>3, <1>4, <2>1, <2>2 DEF DataInv, TypeOK
<1>6. JournalOK' /\ CommitOK'
  BY <1>1 DEF DataInv, JournalOK, OneEach, CommitOK
<1>7. GraphsOK'
  BY <1>1, <1>2, <1>3, <1>4, SnapshotGood DEF GraphsOK
<1>8. RestartCovers'
  <2>1. KernelJournalAfter(checkpoint.gen)' = {}
    BY <1>1 DEF KernelJournalAfter
  <2>2. DurableGraph' = ApplyKernelBatches(FullBatches(c.snapshot), InOrder({}))
    BY <1>1, <2>1 DEF DurableGraph
  <2>3. DurableGraph' = FullBatches(saved.graph.records)
    BY <1>2, <2>2, NothingInOrder, ReplayNone
  <2>4. Covers(FullBatches(saved.graph.records), saved.graph)
    <3>1. Covers(saved.graph, saved.graph)
      BY DEF Covers
    <3> QED
      BY <1>2, <3>1, FullCovers
  <2> QED
    BY <1>1, <2>3, <2>4 DEF RestartCovers
<1> QED
  BY <1>5, <1>6, <1>7, <1>8 DEF DataInv

LEMMA InitData == Init => DataInv
<1> SUFFICES ASSUME Init PROVE DataInv
  OBVIOUS
<1>1. /\ graph = EmptyGraph /\ token = 0 /\ held = {} /\ cache = NoCache /\ op = Idle
      /\ checkpoint = [gen |-> 0, snapshot |-> EmptyRecords, batches |-> {}]
      /\ journal = {} /\ index = {} /\ revision = 0 /\ ~saved.there
      /\ made = 0 /\ persisted = {} /\ refreshed = {} /\ ideal = EmptyGraph
  BY DEF Init, NoExport
<1>2. EmptyGraph \in GoodGraph /\ EmptyRecords \in Records
  BY EmptyGood
<1>3. op.todo = <<>> /\ Len(op.todo) = 0 /\ op.todo \in Seq(Batch)
  BY <1>1 DEF Idle
<1>4. MaxBatches \in Nat /\ MaxCommits \in Nat
  BY NativeGraphAssumption
<1>5. TypeOK
  <2>1. checkpoint \in Checkpoint
    BY <1>1, <1>2 DEF Checkpoint, Records
  <2>2. cache.gen \in Nat \cup {NoToken} /\ cache.batches = {}
    BY <1>1 DEF NoCache
  <2>3. /\ op.phase = "idle" /\ op.kind = "none" /\ op.commit = FALSE
    BY <1>1 DEF Idle
  <2> QED
    <3>1. made \in 0..MaxBatches /\ revision \in 0..MaxCommits /\ token \in Nat
      BY <1>1, <1>4
    <3> QED
      BY <1>1, <1>3, <2>1, <2>2, <2>3, <3>1 DEF TypeOK
<1>6. JournalOK /\ CommitOK
  BY <1>1, <1>3 DEF JournalOK, OneEach, CommitOK, Idle
<1>7. GraphsOK
  BY <1>1, <1>2 DEF GraphsOK
<1>8. RestartCovers
  <2>1. KernelJournalAfter(checkpoint.gen) = {}
    BY <1>1 DEF KernelJournalAfter
  <2>2. DurableGraph = FullBatches(EmptyRecords)
    BY <1>1, <2>1, NothingInOrder, ReplayNone DEF DurableGraph
  <2>3. EmptyGraph.records = EmptyRecords /\ Covers(EmptyGraph, EmptyGraph)
    BY DEF EmptyGraph, Covers
  <2> QED
    BY <1>1, <1>2, <2>2, <2>3, FullCovers DEF RestartCovers
<1> QED
  BY <1>5, <1>6, <1>7, <1>8 DEF DataInv

LEMMA StepKeepsDataInv == IInv /\ DataInv /\ [Next]_vars => DataInv'
<1> SUFFICES ASSUME IInv, DataInv, [Next]_vars PROVE DataInv'
  OBVIOUS
<1>1. IInv'
  BY StepKeepsIInv
<1>2. CASE Ingest \/ RefreshAssertedNativeGraph \/ PersistCandidateScopes
  BY <1>1, <1>2, CallData
<1>3. CASE AppendKernelBatch
  BY <1>1, <1>3, AppendData
<1>4. CASE WriteNativeGraphCheckpoint
  BY <1>1, <1>4, CheckpointData
<1>5. CASE Finish \/ Commit
  BY <1>1, <1>5, FinishData, CommitData
<1>6. CASE CallFails \/ ReadGraph \/ LoadLiveKernelSnapshot \/ ImportDerivedSnapshot \/ Restart
              \/ UNCHANGED vars
  BY <1>1, <1>6, QuietData
<1>7. CASE ExportSnapshot \/ ImportSnapshot
  BY <1>1, <1>7, ExportData, ImportData
<1> QED
  BY <1>2, <1>3, <1>4, <1>5, <1>6, <1>7 DEF Next

\* Every piece of the kernel's memory, of the store's tables and of an export keeps its type,
\* in whatever order the runtime's operations, failures and restarts come.
THEOREM GraphKeepsItsTypes == Spec => []TypeOK
<1>1. DataInv => TypeOK
  BY DEF DataInv
<1> QED
  BY <1>1, InitIInv, InitData, StepKeepsIInv, StepKeepsDataInv, PTL DEF Spec

\* What rebuild_native_graph makes of the checkpoint and the journal shows every vertex and
\* edge that the persisted batches leave in a kernel that never was rebuilt, although
\* write_native_graph_checkpoint stores the active records without the scope maps.
THEOREM RestartShowsEverything == Spec => []RestartShowsAll
<1>1. DataInv => RestartShowsAll
  BY DEF DataInv, RestartCovers, Covers, RestartShowsAll
<1> QED
  BY <1>1, InitIInv, InitData, StepKeepsIInv, StepKeepsDataInv, PTL DEF Spec
=============================================================================
