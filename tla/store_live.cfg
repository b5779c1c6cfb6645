SPECIFICATION FairSpec
CONSTANTS
    MaxSegmentBytes = 4
    MaxSegmentRecords = 2
    MaxUnreclaimedBytes = 6
    MaxUnreclaimedRecords = 3
    Mutations = {m1, m2}
    Imports = {}
    CrashAt <- AllPoints
    ThrowAt = {}
    MaxFaults = 1
    MaxChain = 1
    MaxGeneration = 1
    MaxDerived = 1
INVARIANTS EverySeqRecoveredOnce
PROPERTIES ReferencedFilesImmutable MutationsSettle ContentEventuallyCheckpointed DirtyEventuallyFlushed
CHECK_DEADLOCK FALSE
