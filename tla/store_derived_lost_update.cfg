SPECIFICATION Spec
CONSTANTS
    MaxSegmentBytes = 4
    MaxSegmentRecords = 2
    MaxUnreclaimedBytes = 6
    MaxUnreclaimedRecords = 3
    Mutations = {m1}
    Imports = {}
    CrashAt = {}
    ThrowAt = {}
    MaxFaults = 0
    MaxChain = 1
    MaxGeneration = 1
    MaxDerived = 3
INVARIANTS DerivedChangesPersisted
CHECK_DEADLOCK FALSE
