SPECIFICATION Spec
CONSTANTS
    MaxSegmentBytes = 9
    MaxSegmentRecords = 2
    MaxUnreclaimedBytes = 6
    MaxUnreclaimedRecords = 3
    Mutations = {m1, m2, m3}
    Imports = {i1}
    CrashAt = {}
    ThrowAt = {"truncate"}
    MaxFaults = 1
    MaxChain = 1
    MaxGeneration = 1
    MaxDerived = 0
INVARIANTS ServedIsRecoverable
CHECK_DEADLOCK FALSE
