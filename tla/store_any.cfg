SPECIFICATION Spec
CONSTANTS
    MaxSegmentBytes = 4
    MaxSegmentRecords = 2
    MaxUnreclaimedBytes = 6
    MaxUnreclaimedRecords = 3
    Mutations = {m1, m2}
    Imports = {i1}
    CrashAt <- AnyCrash
    ThrowAt <- AllButReset
    MaxFaults = 2
    MaxChain = 1
    MaxGeneration = 1
    MaxDerived = 0
SYMMETRY MutationSymmetry
INVARIANTS TypeOK NoDanglingReference FlushNeverAwaitsItself
CHECK_DEADLOCK FALSE
