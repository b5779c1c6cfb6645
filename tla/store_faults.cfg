SPECIFICATION Spec
CONSTANTS
    MaxSegmentBytes = 4
    MaxSegmentRecords = 2
    MaxUnreclaimedBytes = 6
    MaxUnreclaimedRecords = 3
    Mutations = {m1, m2, m3}
    Imports = {}
    CrashAt <- OutsideAppendWindow
    ThrowAt <- BenignThrows
    MaxFaults = 1
    MaxChain = 1
    MaxGeneration = 2
    MaxDerived = 1
SYMMETRY MutationSymmetry
INVARIANTS ServedIsRecoverable AckedMutationsRecovered NoOrphanFiles LoadReadsCurrentDerived
PROPERTIES ImplementsContentLog
CHECK_DEADLOCK FALSE
