SPECIFICATION Spec
CONSTANTS
    v1 = v1
    v2 = v2
    e1 = e1
    d1 = d1
    d2 = d2
    c1 = c1
    c2 = c2
    Vertices = {v1}
    Edges = {e1}
    Ends <- AllVertices
    AssertedScopes = {d1, d2}
    CandidateScopes = {c1, c2}
    CompactionThreshold = 2
    MaxBatches = 3
    MaxCommits = 0
    BatchesPerCall = 2
    ScopesPerRefresh = 2
    Faults = FALSE
INVARIANTS CurrentKernelHasAll
