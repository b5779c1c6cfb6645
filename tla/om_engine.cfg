SPECIFICATION FairSpec
CONSTANTS
    m1 = m1
    m2 = m2
    c1 = c1
    c2 = c2
    Messages = {m1, m2}
    Callers = {c1, c2}
    ObserveThreshold = 2
    ReflectThreshold = 1
    MaxObservation = 2
    MaxPasses = 2
    MaxToolRounds = 2
    MaxContent = 2
    MaxGenerations = 2
    UnofferedCalls = FALSE
INVARIANTS TypeOK ForgottenIsOvertaken GenerationsAreReflections NoSessionLeak
PROPERTIES MemoryNotLost ProcessingEnds
CHECK_DEADLOCK FALSE
