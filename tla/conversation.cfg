SPECIFICATION Spec
CONSTANTS
    Run = {r1, r2, r3}
    Trivial = {}
    Synonym <- MCSynonym
    ArgSynonyms <- MCArgSynonyms
    Native <- MCNative
    Manifests <- MCManifests
    KnownCritical <- MCKnownCritical
    Replies <- MCReplies
    OutputSizes = {4}
    Budget = 3
    MaxActive = 2
    MaxAborts = 1
    MaxEvents = 1
SYMMETRY Symmetry
INVARIANTS
    ConvInv
    HistoryPaired
    CallsAnswered
    AnsweredKept
    ClearedStaysCleared
    WindowServes
    WindowLongest
    RecordedOnce
    CriticalAsked
CHECK_DEADLOCK FALSE
