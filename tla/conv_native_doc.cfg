SPECIFICATION Spec
CONSTANTS
    Run = {r1, r2}
    Trivial = {r1}
    Synonym <- MCSynonym
    ArgSynonyms <- MCArgSynonyms
    Native <- MCNative
    Manifests <- MCManifests
    KnownCritical <- MCKnownCritical
    Replies <- MCCancel
    OutputSizes = {1}
    Budget = 3
    MaxActive = 2
    MaxAborts = 0
    MaxEvents = 1
INVARIANTS
    NativeCallsUnderstood
CHECK_DEADLOCK FALSE
