SPECIFICATION FairSpec
CONSTANTS
    Exchange = {e1, e2, e3}
    Substantial = {e1, e2}
    Mem = {"m1"}
    NoMem = NoMem
    Text = {"a", "b", "-"}
    NoText = NoText
    Slug <- MCSlug
    NoKey = NoKey
    Score <- MCScore
    Op <- MCOp
    MinImportance = 3
    Transient = {}
    MaxOps = 2
    MaxRecalls = 1
    MaxStops = 1
INVARIANTS
    MemInv
    PreferencesKnown
PROPERTIES
    TurnsTakenOnce
    BufferLostOnlyAtEnd
    NoRevival
    BufferDrains
CHECK_DEADLOCK FALSE
