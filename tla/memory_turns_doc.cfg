SPECIFICATION Spec
CONSTANTS
    Exchange = {e1, e2}
    Substantial = {e1, e2}
    Mem = {"m1", "m2"}
    NoMem = NoMem
    Text = {"a", "b", "-"}
    NoText = NoText
    Slug <- MCSlug
    NoKey = NoKey
    Score <- MCScore
    Op <- MCOp
    MinImportance = 3
    Transient = {}
    MaxOps = 1
    MaxRecalls = 0
    MaxStops = 0
PROPERTIES
    TurnsSurviveActivity
CHECK_DEADLOCK FALSE
