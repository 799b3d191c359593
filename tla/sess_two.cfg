SPECIFICATION Spec
CONSTANTS
    Conn = {c1, c2}
    NoConn = NoConn
    Prompt = {p1, p2}
    NoPrompt = NoPrompt
    MaxAsks = 1
    MaxDrafts = 0
SYMMETRY Symmetry
INVARIANTS
    RunsReachable
    PendingExact
    NobodyLeftThinking
PROPERTIES
    ApprovedFirst
    StopReaches
