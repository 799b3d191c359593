SPECIFICATION FairSpec
CONSTANTS
    Conn = {c1, c2}
    NoConn = NoConn
    Prompt = {p1}
    NoPrompt = NoPrompt
    MaxAsks = 2
    MaxDrafts = 1
INVARIANTS
    SessInv
PROPERTIES
    StopEnds
    NoWaitForNobody
