SPECIFICATION Spec
CONSTANTS
    Task = {"o"}
    NoTask = NoTask
    Run = {r1, r2}
    Client = {k1, k2}
    Trigger <- MCTrigger
    Tool <- MCTool
    CronNext <- MCCronNext
    DefaultInterval = 1
    MaxTime = 4
    MaxManual = 1
    MaxFaults = 1
SYMMETRY Symmetry
INVARIANTS
    SchedInv
