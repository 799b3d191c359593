SPECIFICATION Spec
CONSTANTS
    Task = {"c"}
    NoTask = NoTask
    Run = {r1, r2, r3}
    Client = {k1, k2}
    Trigger <- MCTrigger
    Tool <- MCTool
    CronNext <- MCCronNext
    DefaultInterval = 1
    MaxTime = 3
    MaxManual = 2
    MaxFaults = 1
SYMMETRY Symmetry
INVARIANTS
    ExecutingExact
    OccurrenceOnce
    NextAfterBoot
PROPERTIES
    QuietPauseHolds
    NoResurrection
    ForwardLooking
