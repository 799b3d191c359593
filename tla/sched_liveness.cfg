SPECIFICATION FairSpec
CONSTANTS
    Task = {"i", "x"}
    NoTask = NoTask
    Run = {r1, r2}
    Client = {k1}
    Trigger <- MCTrigger
    Tool <- MCTool
    CronNext <- MCCronNext
    DefaultInterval = 1
    MaxTime = 3
    MaxManual = 0
    MaxFaults = 1
PROPERTIES
    DueIsServed
