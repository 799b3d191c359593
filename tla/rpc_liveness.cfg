SPECIFICATION FairSpec
CONSTANTS
    Req = {r1, r2}
    NoReq = NoReq
    Routable = {r1}
    Manifest = Manifest
    Declared = TRUE
    Faults = {"service", "link"}
    MaxFaults = 2
PROPERTIES
    AnsweredDespiteCrashes
CHECK_DEADLOCK FALSE
