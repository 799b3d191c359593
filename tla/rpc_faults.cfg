SPECIFICATION Spec
CONSTANTS
    Req = {r1, r2}
    NoReq = NoReq
    Routable = {r1, r2}
    Manifest = Manifest
    Declared = FALSE
    Faults = {"engine", "service", "broker", "link"}
    MaxFaults = 2
SYMMETRY Symmetry
INVARIANTS
    RpcInv
    RepeatsPaid
PROPERTIES
    ReturnsAfterHandling
CHECK_DEADLOCK FALSE
