SPECIFICATION Spec
CONSTANTS
    Sock = {s1, s2, s3}
    NoSock = NoSock
    Url = {good, bad}
    Bad = {bad}
    Request = {c1, c2}
    NoRequest = NoRequest
    MaxEvents = 2
INVARIANTS
    ClientInv
    NeverStranded
    AnswersSeen
PROPERTIES
    Reconnects
    StatusSettles
CHECK_DEADLOCK FALSE
