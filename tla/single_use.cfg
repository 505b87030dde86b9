CONSTANTS
    s1 = s1
    u1 = u1
    u2 = u2
    Users = {u1}
    Sessions = {s1}
    OwnerOf <- MCOwner
    Callers = {r1, r2}
    Devices = {d1, d2}
    MaxVersion = 4
    MaxWork = 3
    Keys = {k1}
    Payloads = {p1, p2}
    Attempts = {c1, c2}
    MaxRows = 2
SPECIFICATION SingleUseSpec
INVARIANTS
    AnswersFollowTheChain
    CurrentUnlessTorn
    OneExecutionPerRow
    ResponseIsOwn
    OneWorkerPerKey
PROPERTIES
    RevokedIsFinal
    EveryRequestEnds
    KeyIsReleased
CHECK_DEADLOCK FALSE
