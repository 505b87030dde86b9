CONSTANTS
    s1 = s1
    u1 = u1
    u2 = u2
    Users = {u1, u2}
    Sessions = {s1, s2}
    OwnerOf <- MCOwner
    Callers = {r1}
    Devices = {d1}
    MaxVersion = 2
    MaxWork = 1
    Keys = {k1}
    Payloads = {p1}
    Attempts = {c1}
    MaxRows = 1
SPECIFICATION SingleUseSpec
INVARIANT LogoutAllIsOwn
CHECK_DEADLOCK FALSE
