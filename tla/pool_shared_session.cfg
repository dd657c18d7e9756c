\* One supplied session under two pool keys.
CONSTANTS
    b1 = b1  b2 = b2  u1 = u1  u2 = u2  x1 = x1  x2 = x2  x3 = x3
    Keys = {b1, u1, u2}
    Owned = {o1, o2, o3}
    Supplied = {x1}
    SuppliedFor <- SharedSession
    NoSession = NoSession
    Caps = {2}
    MaxDropped = 3
SPECIFICATION RecencySpec
INVARIANT SuppliedNeverClosed
CHECK_DEADLOCK FALSE
