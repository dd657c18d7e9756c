\* The pool with built and supplied sessions, a cap that changes at run time.
CONSTANTS
    b1 = b1  b2 = b2  u1 = u1  u2 = u2  x1 = x1  x2 = x2  x3 = x3
    Keys = {b1, b2, u1, u2}
    Owned = {o1, o2, o3}
    Supplied = {x1, x2, x3}
    SuppliedFor <- OwnSessions
    NoSession = NoSession
    Caps = {1, 2, 3}
    MaxDropped = 2
SPECIFICATION RecencySpec
INVARIANT NoSessionLeaked
PROPERTY InsertionsRespectCap
PROPERTY ImplementsLifetime
PROPERTY EvictsLeastRecentlyServed
SYMMETRY Symmetry
CHECK_DEADLOCK FALSE
