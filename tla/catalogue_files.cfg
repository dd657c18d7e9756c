\* One directory that is set and unset, writes that fail, a restart.
CONSTANTS
    i1 = i1  i2 = i2  d1 = d1  p1 = p1
    Ids = {i1, i2}
    Prefaces = {p1}
    NoPreface = NoPreface
    Dirs = {d1}
    NoDir = NoDir
    NoEntry = NoEntry
    Torn = Torn
    Faulty = {i2}
    MaxSeen = 1
    MaxRuns = 2
SPECIFICATION Spec
INVARIANT WrittenIsOnDisk
INVARIANT EverySeenLands
CHECK_DEADLOCK FALSE
