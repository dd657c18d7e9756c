\* Two connections of one client, a protocol and a scope that change, a cap that changes.
CONSTANTS
    c1 = c1  c2 = c2  f1 = f1  f2 = f2  h1 = h1  x1 = x1  Conns = {c1, c2}
    ClientOf <- OneClient  Says <- Nothing  Flows = {f1, f2}  ConnOf <- ConnOfFlow
    HostOf <- OneHost  Values <- Pooling  Changes = {"http_version", "session_scope"}
    Rules = {}  Factory <- NoFactory  Installs <- Sound  Unencodable = FALSE
    NoPeer = NoPeer  NoProfile = NoProfile  NoDecision = NoDecision  NoKwargs = NoKwargs
    Owned = {o1, o2}  Supplied = {}  NoSession = NoSession  Caps = {1, 2}  MaxDropped = 1
    Hellos = {}  NoHello = NoHello  Prefaces = {}  NoPreface = NoPreface
    Bases = {"chrome"}  Permuting = {}  Unmodelled = {}  PresetFiles = {}  NoDoc = NoDoc
    NoName = NoName  Dirs = {}  NoDir = NoDir  NoEntry = NoEntry  Torn = Torn  Faulty = {}
    MaxSeen = 2
SPECIFICATION Spec
INVARIANT ScopesKeptApart
PROPERTY RequestOnItsOwnSession
PROPERTY StartsOnOpenSession
SYMMETRY Symmetry
CHECK_DEADLOCK FALSE
