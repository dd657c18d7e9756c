\* One client, two connections, an order of extensions on each.
CONSTANTS
    c1 = c1  c2 = c2  f1 = f1  f2 = f2  h1 = h1  x1 = x1  Conns = {c1, c2}
    ClientOf <- OneClient  Says <- SaysAnOrderEach  Flows = {f1, f2}  ConnOf <- ConnOfFlow
    HostOf <- OneHost  Values <- Defaults  Changes = {}  Rules = {}  Factory <- NoFactory
    Installs <- Sound  Unencodable = FALSE  NoPeer = NoPeer  NoProfile = NoProfile
    NoDecision = NoDecision  NoKwargs = NoKwargs  Owned = {o1}  Supplied = {}
    NoSession = NoSession  Caps = {1}  MaxDropped = 2  Hellos <- TwoOrders
    NoHello = NoHello  Prefaces = {}  NoPreface = NoPreface  Bases = {"chrome"}
    Permuting = {}  Unmodelled = {}  PresetFiles = {}  NoDoc = NoDoc  NoName = NoName
    Dirs = {}  NoDir = NoDir  NoEntry = NoEntry  Torn = Torn  Faulty = {}  MaxSeen = 2
SPECIFICATION Spec
PROPERTY OrdersAddUp
SYMMETRY Symmetry
CHECK_DEADLOCK FALSE
