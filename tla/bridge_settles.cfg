\* A request that hangs, clients that hang up, a response that cannot be encoded.
CONSTANTS
    c1 = c1  c2 = c2  f1 = f1  f2 = f2  h1 = h1  x1 = x1  Conns = {c1, c2}
    ClientOf <- TwoClients  Says <- SaysFresh  Flows = {f1}  ConnOf <- OneFlow
    HostOf <- ItsHost  Values <- Defaults  Changes = {}  Rules = {"safari"}
    Factory <- SuppliedForHost  Installs <- Sound  Unencodable = TRUE  NoPeer = NoPeer
    NoProfile = NoProfile  NoDecision = NoDecision  NoKwargs = NoKwargs  Owned = {o1}
    Supplied = {x1}  NoSession = NoSession  Caps = {1}  MaxDropped = 1
    Hellos <- FreshOnly  NoHello = NoHello  Prefaces = {"p1"}  NoPreface = NoPreface
    Bases = {"chrome"}  Permuting = {}  Unmodelled = {}  PresetFiles <- ExportedFile
    NoDoc = NoDoc  NoName = NoName  Dirs = {"d1"}  NoDir = NoDir  NoEntry = NoEntry
    Torn = Torn  Faulty = {}  MaxSeen = 2
SPECIFICATION FairSpec
PROPERTY EveryRequestSettles
PROPERTY RefusedFingerprintLands
CHECK_DEADLOCK FALSE
