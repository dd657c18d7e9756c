\* Two connections of one client, one resuming and one of QUIC, a probe that may fail.
CONSTANTS
    c1 = c1  c2 = c2  f1 = f1  f2 = f2  h1 = h1  x1 = x1  Conns = {c1, c2}
    ClientOf <- OneClient  Says <- SaysResumption  Flows = {f1, f2}  ConnOf <- ConnOfFlow
    HostOf <- OneHost  Values <- EitherVersion  Changes = {}  Rules = {}
    Factory <- NoFactory  Installs <- AnyInstall  Unencodable = FALSE  NoPeer = NoPeer
    NoProfile = NoProfile  NoDecision = NoDecision  NoKwargs = NoKwargs  Owned = {o1}
    Supplied = {}  NoSession = NoSession  Caps = {1}  MaxDropped = 1  Hellos <- Three
    NoHello = NoHello  Prefaces = {}  NoPreface = NoPreface  Bases = {"chrome"}
    Permuting = {}  Unmodelled = {}  PresetFiles = {}  NoDoc = NoDoc  NoName = NoName
    Dirs = {}  NoDir = NoDir  NoEntry = NoEntry  Torn = Torn  Faulty = {}  MaxSeen = 2
SPECIFICATION Spec
INVARIANT BridgeTypeOK
INVARIANT MirrorNeedsSupport
INVARIANT HelloAccounting
PROPERTY MirrorsItsOwnClient
PROPERTY AnsweredIsNotIdle
PROPERTY SlotsHold
PROPERTY NoQuicOverTcp
SYMMETRY Symmetry
CHECK_DEADLOCK FALSE
