\* Two stacks probed, two clients, and a preset file.
CONSTANTS
    cw = cw  ca = ca  fw = fw  fixture = fixture
    Hellos <- FourHellos
    NoHello = NoHello
    Prefaces = {}
    NoPreface = NoPreface
    Bases = {cw, ca, fw}
    Unmodelled <- JustResuming
    PresetFiles <- ExportedFile
    NoDoc = NoDoc
    NoName = NoName
    Candidates <- Probed
    Fixture = fixture
    FixtureHello <- CurlHello
    HellosOf <- AllSent
    HeadOf <- HeadsOf
    ProbeBase = cw
    Short = Short
    Cut = Cut
    Garbled <- GarbledHello
    NoBase = NoBase
    Clients <- TwoClients
    FamilyOf <- Family
    ByTls = TRUE
    MaxMinted = 2
SPECIFICATION MirroringSpec
INVARIANT ServedIsRegistered
INVARIANT NameCoversIdentity
INVARIANT YesMeansReplayed
INVARIANT CreditedToItsSender
INVARIANT NeverCreditedEarly
INVARIANT PermutesWithReason
INVARIANT BaseIsOfItsStack
PROPERTY ProbeEnds
