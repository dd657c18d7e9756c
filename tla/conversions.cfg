\* Every conversion on all inputs of a few pieces, cut anywhere.
CONSTANTS
    HopByHop = {"connection", "content-length"}
    ResponseDrop = {"content-length"}
    Semantic = {"cookie", "x-a"}
    Cookie = "cookie"
    Crumbs = Crumbs
    Comma = Comma
    NameLen = 2
    KeyLen = 1
    H3Names = {"h3"}
    TornName = "torn"
    None = None
    HeaderNames <- SomeNames
    Extensions <- SomeExtensions
    BareHellos <- TwoHellos
    Frames <- SomeFrames
    Representations <- SomeRepresentations
    MaxFields = 4
    MaxExtensions = 2
    MaxFrames = 3
    MaxRepresentations = 2
SPECIFICATION ConversionSpec
INVARIANT ValuesSurvive
INVARIANT OrderFitsHeaders
INVARIANT OneClientOneIdentity
INVARIANT SameIdSameTreatment
INVARIANT CutLosesOnlyTheTail
INVARIANT KeptIsOfTheOpening
INVARIANT OpeningIsRead
INVARIANT RepresentationsAligned
CHECK_DEADLOCK FALSE
