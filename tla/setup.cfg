\* Install, start, and updates of several options at once.
CONSTANTS
    path = path  s1 = s1  r1 = r1  f1 = f1  d1 = d1
    Path = path
    OwnConfigs <- Configs
    Overrides = {Unset, "mirror"}
    Modes = {"auto", "static", "mirror"}
    Strategies = {"eager", "lazy"}
    RuleSpecs = {Unset, r1, BadRule}
    Filters = {Unset, BadFilter}
    PresetFiles = {Unset, f1}
    Caps = {1, 2}
    DefaultCap = 1
    Listeners <- SomeListeners
    Proxies <- SomeProxies
    ExportDirs = {Unset, ReadOnly}
    CatalogueDirs = {Unset, d1}
    BadRule = BadRule
    BadFilter = BadFilter
    ReadOnly = ReadOnly
    Unset = Unset
    Unreadable = Unreadable
    Together <- Sets
    MaxUpdates = 2
SPECIFICATION Spec
INVARIANT OwnSettingsSurvive
INVARIANT StartsSafely
INVARIANT SetWinsOverConstructor
INVARIANT AddonFollowsOptions
INVARIANT BuiltChained
CHECK_DEADLOCK FALSE
