# A verification of mitmcloak

mitmcloak is a mitmproxy addon. It answers each request itself, through
httpcloak (a Go library reached by cgo), so that the origin sees a chosen TLS
and HTTP/2 fingerprint: that of a preset, or that of the very client in front of
the proxy, whose ClientHello and HTTP/2 preface it captures and replays. This
directory holds TLA+ modules for it, TLC configurations that check them on small
instances, and TLAPS proofs of the properties for all instances.

To repeat the checks: `tlc -config X.cfg M` for a run, `tlapm M.tla` for each
module whose name ends in `Proofs`. `PROJECT.json` lists the runs, the source
lines every definition stands for, the hazards, the findings and the theorems.

## 1. Inventory

| component | source | state | operations | what makes it correct |
|---|---|---|---|---|
| session pool | `sessions.py` | OrderedDict of sessions, WeakSet of supplied ones, cap, counters | get, adopt, sweep, close, a new cap | every built session open exactly while pooled; supplied sessions never closed; LRU order; the cap |
| catalogue | `catalogue.py` | entries by fingerprint, the set of those written, a directory; the files | note_hello, note_h2, note_request, note_refused, note_no_request, flush, save | what it believes written is written; every fingerprint lands |
| mirror registry | `mirror.py` | names and documents; httpcloak's global registry | ensure (two attempts), close; preset files | a name served is registered and stands for the right client |
| bridge | `bridge.py` | profiles, presets and requests by connection; tasks in flight; mitmproxy's options | twelve hooks, one of which awaits; commands | a request goes out once, on a session and under a preset that fit it |
| resolver | `resolve.py` | rules, bypass filter, callable | configure, decide, session_key | first match wins; the key keeps apart what must be |
| options | `options.py` | none of its own | register, session_options, upstream_from_mode | options reach the sessions that are built; one built while a listener chains has a proxy |
| identification | `identify.py` | identity and permutation maps, a listening thread | build_identity_map, supports_raw_client_hello, match, permutes | each hello is counted for the preset that sent it |
| capture | `capture.py` | none | parse_client_hello, parse_h2_preface, HPACK | one client, one identity; a cut input makes nothing up |
| headers | `headers.py` | none | request, exact, order and response conversions | order, duplicates and hop-by-hop rules |
| installer | `__main__.py` | mitmproxy's config.yaml | install, uninstall | the user's own settings survive |
| entry points | `addon.py`, `__init__.py` | none | | |

How they interact. mitmproxy calls the bridge's hooks on one event loop. The
bridge calls pool, registry, catalogue, identifier and resolver synchronously,
so a hook that does not await is atomic. `request` awaits once, on
`session.request_async`; other hooks, options, `done()` and the disconnection of
the client come between its two halves. The sweeper is a second task that calls
`pool.sweep`. The identifier blocks the loop while a thread of its own reads
what the probed presets send. The registry shares httpcloak's process-global
presets with preset files; the catalogue shares its directory with earlier runs
and with the save command. Setting `flow.response` is what keeps mitmproxy from
connecting itself.

What is hard: the state that requests share through the pool while options
change; sessions closed by eviction while a hook awaits them; answers after the
client left; the levels at which "this client" is known (connection, address,
fingerprint); a thread that answers after its timeout; partial failure (a refused
registration, a torn file, an update of options refused half way); inputs that
end anywhere; files and registrations that outlive what is remembered about
them. `PROJECT.json` has each of these as a hazard with its line and the
properties aimed at it.

## 2. Modules

| module | what it models |
|---|---|
| `SessionPool` | `sessions.py`. The OrderedDict is a function `pool` and a strict order `ahead`, `life` is what became of each handle |
| `SessionLifetime` | the abstract promise: held sessions are open, a built one is closed in the step that lets it go, a supplied one never |
| `SessionPoolRecency` | the pool with the history needed to say "least recently served" |
| `Catalogue` | `catalogue.py`, its callers in `bridge.py`, the files, and restarts |
| `MirrorRegistry` | `mirror.py` and the part of httpcloak's registry that has its names |
| `IdentityProbe` | `identify.py`: the prober on the event loop and the sink's thread, step by step |
| `Mirroring` | `MirrorRegistry` and `IdentityProbe` together, as `Bridge._mirror_preset` uses them: the probe's answers become presets |
| `Bridge` | `bridge.py` and `resolve.py`, composed of pool, catalogue and registry by `INSTANCE` |
| `Setup` | `__main__.py` and config.yaml, the constructor's overrides, `running()`, `configure()` with several options at once, `upstream_from_mode` |
| `Lists` | a Python loop or comprehension over a list, as a recursive function on how far it has come |
| `Headers`, `Wire` | `headers.py` and `capture.py` as operators |
| `Conversions` | the inputs of those two, built up piece by piece, and their properties |
| `MC*` | instances |
| `*Proofs` | theorems and proofs: about the pool and its order of eviction, the catalogue, the probe and the registry it mints for (`MirroringProofs`, on the step lemmas of `MirrorRegistryProofs`), the set-up, the conversions (`ConversionsProofs`, on the lemmas about lists of `ListProofs`), the bridge (on the proofs of the pool, the registry and the catalogue) |

State and actions follow the code's names: `profiles`, `presets_for_conn`,
`requested`, `entries`, `written`, `docs`, `captured`, `identities` are the
attributes of those names; `TlsClientHello`, `NextLayer`, `TlsFailedClient`,
`ClientDisconnected`, `Running`, `Done`, `Update` are the hooks. In `Bridge`,
`Request` is the request hook up to its await and leaves the flow `awaiting`,
failed, or unsent; `Answer`, `AnswerUnencodable`, `UpstreamFails` and `Cancel` are
its second halves. In `IdentityProbe`, `stage` is where the prober stands (`Build`,
`Get`, `GetOver`, `Count`, `Judge`), `SinkServes` is one turn of the thread, and
`captured` is read where the code reads it. In `Setup`, `options` is mitmproxy's
option manager and `applied` what the addon copied from it. `conn`, `life`,
`registry`, `disk` and `config` are the world outside: what mitmproxy said of a
connection, cgo handles, httpcloak's presets, files. `decision`, `session`, `late`,
`touched`, `swallowed`, `asked`, `own` and `last` are history, for the properties.

Definitions marked "Slip" are plausible mistakes in the operator that follows
them. No specification uses them; each shows, when put in its operator's place,
that the property named in `PROJECT.json` would notice.

### Abstractions

* In `Bridge` and `MirrorRegistry` a hello is a record of its `stable_id`, its
  order, and whether it resumes or is QUIC's; in `IdentityProbe` it is its family
  and its order; `Wire` and `Conversions` say what the parser makes of its bytes.
  A registry name is its cache key: two keys with one SHA-256 prefix are not
  modelled. Extension 41 is in `stable_id`, so no resuming hello shares its id with
  a fresh one (assumed by `MirrorRegistry`, checked as `SameIdSameTreatment`).
* `Wire` lays a hello out as the sizes of its parts, so that a cut can fall in
  any of them, and keeps HPACK integers as bytes. Values that nothing compares
  (random, session id, key shares) have a size only. The ja3 and akamai strings
  and the names of certificate compressions are left out.
* A header name is its lower-case form and a spelling; a value is its position
  among the client's fields, so that none can be confused with another.
* Which sessions are idle, which rule matches, whether a registration or a
  session is refused, whether a response arrives: nondeterministic choices. A
  session built by the pool is new each time.
* The user may drop a supplied session the pool does not hold (`Collect`): the
  WeakSet forgets it.
* In `Bridge` no probe runs: its answers are constants and choices there. Whether
  httpcloak replays a hello (`replays`, `supported`) and whether there is a usable
  probe fixture (`fixture`) are facts of the installation, chosen at the start of a
  run. Without the fixture `_check_mirror_capability` warns and leaves the mode, so
  what is mirrored then is unverified (bridge.py:186-188); with it, an httpcloak that
  does not replay is met with the static mode (bridge.py:192-202). The fixture is
  read once: that it appears or is lost while the proxy runs changes nothing.
  `Mirroring` has the probe and no connections: its clients bring what a
  connection may have shown.
* `httpcloak`, mitmproxy's event order and its option manager, Python's collector
  and the hpack library are external, and modelled from the way `src/` uses
  them: hooks are called after `running()` and not after `done()`; connection ids
  are not reused; a hook that raises leaves the flow unanswered and mitmproxy
  connects itself; an `OptionsError` rolls the options back and configures again,
  any other exception of `configure()` is logged and forgotten.
* Statistics, except the pool's, log lines, `flow.metadata` and the export
  directory's files are left out: nothing reads them back.

## 3. Runs

The bounds are in the `.cfg` files and the `MC` modules; these are the cases they
are chosen for.

| run | instance | distinct states | shows |
|---|---|---|---|
| `pool_contract` | 2 keys of built sessions, 2 of supplied, 3 of each session, caps 1 to 3 that change, 2 counted drops | 135,726 | no session leaks or outlives the cap, in any order of calls; the pool implements `SessionLifetime`; evictions take the least recently served key |
| `catalogue_files` | 2 fingerprints, writes of one may fail or tear, a directory set and unset, a restart | 146,262 | `_written` never claims what is not on disk; at `done()` every fingerprint has landed, H2 half included |
| `mirror_registry` | 2 candidates, one of which reorders and has an unprobed sibling; a sink that is late, loses, tears or garbles; a browser in 2 orders and an app that resumes; a preset file; 2 minted presets | 247,408 | what the probe learns is true, and names, bases and permutation of the presets minted on it are justified; a probe ends |
| `setup` | 3 users' configs, install, uninstall, crashes, starts with and without overrides, updates of up to 6 options of which rules, filters, files and directories may be refused, 2 updates, 1 or 2 listeners, an httpcloak that replays, does not, or cannot be asked | 984,176 | the installer spares the user's settings; what is served is safe; the addon follows its options |
| `conversions` | up to 4 header fields of 6 names, hellos of 2 extensions of 8 cut at every byte, 3 frames of 7 arriving in any pieces, 2 of 17 HPACK representations cut at every byte | 67,313 | values and their order survive (`ValuesSurvive`, `OrderFitsHeaders`); one client has one identity, and one identity is treated alike (`OneClientOneIdentity`, `SameIdSameTreatment`); a cut loses the tail only (`CutLosesOnlyTheTail`, `KeptIsOfTheOpening`); openings and HPACK are read as they were written (`OpeningIsRead`, `RepresentationsAligned`) |
| `bridge_requests` | 2 connections of one client, 2 protocols, 3 scopes, 2 caps, all changing | 836,532 | no session crosses a scope, a protocol or a preset; requests start on open sessions |
| `bridge_mirror` | fresh, resuming and QUIC hellos, 2 connections, an httpcloak that replays, does not, or cannot be asked | 1,090,574 | profiles, names and counts stay with their connection; one that was answered is not counted as idle; a QUIC hello is mirrored to h3 only |
| `bridge_settles` | a request, 2 connections, callable, rule and mirror, an unencodable response, preset files and saves | 303,542 | the two liveness properties |

Four more runs, each of one property, are refuted: see below.

Why the bounds are enough. A pool key only matters through being the same as,
or older than, another, so two keys of a kind and three sessions let one
insertion evict two and one session replace another; the actions that drop
sessions stop at the bound of the statistics, by when an eviction and a sweep
have come in either order. Two connections are the least on which a connection
can be told from its client, and two flows the least that share a session. Two
candidates are the least on which a hello can be credited to the wrong one, and
each makes two connections, so one hello may be late by a get or by a candidate.
Two updates let a refused one follow one that was accepted and then lost its
preset file. A hello's parser keeps nothing from one extension to the next but
its position, an HPACK walk likewise, so two pieces show every pair of
neighbours; three frames put one before and one behind the first HEADERS. The
bounds are guards (`MaxDropped`, `MaxSeen`, `MaxRuns`, `MaxMinted`, `MaxUpdates`, and the four
lengths of `Conversions`) and nothing else. Deadlock is checked in `mirror_registry`;
elsewhere the system stops, at `done()`, at `MaxUpdates` or at a complete input.

Symmetry is used on model values of one kind in the pool and the bridge's
safety runs; no run with a liveness property uses it.

Fairness. In `bridge_settles`: every request hook that awaits ends
(`mitmcloak_timeout` is given to httpcloak with each request, bridge.py:437, and
`done()` cancels what is in flight, bridge.py:250), and a connection whose TLS
handshake failed is closed by mitmproxy. No client has to connect, send a
request or leave, and the user never has to stop the proxy. In `mirror_registry`:
the prober takes its next step, because each of its gets and waits has a
timeout (identify.py:122, 208); the sink's thread has no fairness, so
`ProbeEnds` holds if it never answers.

### What the code does otherwise than it says

Each of these runs is refuted by TLC; "findings" quotes the line.

| run | disagreement |
|---|---|
| `pool_shared_session` | a supplied session under two keys is closed by the pool (sessions.py:109) |
| `bridge_mirror_mode` | mirror mode falls back to the static preset (bridge.py:416; `MirrorModeNeverFallsBack`) |
| `bridge_orders` | the orders of several connections are never put together (bridge.py:310; `OrdersAddUp`) |
| `bridge_raises` | a response that cannot be converted makes mitmproxy send the request again (headers.py:103) |

Others were met on the way. They have no run of their own; the property they
touch is stated so as to leave them out:

* A save to another directory fills `_written`, and the catalogue's own directory
  stays incomplete (bridge.py:697, against README.md:179). `EverySeenLands` is checked
  with one directory.
* "`python -m mitmcloak uninstall` puts it back" (README.md:78-79) is true of the
  scripts and of a strategy the user had chosen. A mode he had set himself is
  removed (__main__.py:79-80), and the lazy strategy that install added stays
  (__main__.py:59), since uninstall does not look at it. `OwnSettingsSurvive` says
  what does survive and nothing of the mode or of an added strategy.
* A proxy that mitmproxy is told to chain through reaches the sessions built from
  then on. One already in the pool keeps the proxy it was built with, or none,
  because the key has no proxy in it (bridge.py:495-501), although options.py:117-118
  asks that it not be "silently bypassed". `BuiltChained` is about
  the session that would be built now.
* "Refuse to mirror against an httpcloak that cannot replay a captured hello"
  (bridge.py:176) is not kept where the probe fixture is missing: the mode stays
  and the log says that mirroring is unverified (bridge.py:186-188).
  `MirrorNeedsSupport`, `StartsSafely` and `SetWinsOverConstructor` say so.
* A hello cut short may raise IndexError or struct.error, where the docstring on
  capture.py:135 names ValueError; one such record ends the whole identity map
  (identify.py:138), which is `Cut` of `IdentityProbe`.
* A padded HEADERS frame has its padding taken off at the front, with the length
  byte, rather than at the end (capture.py:286). `OpeningIsRead` exempts it; and it
  speaks of blocks of indexed fields of the static table, since it says which
  bytes name the pseudo-headers (`RepresentationsAligned` is about all others).
* A header repeated in two spellings is looked up by one and stored under the
  other, so that one name may go out twice (headers.py:48, against
  headers.py:34). In `ValuesSurvive`, `RepeatsCollapse` asks for one
  spelling and `NoValueLost` does not.
* Of the hop-by-hop headers "stripped in both directions" (headers.py:11), a
  response keeps all but those in `RESPONSE_DROP` (headers.py:100), and trailers keep
  all. `ResponseKeepsRepeats`, in `ValuesSurvive`, is about end-to-end headers and
  leaves the others out.

### Conditions of the passing runs

Some properties hold only where the code is used in a certain way. Where that
is a matter of the instance, the instance is chosen so; where it can happen at
any time, the property names it.

* `SuppliedNeverClosed` and `ImplementsLifetime` need `OneKeyEach`, that each supplied
  session is given under one key. `EvictsLeastRecentlyServed` exempts a key whose
  session was replaced, since `adopt` does not renew its place (sessions.py:65).
  `StartsOnOpenSession` needs a cap of at least 1, which the option does not enforce.
* `InsertionsRespectCap` speaks of insertions: lowering the cap closes nothing until
  the next one (bridge.py:120).
* Counters in a file of the catalogue are those of the moment it was written
  (catalogue.py:123), and after a restart a file may lose its HTTP/2 half until the
  client is seen again in full.
* `NoQuicOverTcp` needs a protocol that does not change (the preset is cached by
  connection, bridge.py:505), `MirrorNeedsSupport` a mode that does not (bridge.py:192)
  and a fixture to ask with.
* `AnsweredIsNotIdle` is about connections with an answered request: one that leaves
  while all its requests are in flight is counted as idle (bridge.py:353).
* `RequestOnItsOwnSession` speaks of preset and protocol: other session options stay
  what they were when the session was built (bridge.py:499-501).
* `SlotsHold` protects a fresh hello, but a connection that resumes first has its
  resuming hello in both slots (bridge.py:302-307).
* `NameCoversIdentity` is what a name stands for: the HTTP/2 half of a document, and
  its bytes, are not covered (mirror.py:236).
* `CreditedToItsSender`, `PermutesWithReason` and `BaseIsOfItsStack` hold until a get of
  the probe returned with its hello unread (`late`, for good): the code counts what
  came since the candidate's turn began, and a hello that comes later is then the
  next candidate's (identify.py:75). What still holds is `NeverCreditedEarly`.
* `StartsSafely` and `SetWinsOverConstructor` hold until the user sets the option anew
  (`touched`), trust an httpcloak that could not be asked, and a mode set to its
  default counts as not set. `AddonFollowsOptions`
  exempts a proxy in which `configure()` raised something mitmproxy forgets
  (`swallowed`). `BuiltChained` exempts two listeners with different upstreams, of
  which the first is used for all, and asks for a scheme only where the user named
  no proxy of his own, which the code takes as it is.
* `OwnSettingsSurvive` exempts a write of config.yaml that was cut short
  (__main__.py:43), after which nothing is left to survive.
* `OrderFitsHeaders` is for `merge` and `exact`; in `replace` mode the order names
  headers that are dropped.

## 4. Proofs

The theorems hold for all values of the constants that satisfy the modules'
assumptions: the named `ASSUME`s, which say that model values are distinct, that
sets are finite where something is counted, that functions have the domains and
records the fields they are used with. The longest, `ConversionInputs`, says what
a header name, an extension, a frame and an HPACK representation is (types,
indices and lengths are natural numbers, as bytes are), that the hellos grow from
ones without extensions, and that `None` is no number and no result of the HPACK
reader, as in Python. `SetupConstants` and `SetupListeners` say that the user's
scripts are not the addon's own path, that no marker for "unset" is a value of
his, and that each option has its default among its values. TLC evaluates the
assumptions on each instance. A proof has one lemma
per action and part of the invariant; what several actions share (`DropTypes`,
`InsertTypes`, `MintKeepsInv`, `MirrorPresetTells`) is a lemma of its own.

| theorem | property | needs besides |
|---|---|---|
| `SessionPoolProofs`: `TypeCorrect`, `PoolIsOrdered`, `CapRespected`, `NoLeak`, `CountsLoseNothing` | `TypeOK`, `PoolInv`, `InsertionsRespectCap`, `NoSessionLeaked`, `DropsAreCounted` | |
| `SuppliedStayOpen`, `PoolImplementsLifetime` | `SuppliedNeverClosed`, `ImplementsLifetime` | `OneKeyEach` |
| `EvictionsAreLRU` | `EvictsLeastRecentlyServed` | |
| `CatalogueProofs`: `CatalogueTypeCorrect`, `RememberedIsOnDisk` | `CatalogueTypeOK`, `WrittenIsOnDisk` | |
| `EveryFingerprintLands` | `EverySeenLands` | `OneDirectory` |
| `MirroringProofs`: `ProbeTypeCorrect`, `YesIsTrue`, `NoEarlyCredit`, `NamesAreKept`, `CreditIsDue` | `ProbeTypeOK`, `YesMeansReplayed`, `NeverCreditedEarly`, `FirstNameWins`, `CreditedToItsSender` | |
| `MirrorTypeCorrect`, `ServedRegistered`, `NamesIdentify`, `BluntJustified`, `PermutesJustified`, `BaseJustified` | `MirrorTypeOK`, `ServedIsRegistered`, `NameCoversIdentity`, `BluntOnlyWhenRefused`, `PermutesWithReason`, `BaseIsOfItsStack` | |
| `SetupProofs`: `ServesSafely`, `SetWins`, `AddonFollows` | `StartsSafely`, `SetWinsOverConstructor`, `AddonFollowsOptions` | |
| `OwnSettingsKept`, `ChainedWhenBuilt` | `OwnSettingsSurvive`, `BuiltChained` | |
| `ConversionsProofs`: `InputsAreSound` | that what is put together is what the code may be given | |
| `RepeatsSurvive`, `OrderIsOfHeaders` | `ValuesSurvive`, `OrderFitsHeaders` | |
| `OfferIsIdentity`, `IdTreatsAlike`, `CutIsPrefix` | `OneClientOneIdentity`, `SameIdSameTreatment`, `CutLosesOnlyTheTail` | |
| `KeptIsTrue`, `OpeningIsTrue`, `BlocksAreAligned` | `KeptIsOfTheOpening`, `OpeningIsRead`, `RepresentationsAligned` | |
| `BridgeProofs`: `ScopesApart`, `OnItsOwnSession`, `MirrorsOwn`, `HellosKeepTheirSlots` | `ScopesKeptApart`, `RequestOnItsOwnSession`, `MirrorsItsOwnClient`, `SlotsHold` | |
| `AddonLeaksNothing` | `NoSessionLeaked`, of the pool as the bridge uses it | |
| `AddonImplementsLifetime`, `AddonSparesSupplied` | `ImplementsLifetime`, `SuppliedNeverClosed`, likewise | `OneKeyEach` of the pool's keys |
| `StartsOpen` | `StartsOnOpenSession` | `OneKeyEach` of the pool's keys, `0 \notin Caps` |
| `QuicStaysOnH3` | `NoQuicOverTcp` | `QuicById`, `"http_version" \notin Changes` |
| `AddonRemembersFiles` | `WrittenIsOnDisk`, of the catalogue as the bridge uses it | |
| `AddonKeepsFingerprints` | `EverySeenLands`, likewise | `OneDirectory` |
| `MirroredAsShown` | `CarriesOwnHello`: the document behind a mirrored request, not only its name, is of its own connection's client | |
| `HellosAreAccounted` | `HelloAccounting` | `IsFiniteSet(Conns)` |
| `AnsweredNeverIdle` | `AnsweredIsNotIdle` | |
| `BridgeTypeCorrect` | `BridgeTypeOK` | |
| `MirrorsOnlyWithSupport` | `MirrorNeedsSupport` | `"mode" \notin Changes` |

`TypeOK`, `PoolInv`, `DropsAreCounted`, `CatalogueTypeOK`, `MirrorTypeOK`, `BluntOnlyWhenRefused`,
`ProbeTypeOK` and `FirstNameWins` are in no run of their own: they are proved for every
instance, and what the runs check rests on them. `SuppliedNeverClosed` is proved
under `OneKeyEach` and refuted without it by `pool_shared_session`.

Where the property is not inductive, this is what had to be added.

* `NoSessionLeaked` (`LeakInv`): a session found in `_external` is not closed when
  dropped, so `external` must stay within the supplied sessions, and each key must
  hold a session of its own kind. For `SuppliedNeverClosed`: a supplied session in
  the pool is in `_external`, since the pool must still know it is the user's when
  its key goes; without `OneKeyEach` that is false (`pool_shared_session`).
* `PoolInv` and `DropsAreCounted`: the order is total on the pooled keys and says
  nothing of others, so an insertion at the end keeps it; counting a sweep needs
  that no two keys hold one built session, which `NoSessionLeaked` gives.
* `PoolImplementsLifetime`: each step of the pool is a step of `SessionLifetime` on
  the set of pooled sessions, or leaves it alone.
* `EverySeenLands` (`CatalogueInv`): `WrittenIsOnDisk` with one directory says that what
  is in `_written` is in that directory as it is in memory; `done()` writes the rest.
* `CreditedToItsSender` (`CreditInv`): while no get was left unread, what is in the
  backlog or captured since `before` was sent by the candidate whose turn it is.
  The theorem has to count: a preset said to reorder was seen with two orders, so
  it has two hellos (cardinalities of finite sets). `NeverCreditedEarly` (`HeardInv`)
  says of every hello, read or not, that a candidate up to this one sent it.
* `PermutesWithReason` and `BaseIsOfItsStack` (`ReasonInv`): a name minted earlier was
  justified by the map as it was then, and the map grows. It must not change what
  it says of a family it knows, which is `FirstNameWins`, nor lose a preset known to
  reorder; and a map given up half way must not have been used.
* `AddonFollowsOptions` (`SetupInv`): `applied` and `options` agree before the update, so
  a refused one that is rolled back agrees again for what was applied before the
  refusal, even if the second `configure()` refuses the old values too.
* `ScopesKeptApart` (`Isolation`): flows that share a built session were given it under
  one key, because a session enters the pool once and is never built again; the
  key holds the peer in the scope that was in force. The pool's part of each step
  is a lemma of `SessionPoolProofs`, used through `INSTANCE`: the bridge's proof
  shows that the instance meets the pool's assumptions, and that each of its
  actions is one of the pool's or leaves the pool alone.
* `MirrorsItsOwnClient` (`OwnPresets`): a profile holds only hellos of its connection, a
  cached preset is one of its profile's and registered. That no other client's
  minting, no preset file and no refusal disturbs it is `MirrorRegistryProofs`, used
  the same way.
* `StartsOnOpenSession` (`OpenInv`, of the pool): with one key for each supplied
  session, all pooled sessions are open. What an insertion evicts are the oldest
  keys, and the key it has just put last is not one of them unless the cap is 0
  (`NewestStays`), so what a request is handed is still in the pool.
* `EvictsLeastRecentlyServed` (`RecencyInv`): the order of the OrderedDict agrees with
  the order of service on every key that was not replaced at its place.
* `HelloAccounting` (`Accounted`): no profile is of a fingerprint the catalogue has not
  seen, a hello adds at most one holder and exactly one connection, and a
  disconnection turns at most one holder into one that asked for nothing. The
  catalogue's part of each step of the bridge is a lemma of `CatalogueProofs`, and
  `WrittenIsOnDisk` comes with it.
* `BridgeTypeOK`: that an unbuilt session has no keywords needs that it is under no
  key (`PoolSound`), so that no eviction closes it; that no profile and no preset is
  kept of a connection that has gone needs that the hooks before the await see it open.
* `AddonKeepsFingerprints`: a hook that runs after `done()` leaves the catalogue alone,
  so the step that reaches it is `done()`'s own flush; with `WrittenIsOnDisk` at
  that moment, `EverySeenLands` of the catalogue follows.
* `AddonImplementsLifetime`: each hook is one step of the pool, or none
  (`PoolSteps`), and each step of the pool one of the contract, or none.
* `AnsweredIsNotIdle` (`AnsweredAreMarked`): a connection that is open and had a
  request answered is in `_requested`: the second half of the hook puts it there in
  the step that answers, and only its own disconnection takes it out.
* `OwnSettingsSurvive` (`FileInv`): what config.yaml may hold
  after each command, and that what a crash leaves is either file or no file.
* `BuiltChained` (`ModesTyped`): the options keep to their values through every
  start and update; the first chained listener is then a listener.
* `KeptIsOfTheOpening` (`KeptInv`): what was kept was read at a moment when the bytes
  then there were a prefix of those that are there now.
* `NoQuicOverTcp` (`TcpPresets`): without h3, the presets remembered for connections
  are of hellos that are not QUIC's; `QuicById` says that an identity tells which.

How the conversions are proved. The code goes through lists with loops and
comprehensions, which `Lists` has as recursive functions on the number of
elements, so each theorem of `ConversionsProofs` is for headers, extensions,
frames and representations of any number. It needs induction, and the library's
induction theorems take an operator, which no prover here can be given. `ListProofs`
therefore proves induction again for a *set* that stands for the property, from
the well-foundedness of `<` on the natural numbers: upwards and downwards to a
bound (`UpTo`, `DownFrom`), for all numbers below or above one (`AllBelow`,
`AllAbove`), and on lists by their last element (`ListInduction`). That the recursive
functions exist at all, which TLA+ does not give for free, is proved in the same
way (`LoopExists`, `RecursionExists`). tlapm does not know `SelectSeq`, hence `Only`. On
these rest

* that a comprehension keeps what it should, in order, and nothing else;
  concatenation, flattening and totals of lists; that a prefix goes to a prefix;
* `ExtensionsFollow`, `WholeItems`, `PartItems`: the extensions of a hello start at
  offsets that are the totals of the sizes before them, so a cut leaves whole
  extensions, then one that is itself cut or refused, then none;
* the invariants of the loops over headers, by induction on the list: `Fits` (the
  order names each header that goes end to end, once, by its first place),
  `Lossless` and `Collapsed` (every value of a request is in one entry, under its
  own name; repeats in one spelling are joined in order), `SaysAll` (a response
  says of each name what its header says);
* `BlocksAreAligned`, whose proof is the longest. An HPACK integer is read byte by
  byte to its end or to the end of the block; the functions that do so, and the
  walk over the block, are shown to exist and to be the ones the model names.
  Encoded integers, strings and representations are then shown to be read back
  as they were and to end where they end, and the walk, after `n` representations,
  to stand at the start of the next. Of a block that is cut, every reading either
  fails or is that of the whole block (`MoreNext`, `VarintCut`, `EndCut`), so the walk
  finds the first representations of the whole.

Only model-checked. Liveness (`EveryRequestSettles`, `RefusedFingerprintLands`,
`ProbeEnds`), for which the proof system has no rules. Every other property of a
passing run is stated by a theorem.

## 5. What could follow

1. One instance in which the probe of `Mirroring` runs inside the hooks of `Bridge`;
   with the connections it adds, it is beyond what TLC finishes in minutes. The
   theorems of both could be joined without one.
2. The reads of the read-only commands, if one of them is ever given a write.

## 6. Not modelled

`addon.py` and `__init__.py` have no behaviour. The read-only commands (presets,
preset.describe, mirror.list, mirror.export, catalogue, stats, debug.memory)
print, or write files nothing reads back. Within modelled components: the JSON
of `build_preset`, `unnegotiable_ciphers` (it decides a warning), the User-Agent
tables, the ja3 and akamai strings, option names and help texts: data that no
property tells apart. Real time: idle times and timeouts are choices, and how
long the event loop is blocked by the probe is not measured. A session closed
while a request is in flight is modelled, and what httpcloak then does is
`UpstreamFails` or `Answer`: the code promises nothing about it. That hazard (sessions.py:85),
the answer that comes after its client left (bridge.py:476) and the counters of a
file already written (catalogue.py:123) have no property; their notes say why.
