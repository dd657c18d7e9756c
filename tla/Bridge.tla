-------------------------------- MODULE Bridge --------------------------------
(***************************************************************************)
(* mitmcloak/bridge.py: the hooks of the mitmproxy addon, composed from    *)
(* the session pool, the mirror registry and the catalogue.                *)
(*                                                                         *)
(* Every hook runs on the event loop.  All but `request` return without    *)
(* awaiting and are one action each.  `request` is two: everything up to   *)
(* `await session.request_async(...)`, and everything after it, which may  *)
(* come after other requests, after the client has gone, after options     *)
(* changed and after done().                                               *)
(*                                                                         *)
(* Left out: bridge.stats, log lines and flow.metadata, which nothing      *)
(* reads back; the export directory, which nothing reads back either.      *)
(***************************************************************************)
EXTENDS Integers, FiniteSets

CONSTANTS
    Conns,         \* client connections; mitmproxy never reuses an id
    ClientOf,      \* ClientOf[c]: the peer address of c
    Says,          \* Says[c]: the hellos the client of c may send
    Flows,         \* requests
    ConnOf,        \* ConnOf[f]: the connection of f
    HostOf,        \* HostOf[f]: its origin
    Values,        \* Values[n]: the values the option n is ever given
    Changes,       \* the options changed while the proxy runs
    Rules,         \* presets named by mitmcloak_rule
    Factory,       \* Factory[h]: sessions the callable may return for origin h
    Installs,      \* whether httpcloak replays a captured hello, and whether the
                   \* package has the one to ask it with
    Unencodable,   \* whether a response may hold text that is not latin-1
    Permuting,     \* bases measured reordering their extensions (identify.py)
    NoPeer, NoProfile, NoDecision, NoKwargs,
    \* of SessionPool
    Owned, Supplied, NoSession, Caps, MaxDropped,
    \* of MirrorRegistry
    Hellos, NoHello, Prefaces, NoPreface, Bases, Unmodelled,
    PresetFiles, NoDoc, NoName,
    \* of Catalogue
    Dirs, NoDir, NoEntry, Torn, Faulty, MaxSeen

Hosts == {HostOf[f] : f \in Flows}
Clients == {ClientOf[c] : c \in Conns}

\* The options the model tells apart; `transport` stands for every other one
\* that becomes a keyword of httpcloak.Session (proxy, verify, timeout, ...).
OptionNames == {"mode", "preset", "http_version", "session_scope", "transport"}

ASSUME BridgeConstants ==
    /\ Permuting \subseteq Bases
    /\ Clients \cap Conns = {} /\ NoPeer \notin Conns \cup Clients
    /\ Says \in [Conns -> SUBSET Hellos]
    /\ ConnOf \in [Flows -> Conns]
    /\ Factory \in [Hosts -> SUBSET Supplied]
    /\ DOMAIN Values = OptionNames /\ Changes \subseteq OptionNames
    /\ Values["mode"] \subseteq {"auto", "static", "mirror"}
    /\ Values["session_scope"] \subseteq {"origin", "client", "connection"}
    /\ Installs \subseteq [replays : BOOLEAN, fixture : BOOLEAN]
    /\ Unencodable \in BOOLEAN

VARIABLES
    conn,              \* what mitmproxy has said of each connection
    profiles,          \* self._profiles
    presets_for_conn,  \* self._presets_for_conn
    requested,         \* self._requested
    task,              \* how far the request hook of each flow is
    decision,          \* what it decided: the reason, the scope and the pool key
    session,           \* the session it awaits, or awaited
    connected,         \* flows that mitmproxy itself sends upstream
    options,           \* ctx.options
    started,           \* running() has run
    replays,           \* whether the installed httpcloak replays hellos
    fixture,           \* whether probe_fixture finds a hello to ask it with
    built,             \* the keywords each pooled session was built with
    \* of the components
    pool, ahead, external, life, max_sessions, created, reused, evicted, swept,
    docs, registry,
    entries, written, directory, disk,
    phase

Mirror == INSTANCE MirrorRegistry

\* A preset by name: the reserved one, one of httpcloak's, or a mirror's.
Supply == <<"<supplied>">>
Named(p) == <<"named", p>>
Minted(n) == <<"minted", n>>

Presets ==
    {Supply} \cup {Named(p) : p \in Rules \cup Values["preset"]}
        \cup {Minted(n) : n \in Mirror!Names}

\* Slip: a connection is keyed by its client's address.
PeerByClient(scope, c) == IF scope = "origin" THEN NoPeer ELSE ClientOf[c]

\* What session_key appends for the scope.
Peer(scope, c) ==
    CASE scope = "origin"     -> NoPeer
      [] scope = "client"     -> ClientOf[c]
      [] scope = "connection" -> c

PoolKeys ==
    [host : Hosts, preset : Presets, http_version : Values["http_version"],
     peer : {Peer(scope, c) : scope \in Values["session_scope"], c \in Conns}]

SuppliedForKey ==
    [k \in PoolKeys |-> IF k.preset = Supply THEN Factory[k.host] ELSE {}]

Pool == INSTANCE SessionPool WITH Keys <- PoolKeys, SuppliedFor <- SuppliedForKey

Cat == INSTANCE Catalogue WITH Ids <- Mirror!Ids, runs <- 1, MaxRuns <- 1

\* What the components assume of their constants.
ASSUME BridgeComponents ==
    /\ Pool!PoolConstants /\ Mirror!MirrorConstants /\ Cat!CatalogueConstants
    /\ NoProfile \notin Mirror!Profiles
    /\ NoDecision \notin [reason : {"callable", "rule", "static", "mirror"},
                           scope : Values["session_scope"], key : PoolKeys]
    /\ NoKwargs \notin [preset : Presets, http_version : Values["http_version"],
                         transport : Values["transport"]]

connVars == <<conn, profiles, presets_for_conn, requested>>
flowVars == <<task, decision, session, connected>>
configVars == <<options, started, replays, fixture>>
poolVars == <<pool, ahead, external, life, max_sessions, created, reused, evicted, swept>>
mirrorVars == <<docs, registry>>
catalogueVars == <<entries, written, directory, disk>>
vars == <<connVars, flowVars, configVars, built, poolVars, mirrorVars, catalogueVars, phase>>

BridgeTypeOK ==
    /\ conn \in [Conns -> {"open", "refused", "gone"}]
    /\ profiles \in [Conns -> Mirror!Profiles \cup {NoProfile}]
    /\ presets_for_conn \in [Conns -> Mirror!Names \cup {NoName}]
    /\ requested \subseteq Conns
    /\ task \in [Flows -> {"new", "awaiting", "bridged", "failed", "passed", "raised", "cancelled"}]
    /\ \A f \in Flows : task[f] = "awaiting" =>
          decision[f] # NoDecision /\ session[f] \in Owned \cup Supplied
    /\ connected \subseteq Flows
    /\ options \in [OptionNames -> {"static"} \cup UNION {Values[n] : n \in OptionNames}]
    /\ started \in BOOLEAN /\ replays \in BOOLEAN /\ fixture \in BOOLEAN
    /\ \A s \in Owned : built[s] = NoKwargs <=> life[s] = "unborn"
    /\ \A c \in Conns : conn[c] = "gone" =>
          profiles[c] = NoProfile /\ presets_for_conn[c] = NoName

Init ==
    /\ conn = [c \in Conns |-> "open"]
    /\ profiles = [c \in Conns |-> NoProfile]
    /\ presets_for_conn = [c \in Conns |-> NoName]
    /\ requested = {}
    /\ task = [f \in Flows |-> "new"]
    /\ decision = [f \in Flows |-> NoDecision]
    /\ session = [f \in Flows |-> NoSession]
    /\ connected = {}
    /\ options \in {o \in [OptionNames -> UNION {Values[n] : n \in OptionNames}] :
                       \A n \in OptionNames : o[n] \in Values[n]}
    /\ started = FALSE
    /\ \E i \in Installs : replays = i.replays /\ fixture = i.fixture
    /\ built = [s \in Owned |-> NoKwargs]
    /\ Pool!Init
    /\ Mirror!MirrorInit
    /\ Cat!Init

\* Between running() and done().
Serving == started /\ phase = "running"

-----------------------------------------------------------------------------
(* Start-up, options and commands                                          *)

\* Slip: the answer of the probe is not acted on.
OptionsUnchecked == options

\* _check_mirror_capability: an httpcloak that does not replay the fixture turns
\* the mode to static; without a fixture nothing is asked and the mode stays.
OptionsChecked ==
    IF fixture /\ ~replays THEN [options EXCEPT !["mode"] = "static"] ELSE options

\* running.
Running ==
    /\ ~started
    /\ started' = TRUE
    /\ options' = OptionsChecked
    /\ UNCHANGED <<connVars, flowVars, replays, fixture, built, poolVars, mirrorVars,
                   catalogueVars, phase>>

\* An option is set from mitmproxy's UI (or, the preset, by mitmcloak.preset).
\* configure() does nothing for these: they are read when they are needed.
SetOption(name) ==
    /\ Serving /\ name \in Changes
    /\ \E v \in Values[name] : options' = [options EXCEPT ![name] = v]
    /\ UNCHANGED <<connVars, flowVars, started, replays, fixture, built, poolVars,
                   mirrorVars, catalogueVars, phase>>

\* The options that configure() does act on, and the commands that write.
Configure ==
    /\ Serving
    /\ \/ /\ \E n \in Caps : Pool!SetMaxSessions(n)
          /\ UNCHANGED <<mirrorVars, catalogueVars>>
       \/ /\ \E file \in PresetFiles : Mirror!LoadPreset(file)
          /\ UNCHANGED <<poolVars, catalogueVars, phase>>
       \/ /\ \/ \E d \in Dirs \cup {NoDir} : Cat!SetDirectory(d)
             \/ \E d \in Dirs : Cat!CmdCatalogueSave(d)
          /\ UNCHANGED <<poolVars, mirrorVars, phase>>
    /\ UNCHANGED <<connVars, flowVars, configVars, built>>

\* _sweep_loop; httpcloak's clock decides which sessions are idle.
SweepLoop ==
    /\ Serving
    /\ \E idle \in SUBSET Pool!Pooled : Pool!Sweep(idle)
    /\ UNCHANGED <<connVars, flowVars, configVars, built, mirrorVars, catalogueVars>>

\* done.  The hooks it cancels run once more each, see Cancel.
Done ==
    /\ Serving
    /\ Cat!FinalFlush
    /\ Pool!Close
    /\ Mirror!CloseMirror
    /\ UNCHANGED <<connVars, flowVars, configVars, built>>

-----------------------------------------------------------------------------
(* Capture                                                                 *)

\* Slip: the resuming hello takes the place of the fresh one.
SlotOfAny(h) == "hello"

SlotOf(h) == IF h.psk THEN "psk_hello" ELSE "hello"

\* A profile after one more hello.
WithHello(profile, h) ==
    LET old == IF profile = NoProfile
                 THEN [hello |-> h, psk_hello |-> NoHello, h2 |-> NoPreface, orders_seen |-> {}]
                 ELSE profile
    IN  [old EXCEPT ![SlotOf(h)] = h, !.orders_seen = @ \cup {h.order}]

\* tls_clienthello.  A connection may bring two: TLS to the proxy itself, and
\* TLS inside the tunnel.
TlsClientHello(c, h) ==
    /\ Serving
    /\ conn[c] = "open" /\ h \in Says[c]
    /\ Cat!NoteHello(h.id)
    /\ profiles' = [profiles EXCEPT ![c] = WithHello(@, h)]
    /\ UNCHANGED <<conn, presets_for_conn, requested, flowVars, configVars, built,
                   poolVars, mirrorVars, phase>>

\* next_layer, with an HTTP/2 preface in the decrypted bytes.
NextLayer(c, p) ==
    /\ Serving
    /\ conn[c] = "open"
    /\ profiles[c] # NoProfile
    /\ profiles[c].h2 = NoPreface
    /\ profiles' = [profiles EXCEPT ![c].h2 = p]
    /\ Cat!NoteH2(profiles[c].hello.id, p)
    /\ UNCHANGED <<conn, presets_for_conn, requested, flowVars, configVars, built,
                   poolVars, mirrorVars, phase>>

\* tls_failed_client; mitmproxy then closes the connection.
TlsFailedClient(c) ==
    /\ Serving
    /\ conn[c] = "open"
    /\ conn' = [conn EXCEPT ![c] = "refused"]
    /\ IF profiles[c] = NoProfile
         THEN UNCHANGED catalogueVars
         ELSE Cat!NoteRefused(profiles[c].hello.id)
    /\ UNCHANGED <<profiles, presets_for_conn, requested, flowVars, configVars, built,
                   poolVars, mirrorVars, phase>>

\* Slip: what the connection asked for is not looked at.
ObserveAll(c) ==
    IF profiles[c] = NoProfile
      THEN UNCHANGED catalogueVars
      ELSE Cat!RecordObserved(profiles[c].hello.id)

\* Slip: a connection that refused our certificate is not worth recording.
ObserveUnrefused(c) ==
    IF profiles[c] = NoProfile \/ c \in requested \/ conn[c] = "refused"
      THEN UNCHANGED catalogueVars
      ELSE Cat!RecordObserved(profiles[c].hello.id)

\* What client_disconnected leaves in the catalogue.
Observe(c) ==
    IF profiles[c] = NoProfile \/ c \in requested
      THEN UNCHANGED catalogueVars
      ELSE Cat!RecordObserved(profiles[c].hello.id)

\* Slips: what is known of a connection outlives it.
KeepingProfile(c) == profiles
KeepingPreset(c) == presets_for_conn

WithoutProfile(c) == [profiles EXCEPT ![c] = NoProfile]
WithoutPreset(c) == [presets_for_conn EXCEPT ![c] = NoName]

\* client_disconnected, with _record_observed.
ClientDisconnected(c) ==
    /\ Serving
    /\ conn[c] # "gone"
    /\ conn' = [conn EXCEPT ![c] = "gone"]
    /\ profiles' = WithoutProfile(c)
    /\ presets_for_conn' = WithoutPreset(c)
    /\ requested' = requested \ {c}
    /\ Observe(c)
    /\ UNCHANGED <<flowVars, configVars, built, poolVars, mirrorVars, phase>>

-----------------------------------------------------------------------------
(* The request hook, up to its await                                       *)

Arrives(f) == Serving /\ task[f] = "new" /\ conn[ConnOf[f]] = "open"

\* A WebSocket, a bypassed flow or a body over the limit goes back to mitmproxy.
Passthrough(f) ==
    /\ Arrives(f)
    /\ task' = [task EXCEPT ![f] = "passed"]
    /\ connected' = connected \cup {f}
    /\ UNCHANGED <<connVars, decision, session, configVars, built, poolVars, mirrorVars,
                   catalogueVars, phase>>

\* _targets_self: answered with 421.
TargetsSelf(f) ==
    /\ Arrives(f)
    /\ task' = [task EXCEPT ![f] = "failed"]
    /\ UNCHANGED <<connVars, decision, session, connected, configVars, built, poolVars,
                   mirrorVars, catalogueVars, phase>>

\* Slip: the protocol is not part of the key.
SessionKeyAnyVersion(f, preset) ==
    [host |-> HostOf[f], preset |-> preset,
     http_version |-> CHOOSE v \in Values["http_version"] : TRUE,
     peer |-> Peer(options["session_scope"], ConnOf[f])]

SessionKey(f, preset) ==
    [host |-> HostOf[f], preset |-> preset, http_version |-> options["http_version"],
     peer |-> Peer(options["session_scope"], ConnOf[f])]

\* session_options and build_session: options become keywords when built.
Kwargs(preset) ==
    [preset |-> preset, http_version |-> options["http_version"],
     transport |-> options["transport"]]

Decision(reason, k) == [reason |-> reason, scope |-> options["session_scope"], key |-> k]

\* The hook awaits session.request_async on s.
Await(f, s) ==
    /\ task' = [task EXCEPT ![f] = "awaiting"]
    /\ session' = [session EXCEPT ![f] = s]

\* _session_for with a session of the callable's.
SendSupplied(f, s) ==
    LET k == SessionKey(f, Supply)
    IN  /\ decision' = [decision EXCEPT ![f] = Decision("callable", k)]
        /\ Pool!AdoptSame(k, s) \/ Pool!AdoptOther(k, s)
        /\ Await(f, s)
        /\ UNCHANGED built

\* _session_for with a preset: the pooled session, a new one, or none because
\* building it raised and the flow was answered with 502.
SendPreset(f, reason, preset) ==
    LET k == SessionKey(f, preset)
    IN  /\ decision' = [decision EXCEPT ![f] = Decision(reason, k)]
        /\ \/ /\ Pool!GetHit(k)
              /\ Await(f, pool[k])
              /\ UNCHANGED built
           \/ \E s \in Owned :
                 /\ Pool!GetMiss(k, s)
                 /\ Await(f, s)
                 /\ built' = [built EXCEPT ![s] = Kwargs(preset)]
           \/ /\ k \notin Pool!Held
              /\ task' = [task EXCEPT ![f] = "failed"]
              /\ UNCHANGED <<session, built, poolVars, phase>>

\* Slip: a QUIC hello is mirrored whatever the protocol.
MirrorableAnyVersion(profile) == profile # NoProfile

\* _mirror_preset has something to mirror, and it suits the protocol.
Mirrorable(profile) ==
    /\ profile # NoProfile
    /\ profile.hello.quic => options["http_version"] = "h3"

\* Slip: the preset is remembered for the client, not for the connection.
RememberForClient(c, name) ==
    [d \in Conns |-> IF ClientOf[d] = ClientOf[c] THEN name ELSE presets_for_conn[d]]

Remember(c, name) == [presets_for_conn EXCEPT ![c] = name]

\* _mirror_preset, and the name it returns.  The base is the identifier's or the
\* User-Agent's choice.
MirrorPreset(c, name) ==
    IF presets_for_conn[c] # NoName
      THEN name = presets_for_conn[c] /\ UNCHANGED <<presets_for_conn, mirrorVars>>
      ELSE IF ~Mirrorable(profiles[c])
      THEN name = NoName /\ UNCHANGED <<presets_for_conn, mirrorVars>>
      ELSE /\ \E base \in Bases :
                 Mirror!Ensure(profiles[c], base, base \in Permuting, name)
           /\ presets_for_conn' = Remember(c, name)

\* Resolver.decide after the callable and the rules.  In mirror mode too, no
\* name means the static preset: what request() tests for that mode, a
\* "mirror" decision without a preset, is never made.
DecideByMode(f) ==
    \E name \in Mirror!Names \cup {NoName} :
        /\ IF options["mode"] = "static"
             THEN name = NoName /\ UNCHANGED <<presets_for_conn, mirrorVars>>
             ELSE MirrorPreset(ConnOf[f], name)
        /\ IF name = NoName
             THEN SendPreset(f, "static", Named(options["preset"]))
             ELSE SendPreset(f, "mirror", Minted(name))

\* request, up to its await.  The callable may return None or raise for any
\* flow, and a rule may match any or none.
Request(f) ==
    /\ Arrives(f)
    /\ \/ /\ \E s \in Factory[HostOf[f]] : SendSupplied(f, s)
          /\ UNCHANGED <<presets_for_conn, mirrorVars>>
       \/ /\ \E p \in Rules : SendPreset(f, "rule", Named(p))
          /\ UNCHANGED <<presets_for_conn, mirrorVars>>
       \/ DecideByMode(f)
    /\ UNCHANGED <<conn, profiles, requested, connected, configVars, catalogueVars>>

-----------------------------------------------------------------------------
(* The request hook, after its await                                       *)

Awaiting(f) == phase = "running" /\ task[f] = "awaiting"

\* The response is handed to mitmproxy, even when the client has gone.
Answer(f) ==
    LET c == ConnOf[f]
    IN  /\ Awaiting(f)
        /\ task' = [task EXCEPT ![f] = "bridged"]
        /\ requested' = requested \cup {c}
        /\ IF profiles[c] = NoProfile
             THEN UNCHANGED catalogueVars
             ELSE Cat!NoteRequest(profiles[c].hello.id)
        /\ UNCHANGED <<conn, profiles, presets_for_conn, decision, session, connected,
                       configVars, built, poolVars, mirrorVars, phase>>

\* A header or trailer cannot be encoded: the hook raises before it has set
\* flow.response, and mitmproxy goes on as for any unanswered flow.
AnswerUnencodable(f) ==
    /\ Awaiting(f)
    /\ Unencodable
    /\ task' = [task EXCEPT ![f] = "raised"]
    /\ connected' = IF conn[ConnOf[f]] = "gone" THEN connected ELSE connected \cup {f}
    /\ UNCHANGED <<connVars, decision, session, configVars, built, poolVars, mirrorVars,
                   catalogueVars, phase>>

\* request_async raises, a timeout or another error: _fail answers 504 or 502.
UpstreamFails(f) ==
    /\ Awaiting(f)
    /\ task' = [task EXCEPT ![f] = "failed"]
    /\ UNCHANGED <<connVars, decision, session, connected, configVars, built, poolVars,
                   mirrorVars, catalogueVars, phase>>

\* Slip: done() leaves the tasks in flight alone.
Gone(f) == conn[ConnOf[f]] = "gone"

CancelDue(f) == phase = "done" \/ conn[ConnOf[f]] = "gone"

\* CancelledError: mitmproxy cancels the hook of a client that has gone, and
\* done() those in flight, which then see nothing but the cancellation.
Cancel(f) ==
    /\ task[f] = "awaiting"
    /\ CancelDue(f)
    /\ task' = [task EXCEPT ![f] = "cancelled"]
    /\ UNCHANGED <<connVars, decision, session, connected, configVars, built, poolVars,
                   mirrorVars, catalogueVars, phase>>

-----------------------------------------------------------------------------

Settle(f) == Answer(f) \/ AnswerUnencodable(f) \/ UpstreamFails(f) \/ Cancel(f)

Next ==
    \/ Running
    \/ \E name \in OptionNames : SetOption(name)
    \/ Configure
    \/ SweepLoop
    \/ Done
    \/ \E c \in Conns, h \in Hellos : TlsClientHello(c, h)
    \/ \E c \in Conns, p \in Prefaces : NextLayer(c, p)
    \/ \E c \in Conns : TlsFailedClient(c) \/ ClientDisconnected(c)
    \/ \E f \in Flows : Passthrough(f) \/ TargetsSelf(f) \/ Request(f) \/ Settle(f)

Spec == Init /\ [][Next]_vars

\* Each request ends, because mitmcloak_timeout is handed to httpcloak with it
\* and cancellation is delivered; mitmproxy closes a connection whose
\* handshake failed.  Nothing else is assumed to happen.
Fairness ==
    /\ \A f \in Flows : WF_vars(Settle(f))
    /\ \A c \in Conns : WF_vars(conn[c] = "refused" /\ ClientDisconnected(c))

FairSpec == Spec /\ Fairness

-----------------------------------------------------------------------------
(* Properties                                                              *)

Starts(f) == task[f] = "new" /\ task'[f] = "awaiting"

\* A request never goes out on a session built for another preset or another
\* protocol, however the options changed since the session was pooled
\* (session_key, _session_for).
RequestOnItsOwnSession ==
    [][\A f \in Flows : Starts(f) /\ session'[f] \in Owned =>
          LET kwargs == built'[session'[f]]
          IN  kwargs.preset = decision'[f].key.preset
              /\ kwargs.http_version = options["http_version"]]_vars

\* A request starts on a session that is open: the trim that follows an
\* insertion never takes the session just inserted, and get returns none that
\* was closed (sessions.py:69-85; for caps of at least one).
StartsOnOpenSession ==
    [][\A f \in Flows : Starts(f) => life'[session'[f]] = "open"]_vars

\* Requests that were scoped to a connection, or a client, share their session
\* with no request of another, not even with one made under another scope
\* before the option was changed ("identity separation", options.py:66-69).
ScopesKeptApart ==
    \A f, g \in Flows :
        session[f] = session[g] /\ session[f] \in Owned =>
            /\ HostOf[f] = HostOf[g]
            /\ decision[f].scope = "connection" => ConnOf[f] = ConnOf[g]
            /\ decision[f].scope = "client" =>
                  ClientOf[ConnOf[f]] = ClientOf[ConnOf[g]]

\* A flow that was handed to httpcloak is never sent by mitmproxy as well, which
\* would reach the origin twice, once with mitmproxy's fingerprint: "Should
\* stay at zero for every bridged flow" (bridge.py:276, server_connect).
NoUpstreamForBridged == \A f \in connected : decision[f] = NoDecision

\* A mirrored request carries a preset that is registered, of a hello its own
\* connection may have sent, whatever other clients do meanwhile
\* (_mirror_preset, _presets_for_conn).
MirrorsItsOwnClient ==
    [][\A f \in Flows : Starts(f) /\ decision'[f].reason = "mirror" =>
          LET name == decision'[f].key.preset[2]
          IN  /\ registry'[name] # NoDoc
              /\ name.id \in {h.id : h \in Says[ConnOf[f]]}]_vars

\* "A QUIC hello ... over TCP is not a mirror, it is a shape no client makes"
\* (bridge.py:513-514): the preset of a QUIC hello is served only to h3.
NoQuicOverTcp ==
    [][\A f \in Flows, h \in Hellos :
          Starts(f) /\ decision'[f].reason = "mirror" /\ options["http_version"] # "h3" =>
              ~(h.quic /\ h.id = decision'[f].key.preset[2].id)]_vars

\* "Refuse to mirror against an httpcloak that cannot replay a captured hello"
\* (bridge.py:176), as long as nobody sets the mode while the proxy runs.  One
\* that could not be asked, for want of a fixture, is not refused: the code then
\* warns and mirrors unverified (bridge.py:186-188).
MirrorNeedsSupport ==
    \A f \in Flows :
        decision[f] # NoDecision /\ decision[f].reason = "mirror" => replays \/ ~fixture

\* The mirror mode "refuses to fall back" (options.py:36-38, README.md:246).
MirrorModeNeverFallsBack ==
    [][\A f \in Flows : Starts(f) /\ options["mode"] = "mirror" =>
          decision'[f].reason # "static"]_vars

\* A resuming hello never replaces a fresh one that the connection has shown
\* (bridge.py:304-309, tls_clienthello), and the one that resumes is kept too.
SlotsHold ==
    [][\A c \in Conns : profiles[c] # NoProfile /\ profiles'[c] # NoProfile =>
          /\ ~profiles[c].hello.psk => ~profiles'[c].hello.psk
          /\ profiles[c].psk_hello # NoHello => profiles'[c].psk_hello # NoHello]_vars

OneClientInTwoOrders(c, d) ==
    /\ ClientOf[c] = ClientOf[d]
    /\ profiles[c] # NoProfile /\ profiles[d] # NoProfile
    /\ profiles[c].hello.id = profiles[d].hello.id
    /\ profiles[c].orders_seen # profiles[d].orders_seen

\* "True once the same client has been seen sending more than one order ...
\* Browsers open several connections during one page load, so the samples
\* arrive on their own" (mirror.py:90-95): with two orders of one client seen
\* on two open connections, a preset minted for it permutes.
OrdersAddUp ==
    [][\A c, d \in Conns :
          presets_for_conn[c] = NoName /\ presets_for_conn'[c] # NoName
            /\ OneClientInTwoOrders(c, d) => presets_for_conn'[c].permute]_vars

\* A connection is counted once: the connections of a fingerprint that ended
\* without a request and those still open are together no more than those
\* that were counted when they said hello (note_hello, note_no_request).
HelloAccounting ==
    \A i \in Cat!Seen :
        entries[i].no_request
            + Cardinality({c \in Conns : profiles[c] # NoProfile /\ profiles[c].hello.id = i})
            <= entries[i].connections

\* "Connections that produced a hello but never a request we could act on"
\* (catalogue.py:37): one that had a request of its answered before it left does
\* not count as such, whatever hellos, other requests and refusals came between
\* (_requested, client_disconnected).  One whose requests are all still in flight
\* when it leaves does count (bridge.py:353).
AnsweredIsNotIdle ==
    [][\A f \in Flows :
          LET c == ConnOf[f]
          IN  task[f] = "bridged" /\ conn[c] # "gone" /\ conn'[c] = "gone" =>
                  UNCHANGED entries]_vars

\* A request that went to httpcloak does not hang: it is answered, fails, or is
\* cancelled, at the latest after done() (mitmcloak_timeout, _inflight).
EveryRequestSettles == \A f \in Flows : task[f] = "awaiting" ~> task[f] # "awaiting"

\* "The fingerprint is the whole point of capturing it, so keep it rather than
\* letting it die with the connection" (bridge.py:357-361): that of a client
\* which refused our certificate before any request reaches the directory.
RefusedFingerprintLands ==
    \A c \in Conns, i \in Mirror!Ids :
        (/\ conn[c] = "refused" /\ \A f \in Flows : ConnOf[f] = c => task[f] = "new"
         /\ profiles[c] # NoProfile /\ profiles[c].hello.id = i /\ directory # NoDir)
            ~> (directory = NoDir \/ disk[directory][i] # NoEntry)

=============================================================================
