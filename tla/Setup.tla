--------------------------------- MODULE Setup ---------------------------------
(***************************************************************************)
(* How mitmcloak gets into mitmproxy and what it runs with: the installer  *)
(* (mitmcloak/__main__.py) and config.yaml, the options the proxy starts   *)
(* with, what running() makes of them, and the updates of several options  *)
(* at once that Bridge.configure may refuse half way (options.py,          *)
(* bridge.py, resolve.py).                                                 *)
(*                                                                         *)
(* In config.yaml mitmcloak_preset is treated as mitmcloak_mode is, and    *)
(* only the latter is modelled.  mitmproxy's option manager is external:   *)
(* it calls configure(updated) after it stored the new values; on          *)
(* OptionsError it puts the old ones back and calls configure(updated)     *)
(* again; any other exception of an addon it logs and forgets.             *)
(***************************************************************************)
EXTENDS Lists, SequencesExt

CONSTANTS
    Path,          \* addon.__file__ of the Python that runs the installer
    OwnConfigs,    \* what the user may have in config.yaml: scripts, mode, strategy
    Overrides,     \* the mode arguments a user may construct Bridge with
    Modes, Strategies, RuleSpecs, Filters, PresetFiles, Caps, Listeners, Proxies,
    ExportDirs, CatalogueDirs,     \* the values the options are given
    BadRule, BadFilter,            \* those that do not parse
    ReadOnly,                      \* an export directory that cannot be made
    DefaultCap,    \* of Caps
    Unset,         \* an absent key, an empty string, None
    Unreadable,    \* a config.yaml that is not YAML
    Together,      \* the sets of options that are updated together
    MaxUpdates     \* bound on the updates of a running proxy

ASSUME SetupConstants ==
    /\ {"auto", "static"} \subseteq Modes /\ Unset \notin Modes
    /\ {"eager", "lazy"} \subseteq Strategies /\ Unset \notin Strategies
    /\ BadRule # Unset /\ BadFilter # Unset
    /\ Overrides \subseteq Modes \cup {Unset}
    /\ \A c \in OwnConfigs :
          /\ c = [scripts |-> c.scripts, mode |-> c.mode, strategy |-> c.strategy]
          /\ c.scripts \in Seq(Range(c.scripts)) /\ Path \notin Range(c.scripts)
          /\ c.mode \in Modes \cup {Unset} /\ c.strategy \in Strategies \cup {Unset}
    /\ MaxUpdates \in Nat

Empty == [scripts |-> <<>>, mode |-> Unset, strategy |-> Unset]

Values ==
    [mode |-> Modes, strategy |-> Strategies, rule |-> RuleSpecs, bypass |-> Filters,
     preset_file |-> PresetFiles, max_sessions |-> Caps, export_dir |-> ExportDirs,
     catalogue_dir |-> CatalogueDirs, listeners |-> Listeners, proxy |-> Proxies]
Names == DOMAIN Values
ASSUME SetupTogether == Together \subseteq SUBSET Names

\* What configure() copies from the options into the addon.
Copied == {"rule", "bypass", "max_sessions", "catalogue_dir"}

VARIABLES
    config,        \* config.yaml
    own,           \* history: what the user had written there
    last,          \* history: the installer's last command; "crash" if one crashed
    phase,         \* of the proxy: "off", "loaded", "serving"
    override,      \* the mode Bridge was constructed with
    supported,     \* whether httpcloak replays captured hellos
    fixture,       \* whether the hello to ask it with is there and can be read
    options,       \* ctx.options
    asked,         \* history: the mode of config.yaml or --set
    applied,       \* the addon's copies: resolver.rules, pool.max_sessions, ...
    readable,      \* the preset files that can be loaded
    swallowed,     \* history: an update ended in an exception mitmproxy forgot
    touched,       \* history: the options the user set since running()
    updates

fileVars == <<config, own, last>>
runVars == <<phase, override, supported, fixture, options, asked, applied, readable,
             swallowed, touched, updates>>
vars == <<fileVars, runVars>>

SetupTypeOK ==
    /\ config # Unreadable => DOMAIN config = {"scripts", "mode", "strategy"}
    /\ last \in {"none", "install", "uninstall", "crash"}
    /\ phase \in {"off", "loaded", "serving"}
    /\ \A n \in Names : options[n] \in Values[n]
    /\ DOMAIN applied = Copied /\ DOMAIN options = Names
    /\ touched \subseteq Names /\ updates \in 0 .. MaxUpdates

Defaults ==
    [mode |-> "auto", strategy |-> "eager", rule |-> Unset, bypass |-> Unset,
     preset_file |-> Unset, max_sessions |-> DefaultCap, export_dir |-> Unset,
     catalogue_dir |-> Unset, listeners |-> <<[upstream |-> Unset]>>, proxy |-> Unset]

\* A listener that chains names another proxy: a host and, perhaps, a scheme.
Chains == {chain \in UNION {{l[i].upstream : i \in DOMAIN l} : l \in Listeners} : chain # Unset}
ASSUME SetupListeners ==
    /\ \A n \in Names : Defaults[n] \in Values[n]
    /\ \A l \in Listeners : l \in Seq(Range(l))
    /\ \A chain \in Chains :
          /\ chain = [host |-> chain.host, scheme |-> chain.scheme]
          /\ Unset \notin [host : {chain.host}, scheme : {chain.scheme, "http"}]
    /\ Unset # "http"

Init ==
    /\ config \in OwnConfigs /\ own = config
    /\ last = "none"
    /\ phase = "off" /\ override = Unset /\ supported \in BOOLEAN
    /\ fixture \in BOOLEAN /\ options = Defaults /\ asked = Unset
    /\ applied = [n \in Copied |-> Defaults[n]]
    /\ readable = PresetFiles \ {Unset}
    /\ swallowed = FALSE /\ touched = {} /\ updates = 0

-----------------------------------------------------------------------------
(* The installer                                                           *)

First(value, otherwise) == IF value # Unset THEN value ELSE otherwise

\* _save: write_text truncates the file, and may not get to write it.
Save(data, command) ==
    \/ config' = data /\ last' = IF last = "crash" THEN last ELSE command
    \/ config' \in {Empty, Unreadable} /\ last' = "crash"

\* Slip: install appends its path every time.
WithPathAgain(scripts) == Append(scripts, Path)

WithPath(scripts) ==
    IF Path \in Range(scripts) THEN scripts ELSE Append(scripts, Path)

Install(mode) ==
    /\ config # Unreadable
    /\ Save([scripts |-> WithPath(config.scripts),
             mode |-> First(mode, config.mode),
             strategy |-> First(config.strategy, "lazy")],
            "install")
    /\ UNCHANGED <<own, runVars>>

WithoutPath(scripts) == Without(scripts, {Path})

\* uninstall: connection_strategy stays as it is.
Uninstall ==
    /\ config # Unreadable
    /\ Save([config EXCEPT !.scripts = WithoutPath(@), !.mode = Unset], "uninstall")
    /\ UNCHANGED <<own, runVars>>

-----------------------------------------------------------------------------
(* The proxy starts                                                        *)

\* mitmproxy reads config.yaml and the command line, which may set any option
\* the user wants, and loads the addon: installed, or by -s with a Bridge of
\* the user's own.  configure() runs for all options and does not raise.
Load ==
    /\ phase = "off" /\ config # Unreadable
    /\ \E mode \in Modes \cup {Unset}, strategy \in Strategies \cup {Unset}, o \in Overrides :
          /\ o # Unset \/ Path \in Range(config.scripts)
          /\ override' = o
          /\ asked' = First(mode, config.mode)
          /\ options' = [options EXCEPT
                !.mode = First(asked', "auto"),
                !.strategy = First(First(strategy, config.strategy), "eager")]
    /\ phase' = "loaded"
    /\ UNCHANGED <<fileVars, supported, fixture, applied, readable, swallowed, touched,
                   updates>>

\* Slip: the argument wins over --set too.
OverriddenAlways(mode) == First(override, mode)

\* _apply_overrides: an option that still has its default takes the argument.
Overridden(mode) == IF override # Unset /\ mode = "auto" THEN override ELSE mode

\* Slip: the capability is looked at only for mirror mode, and auto mirrors too.
ModeWhenRunningUnchecked ==
    IF Overridden(options.mode) = "mirror" /\ fixture /\ ~supported
      THEN "static" ELSE Overridden(options.mode)

\* _apply_overrides, then _check_mirror_capability: without a fixture to ask
\* with, it warns and lets the mode be.
ModeWhenRunning ==
    IF Overridden(options.mode) # "static" /\ fixture /\ ~supported
      THEN "static" ELSE Overridden(options.mode)

Running ==
    /\ phase = "loaded" /\ phase' = "serving"
    /\ options' = [options EXCEPT !.strategy = "lazy", !.mode = ModeWhenRunning]
    /\ UNCHANGED <<fileVars, override, supported, fixture, asked, applied, readable,
                   swallowed, touched, updates>>

Stop ==
    /\ phase = "serving" /\ phase' = "off"
    /\ options' = Defaults /\ applied' = [n \in Copied |-> Defaults[n]]
    /\ swallowed' = FALSE /\ touched' = {} /\ updates' = 0
    /\ UNCHANGED <<fileVars, override, supported, fixture, asked, readable>>

-----------------------------------------------------------------------------
(* Updates                                                                 *)

RulesRaise(o, updated) ==
    updated \cap {"rule", "bypass"} # {} /\ (o.rule = BadRule \/ o.bypass = BadFilter)

FilesRaise(o, updated) ==
    "preset_file" \in updated /\ o.preset_file \notin readable \cup {Unset}

\* configure() raises OptionsError; or mkdir raises something else.
Refuses(o, updated) == RulesRaise(o, updated) \/ FilesRaise(o, updated)
Fails(o, updated) == "export_dir" \in updated /\ o.export_dir = ReadOnly

\* Slip: an `elif` where the code has an `if`.
ReachedElif(o, updated) ==
    IF updated \cap {"rule", "bypass"} # {} THEN {"rule", "bypass"}
    ELSE {"max_sessions", "catalogue_dir"}

\* The copies configure() gets to make: of several rules and a filter, the rules
\* are assigned before the filter is parsed.
Reached(o, updated) ==
    IF o.rule = BadRule /\ RulesRaise(o, updated) THEN {}
    ELSE IF RulesRaise(o, updated) THEN {"rule"}
    ELSE {"rule", "bypass"}
            \cup (IF FilesRaise(o, updated) THEN {} ELSE {"max_sessions"})
            \cup (IF FilesRaise(o, updated) \/ Fails(o, updated) THEN {} ELSE {"catalogue_dir"})

\* rule and bypass are configured together when one of them is updated.
Due(updated) ==
    updated \cup (IF updated \cap {"rule", "bypass"} # {} THEN {"rule", "bypass"} ELSE {})

\* The addon's copies `a` after configure(updated) with the options o.
Configured(a, o, updated) ==
    [n \in Copied |-> IF n \in Due(updated) \cap Reached(o, updated) THEN o[n] ELSE a[n]]

OptionsAfter(updated) ==
    LET Of(n) == IF n \in updated THEN Values[n] ELSE {options[n]}
    IN  [mode : Of("mode"), strategy : Of("strategy"), rule : Of("rule"),
         bypass : Of("bypass"), preset_file : Of("preset_file"),
         max_sessions : Of("max_sessions"), export_dir : Of("export_dir"),
         catalogue_dir : Of("catalogue_dir"), listeners : Of("listeners"),
         proxy : Of("proxy")]

\* One update of several options, from the UI or a script.
Update(updated) ==
    /\ phase = "serving" /\ updates < MaxUpdates
    /\ updates' = updates + 1
    /\ \E o \in OptionsAfter(updated) :
          IF Refuses(o, updated)
            THEN /\ applied' = Configured(Configured(applied, o, updated), options, updated)
                 /\ UNCHANGED <<options, touched, swallowed>>
            ELSE /\ applied' = Configured(applied, o, updated)
                 /\ options' = o
                 /\ touched' = touched \cup updated
                 /\ swallowed' = (swallowed \/ Fails(o, updated))
    /\ UNCHANGED <<fileVars, phase, override, supported, fixture, asked, readable>>

\* Somebody deletes a preset file, one in use perhaps.
FileGone ==
    /\ \E f \in readable : readable' = readable \ {f}
    /\ UNCHANGED <<fileVars, phase, override, supported, fixture, options, asked, applied,
                   swallowed, touched, updates>>

Next ==
    \/ \E mode \in Modes \cup {Unset} : Install(mode)
    \/ Uninstall \/ Load \/ Running \/ Stop \/ FileGone
    \/ \E updated \in Together : Update(updated)

Spec == Init /\ [][Next]_vars

-----------------------------------------------------------------------------
(* The upstream proxy of the sessions                                      *)

\* Slip: only the first listener is looked at.
UpstreamOfFirst ==
    IF options.listeners[1].upstream = Unset THEN Unset
    ELSE [host |-> options.listeners[1].upstream.host,
          scheme |-> First(options.listeners[1].upstream.scheme, "http")]

\* upstream_from_mode: the first listener that chains; a bare target gains a
\* scheme.
UpstreamFromMode ==
    LET chained == {i \in DOMAIN options.listeners : options.listeners[i].upstream # Unset}
        first   == CHOOSE i \in chained : \A j \in chained : i <= j
    IN  IF chained = {} THEN Unset
        ELSE [options.listeners[first].upstream EXCEPT !.scheme = First(@, "http")]

\* session_options: an explicit mitmcloak_proxy wins.
SessionProxy == First(options.proxy, UpstreamFromMode)

-----------------------------------------------------------------------------
(* Properties                                                              *)

\* However often the installer is run, and whatever is in between, it loads the
\* addon once and leaves the user's scripts and strategy alone ("writes three
\* lines of YAML", __main__.py:3), and an uninstall leaves his scripts and no
\* other, unless a write was cut short.  It is not said of the mode, which both
\* commands take for theirs, nor of the strategy that install adds.
OwnSettingsSurvive ==
    last # "crash" =>
        /\ WithoutPath(config.scripts) = own.scripts
        /\ Len(config.scripts) <= Len(own.scripts) + 1
        /\ last = "uninstall" => config.scripts = own.scripts
        /\ own.strategy # Unset => config.strategy = own.strategy

\* A proxy that serves does not leak a Python ClientHello by connecting early,
\* and mirrors with no httpcloak that was found unable to, wherever the settings
\* came from (bridge.py:148-151 and 176), until the user sets them anew.  An
\* httpcloak that could not be asked is trusted (bridge.py:186-188).
StartsSafely ==
    phase = "serving" =>
        /\ "strategy" \notin touched => options.strategy = "lazy"
        /\ "mode" \notin touched => options.mode = "static" \/ supported \/ ~fixture

\* "Constructor arguments win over option defaults, but not over --set"
\* (bridge.py:205): a mode the user set is the one served with, unless it is
\* the default, which mitmproxy cannot tell from one not set, or httpcloak was
\* asked and cannot mirror.
SetWinsOverConstructor ==
    phase = "serving" /\ asked \notin {Unset, "auto"} /\ "mode" \notin touched =>
        options.mode = IF supported \/ ~fixture THEN asked ELSE "static"

\* What the addon runs with is what the options say, after updates that were
\* refused half way and rolled back too, and even if the old values can no
\* longer be configured; unless mitmproxy forgot an exception.
AddonFollowsOptions ==
    phase = "serving" /\ ~swallowed => applied = [n \in Copied |-> options[n]]

\* A session that is built while the operator has mitmproxy chain through a
\* proxy is built with one, whichever listener names it and whatever its scheme
\* ("silently bypassed", options.py:117-118).  It says nothing of a session
\* pooled before the listeners or the proxy were changed, which keeps its own:
\* the proxy is not in the pool's key (bridge.py:495-501).
BuiltChained ==
    \A i \in DOMAIN options.listeners :
        options.listeners[i].upstream # Unset =>
            /\ SessionProxy # Unset
            /\ options.proxy = Unset => SessionProxy.scheme # Unset
            /\ (options.proxy = Unset /\ \A j \in DOMAIN options.listeners :
                    options.listeners[j].upstream \in {Unset, options.listeners[i].upstream})
                  => SessionProxy.host = options.listeners[i].upstream.host

=============================================================================
