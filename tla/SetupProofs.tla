------------------------------ MODULE SetupProofs ------------------------------
(***************************************************************************)
(* What is proved of how the proxy starts and is reconfigured, for every   *)
(* config.yaml, every command line, and every series of updates.           *)
(***************************************************************************)
EXTENDS Setup, ListProofs

NoneBad == options.rule # BadRule /\ options.bypass # BadFilter

\* What the options are before running(), and that refused values are never
\* among them: it is why the second configure() of a rollback gets as far as
\* the first did.
SetupInv ==
    /\ DOMAIN options = Names
    /\ NoneBad
    /\ phase = "loaded" => options.mode = First(asked, "auto")
    /\ ~swallowed => applied = [n \in Copied |-> options[n]]
    /\ StartsSafely
    /\ SetWinsOverConstructor

-----------------------------------------------------------------------------

LEMMA NamesAre ==
  /\ Names = {"mode", "strategy", "rule", "bypass", "preset_file", "max_sessions",
              "export_dir", "catalogue_dir", "listeners", "proxy"}
  /\ Copied \subseteq Names /\ DOMAIN Defaults = Names
  BY DEF Names, Values, Copied, Defaults

\* Only the options of the update change.
LEMMA OptionsAfterChange ==
  ASSUME NEW updated \in SUBSET Names, NEW o \in OptionsAfter(updated)
  PROVE  DOMAIN o = Names /\ \A n \in Names \ updated : o[n] = options[n]
<1>1. DOMAIN o = Names
  BY NamesAre DEF OptionsAfter
<1>2. /\ "mode" \notin updated => o.mode = options.mode
      /\ "strategy" \notin updated => o.strategy = options.strategy
      /\ "rule" \notin updated => o.rule = options.rule
      /\ "bypass" \notin updated => o.bypass = options.bypass
      /\ "preset_file" \notin updated => o.preset_file = options.preset_file
  BY DEF OptionsAfter
<1>3. /\ "max_sessions" \notin updated => o.max_sessions = options.max_sessions
      /\ "export_dir" \notin updated => o.export_dir = options.export_dir
      /\ "catalogue_dir" \notin updated => o.catalogue_dir = options.catalogue_dir
      /\ "listeners" \notin updated => o.listeners = options.listeners
      /\ "proxy" \notin updated => o.proxy = options.proxy
  BY DEF OptionsAfter
<1> QED BY <1>1, <1>2, <1>3, NamesAre

\* The copies that configure() gets to: all of them unless it raises, and no
\* more than the resolver's when it refuses.
LEMMA ReachedWhen ==
  ASSUME NEW o, NEW updated
  PROVE  /\ Reached(o, updated) \subseteq Copied
         /\ Refuses(o, updated) => Reached(o, updated) \subseteq {"rule", "bypass"}
         /\ ~RulesRaise(o, updated) => {"rule", "bypass"} \subseteq Reached(o, updated)
         /\ ~Refuses(o, updated) /\ ~Fails(o, updated) => Reached(o, updated) = Copied
  BY DEF Reached, Refuses, Copied

\* An update that is refused leaves the addon with the old values.
LEMMA RollbackRestores ==
  ASSUME NEW updated \in SUBSET Names, NEW o \in OptionsAfter(updated), Refuses(o, updated),
         NoneBad, applied = [n \in Copied |-> options[n]]
  PROVE  Configured(Configured(applied, o, updated), options, updated)
            = [n \in Copied |-> options[n]]
<1> DEFINE once == Configured(applied, o, updated)
           twice == Configured(once, options, updated)
<1>1. {"rule", "bypass"} \subseteq Reached(options, updated)
  BY ReachedWhen DEF RulesRaise, NoneBad
<1>2. Reached(o, updated) \subseteq {"rule", "bypass"}
  BY ReachedWhen
<1>3. ASSUME NEW n \in Copied PROVE twice[n] = options[n]
  <2>1. CASE n \in Due(updated) \cap Reached(options, updated)
    BY <2>1 DEF Configured
  <2>2. CASE n \notin Due(updated) \cap Reached(options, updated)
    <3>1. n \notin Due(updated) \cap Reached(o, updated)
      BY <1>1, <1>2, <2>2
    <3>2. once[n] = applied[n]
      BY <3>1 DEF Configured
    <3> QED BY <2>2, <3>2 DEF Configured
  <2> QED BY <2>1, <2>2
<1> QED BY <1>3 DEF Configured

\* An update that goes through leaves the addon with the new values.
LEMMA UpdateApplies ==
  ASSUME NEW updated \in SUBSET Names, NEW o \in OptionsAfter(updated),
         ~Refuses(o, updated), ~Fails(o, updated),
         applied = [n \in Copied |-> options[n]]
  PROVE  Configured(applied, o, updated) = [n \in Copied |-> o[n]]
<1>1. Reached(o, updated) = Copied
  BY ReachedWhen
<1>2. ASSUME NEW n \in Copied PROVE Configured(applied, o, updated)[n] = o[n]
  <2>1. CASE n \in Due(updated)
    BY <1>1, <2>1 DEF Configured
  <2>2. CASE n \notin Due(updated)
    <3>1. o[n] = options[n]
      BY <2>2, NamesAre, OptionsAfterChange DEF Due
    <3> QED BY <2>2, <3>1 DEF Configured
  <2> QED BY <2>1, <2>2
<1> QED BY <1>2 DEF Configured

-----------------------------------------------------------------------------

LEMMA SetupInvInit == Init => SetupInv
  BY NamesAre, SetupConstants
  DEF Init, SetupInv, NoneBad, Defaults, Copied, StartsSafely, SetWinsOverConstructor

LEMMA UpdateKeepsInv ==
  ASSUME SetupInv, NEW updated \in Together, Update(updated) PROVE SetupInv'
<1>1. updated \in SUBSET Names
  BY SetupTogether
<1>2. PICK o \in OptionsAfter(updated) :
        IF Refuses(o, updated)
          THEN /\ applied' = Configured(Configured(applied, o, updated), options, updated)
               /\ UNCHANGED <<options, touched, swallowed>>
          ELSE /\ applied' = Configured(applied, o, updated)
               /\ options' = o
               /\ touched' = touched \cup updated
               /\ swallowed' = (swallowed \/ Fails(o, updated))
  BY DEF Update
<1>3. UNCHANGED <<phase, supported, fixture, asked>> /\ phase = "serving"
  BY DEF Update
<1>4. CASE Refuses(o, updated)
  <2>1. ~swallowed' => applied' = [n \in Copied |-> options'[n]]
    BY <1>1, <1>2, <1>4, RollbackRestores DEF SetupInv
  <2> QED
    BY <1>2, <1>3, <1>4, <2>1
    DEF SetupInv, NoneBad, StartsSafely, SetWinsOverConstructor
<1>5. CASE ~Refuses(o, updated)
  <2>1. DOMAIN o = Names /\ \A n \in Names \ updated : o[n] = options[n]
    BY <1>1, OptionsAfterChange
  <2>2. ~swallowed' => applied' = [n \in Copied |-> options'[n]]
    <3> SUFFICES ASSUME ~swallowed' PROVE applied' = [n \in Copied |-> options'[n]]
      OBVIOUS
    <3>1. swallowed' = (swallowed \/ Fails(o, updated))
      BY <1>2, <1>5
    <3>2. ~swallowed /\ ~Fails(o, updated)
      BY <3>1, Zenon
    <3> QED BY <1>1, <1>2, <1>5, <3>2, UpdateApplies DEF SetupInv
  <2>3. NoneBad'
    BY <1>2, <1>5, <2>1, NamesAre DEF SetupInv, NoneBad, Refuses, RulesRaise
  <2>4. StartsSafely' /\ SetWinsOverConstructor'
    BY <1>2, <1>3, <1>5, <2>1, NamesAre DEF SetupInv, StartsSafely, SetWinsOverConstructor
  <2> QED BY <1>2, <1>3, <1>5, <2>1, <2>2, <2>3, <2>4 DEF SetupInv
<1> QED BY <1>4, <1>5

LEMMA SetupInvStep == SetupInv /\ [Next]_vars => SetupInv'
<1> SUFFICES ASSUME SetupInv, [Next]_vars PROVE SetupInv'
  OBVIOUS
<1>1. CASE UNCHANGED runVars
  BY <1>1 DEF runVars, SetupInv, NoneBad, StartsSafely, SetWinsOverConstructor
<1>2. CASE Load
  <2>1. PICK mode \in Modes \cup {Unset}, strategy \in Strategies \cup {Unset} :
          /\ asked' = First(mode, config.mode)
          /\ options' = [options EXCEPT
                !.mode = First(asked', "auto"),
                !.strategy = First(First(strategy, config.strategy), "eager")]
    BY <1>2 DEF Load
  <2>2. phase' = "loaded" /\ UNCHANGED <<applied, swallowed>>
    BY <1>2 DEF Load
  <2>3. /\ DOMAIN options' = Names /\ options'.mode = First(asked', "auto")
        /\ \A n \in Copied : options'[n] = options[n]
    BY <2>1, NamesAre DEF SetupInv, Copied
  <2>4. options'.rule = options.rule /\ options'.bypass = options.bypass
    BY <2>3 DEF Copied
  <2> QED
    BY <2>2, <2>3, <2>4 DEF SetupInv, NoneBad, StartsSafely, SetWinsOverConstructor
<1>3. CASE Running
  <2>1. /\ phase = "loaded" /\ phase' = "serving"
        /\ options' = [options EXCEPT !.strategy = "lazy", !.mode = ModeWhenRunning]
        /\ UNCHANGED <<supported, fixture, asked, applied, swallowed, touched>>
    BY <1>3 DEF Running
  <2>2. /\ DOMAIN options' = Names /\ options'.mode = ModeWhenRunning
        /\ options'.strategy = "lazy"
        /\ \A n \in Copied : options'[n] = options[n]
    BY <2>1, NamesAre DEF SetupInv, Copied
  <2>3. options'.rule = options.rule /\ options'.bypass = options.bypass
    BY <2>2 DEF Copied
  <2>4. ModeWhenRunning = "static" \/ supported \/ ~fixture
    BY DEF ModeWhenRunning
  <2>5. asked \notin {Unset, "auto"} =>
           ModeWhenRunning = IF supported \/ ~fixture THEN asked ELSE "static"
    BY <2>1 DEF SetupInv, ModeWhenRunning, Overridden, First
  <2> QED
    BY <2>1, <2>2, <2>3, <2>4, <2>5
    DEF SetupInv, NoneBad, StartsSafely, SetWinsOverConstructor
<1>4. CASE Stop
  BY <1>4, NamesAre, SetupConstants
  DEF Stop, SetupInv, NoneBad, Defaults, Copied, StartsSafely, SetWinsOverConstructor
<1>5. CASE FileGone
  BY <1>5
  DEF FileGone, fileVars, SetupInv, NoneBad, StartsSafely, SetWinsOverConstructor
<1>6. CASE (\E mode \in Modes \cup {Unset} : Install(mode)) \/ Uninstall
  BY <1>1, <1>6 DEF Install, Uninstall
<1> QED
  BY <1>1, <1>2, <1>3, <1>4, <1>5, <1>6, UpdateKeepsInv DEF Next, vars

\* The inductive invariant holds in every reachable state.
THEOREM SetupInvariant == Spec => []SetupInv
  BY SetupInvInit, SetupInvStep, PTL DEF Spec

\* A serving proxy connects lazily and mirrors with no httpcloak that was asked
\* and cannot, until the user sets the strategy or the mode anew.
THEOREM ServesSafely == Spec => []StartsSafely
<1>1. SetupInv => StartsSafely
  BY DEF SetupInv
<1> QED BY <1>1, SetupInvariant, PTL

\* A mode, other than the default, set by --set or in config.yaml wins over the
\* constructor's, and is served with unless httpcloak was asked and cannot mirror.
THEOREM SetWins == Spec => []SetWinsOverConstructor
<1>1. SetupInv => SetWinsOverConstructor
  BY DEF SetupInv
<1> QED BY <1>1, SetupInvariant, PTL

\* The addon's copies are what the options say after every update, refused half
\* way or not, as long as mitmproxy swallowed no exception.
THEOREM AddonFollows == Spec => []AddonFollowsOptions
<1>1. SetupInv => AddonFollowsOptions
  BY DEF SetupInv, AddonFollowsOptions
<1> QED BY <1>1, SetupInvariant, PTL

-----------------------------------------------------------------------------
(* config.yaml                                                             *)

Config(c) == c = [scripts |-> c.scripts, mode |-> c.mode, strategy |-> c.strategy]

\* Unless a write was cut short, the file differs from the user's by the addon's
\* path, once and last, by the mode, and by a strategy where there was none.
FileInv ==
    /\ own \in OwnConfigs
    /\ config # Unreadable =>
          Config(config) /\ config.mode \in Modes \cup {Unset}
            /\ config.strategy \in Strategies \cup {Unset}
    /\ last # "crash" =>
          /\ Config(config)
          /\ config.scripts \in {own.scripts, Append(own.scripts, Path)}
          /\ config.strategy \in {own.strategy, First(own.strategy, "lazy")}
    /\ last = "uninstall" => config.scripts = own.scripts /\ config.mode = Unset
    /\ last \in {"none", "install", "uninstall", "crash"}

\* A list without the path has the path taken out of it: nothing of it goes.
LEMMA PathGoesAlone ==
  ASSUME NEW s, s \in Seq(Range(s)), Path \notin Range(s)
  PROVE  /\ WithoutPath(s) = s
         /\ WithoutPath(Append(s, Path)) = s
         /\ Path \in Range(Append(s, Path))
         /\ Len(Append(s, Path)) = Len(s) + 1
<1> DEFINE T == Range(s)
<1>1. PICK N \in Nat : N = Len(s)
  BY LenProperties
<1>2. \A i \in 1 .. N : s[i] \in T
  BY <1>1
<1>3. WithoutPath(s) = s
  <2>1. \A i \in 1 .. N : s[i] \in {s[j] : j \in DOMAIN s} \ {Path}
    BY <1>1, <1>2
  <2> QED BY <1>1, <2>1, OnlyAll DEF WithoutPath, Without
<1>4. PICK t : t = Append(s, Path)
  OBVIOUS
<1>5. t[N + 1] = Path /\ Len(t) = N + 1 /\ DOMAIN t = 1 .. N + 1 /\ \A i \in 1 .. N : t[i] = s[i]
  BY <1>1, <1>4
<1>6. WithoutPath(t) = s
  <2> DEFINE S == {t[j] : j \in DOMAIN t} \ {Path}
  <2>1. s \in Seq(T \cup {Path})
    BY SeqMonotonic
  <2>2. Only(t, S) = Only(s, S)
    <3>1. Path \notin S /\ Path \in T \cup {Path}
      OBVIOUS
    <3> HIDE DEF S, T
    <3> QED BY <1>4, <2>1, <3>1, OnlyAppend
  <2>3. \A i \in 1 .. N : s[i] \in S
    BY <1>2, <1>5
  <2>4. Only(s, S) = s
    <3> HIDE DEF S
    <3> QED BY <1>1, <2>3, OnlyAll
  <2> QED BY <2>2, <2>4 DEF WithoutPath, Without
<1>7. Path \in Range(t)
  BY <1>5 DEF Range
<1> QED BY <1>1, <1>3, <1>4, <1>5, <1>6, <1>7

LEMMA FileInvInit == Init => FileInv
  BY SetupConstants DEF Init, FileInv, Config

LEMMA InstallKeepsFile ==
  ASSUME FileInv, NEW mode \in Modes \cup {Unset}, Install(mode) PROVE FileInv'
<1> DEFINE data == [scripts |-> WithPath(config.scripts),
                    mode |-> First(mode, config.mode),
                    strategy |-> First(config.strategy, "lazy")]
<1>1. config # Unreadable /\ Save(data, "install") /\ UNCHANGED own
  BY DEF Install
<1>2. Config(data) /\ data.mode \in Modes \cup {Unset} /\ data.strategy \in Strategies \cup {Unset}
  BY <1>1, SetupConstants DEF FileInv, Config, First
<1>3. last # "crash" =>
         /\ data.scripts \in {own.scripts, Append(own.scripts, Path)}
         /\ data.strategy \in {own.strategy, First(own.strategy, "lazy")}
  <2> SUFFICES ASSUME last # "crash"
               PROVE  /\ data.scripts \in {own.scripts, Append(own.scripts, Path)}
                      /\ data.strategy \in {own.strategy, First(own.strategy, "lazy")}
    OBVIOUS
  <2>1. config.scripts \in {own.scripts, Append(own.scripts, Path)}
    BY DEF FileInv
  <2>2. own.scripts \in Seq(Range(own.scripts)) /\ Path \notin Range(own.scripts)
    BY SetupConstants DEF FileInv
  <2>3. WithPath(config.scripts) = Append(own.scripts, Path)
    BY <2>1, <2>2, PathGoesAlone DEF WithPath
  <2>4. First(config.strategy, "lazy") \in {own.strategy, First(own.strategy, "lazy")}
    BY SetupConstants DEF FileInv, First
  <2> QED BY <2>3, <2>4
<1> HIDE DEF data
<1>4. CASE config' = data /\ last' = IF last = "crash" THEN last ELSE "install"
  BY <1>1, <1>2, <1>3, <1>4 DEF FileInv
<1>5. CASE config' \in {Empty, Unreadable} /\ last' = "crash"
  BY <1>1, <1>5 DEF FileInv, Empty, Config
<1> QED BY <1>1, <1>4, <1>5 DEF Save

LEMMA UninstallKeepsFile == ASSUME FileInv, Uninstall PROVE FileInv'
<1> DEFINE data == [config EXCEPT !.scripts = WithoutPath(@), !.mode = Unset]
<1>1. config # Unreadable /\ Save(data, "uninstall") /\ UNCHANGED own
  BY DEF Uninstall
<1>2. /\ Config(data) /\ data.mode = Unset /\ data.strategy = config.strategy
      /\ data.scripts = WithoutPath(config.scripts)
  <2>1. Config(config)
    BY <1>1 DEF FileInv
  <2>2. DOMAIN config = {"scripts", "mode", "strategy"}
    BY <2>1 DEF Config
  <2>3. PICK kept : kept = WithoutPath(config.scripts)
    OBVIOUS
  <2>4. PICK scripts, mode, strategy :
           config = [scripts |-> scripts, mode |-> mode, strategy |-> strategy]
    BY <2>1, Zenon DEF Config
  <2>5. data = [config EXCEPT !.scripts = kept, !.mode = Unset]
    BY <2>3
  <2>6. data = [scripts |-> kept, mode |-> Unset, strategy |-> strategy]
    <3> HIDE DEF data
    <3> QED BY <2>4, <2>5
  <2> HIDE DEF data
  <2> QED BY <2>3, <2>4, <2>6 DEF Config
<1>3. last # "crash" => data.scripts = own.scripts
  <2>1. own.scripts \in Seq(Range(own.scripts)) /\ Path \notin Range(own.scripts)
    BY SetupConstants DEF FileInv
  <2>2. last # "crash" => config.scripts \in {own.scripts, Append(own.scripts, Path)}
    BY DEF FileInv
  <2> QED BY <1>2, <2>1, <2>2, PathGoesAlone
<1> HIDE DEF data
<1>4. CASE config' = data /\ last' = IF last = "crash" THEN last ELSE "uninstall"
  BY <1>1, <1>2, <1>3, <1>4 DEF FileInv
<1>5. CASE config' \in {Empty, Unreadable} /\ last' = "crash"
  BY <1>1, <1>5 DEF FileInv, Empty, Config
<1> QED BY <1>1, <1>4, <1>5 DEF Save

\* What config.yaml may hold, through installs, uninstalls and writes cut short.
THEOREM FileInvariant == Spec => []FileInv
<1>1. FileInv /\ [Next]_vars => FileInv'
  <2> SUFFICES ASSUME FileInv, [Next]_vars PROVE FileInv'
    OBVIOUS
  <2>1. CASE UNCHANGED fileVars
    BY <2>1 DEF fileVars, FileInv, Config
  <2>2. CASE \E mode \in Modes \cup {Unset} : Install(mode)
    BY <2>2, InstallKeepsFile
  <2>3. CASE Uninstall
    BY <2>3, UninstallKeepsFile
  <2>4. Load \/ Running \/ Stop \/ FileGone => UNCHANGED fileVars
    BY DEF Load, Running, Stop, FileGone
  <2>5. (\E updated \in Together : Update(updated)) => UNCHANGED fileVars
    BY DEF Update
  <2>6. UNCHANGED vars => UNCHANGED fileVars
    BY DEF vars
  <2> QED BY <2>1, <2>2, <2>3, <2>4, <2>5, <2>6 DEF Next
<1> QED BY <1>1, FileInvInit, PTL DEF Spec

\* However often the installer runs, it adds its path once to the user's scripts,
\* takes no other away, and leaves his strategy alone.  Of the mode it says nothing.
THEOREM OwnSettingsKept == Spec => []OwnSettingsSurvive
<1>1. FileInv => OwnSettingsSurvive
  <2> SUFFICES ASSUME FileInv, last # "crash" PROVE OwnSettingsSurvive
    BY DEF OwnSettingsSurvive
  <2>1. own.scripts \in Seq(Range(own.scripts)) /\ Path \notin Range(own.scripts)
    BY SetupConstants DEF FileInv
  <2>2. WithoutPath(config.scripts) = own.scripts
    BY <2>1, PathGoesAlone DEF FileInv
  <2>3. Len(config.scripts) <= Len(own.scripts) + 1
    <3>1. Len(own.scripts) \in Nat
      BY <2>1, LenProperties
    <3> QED BY <2>1, <3>1, PathGoesAlone DEF FileInv
  <2>4. own.strategy # Unset => config.strategy = own.strategy
    BY DEF FileInv, First
  <2>5. last = "uninstall" => config.scripts = own.scripts
    BY DEF FileInv
  <2> QED BY <2>2, <2>3, <2>4, <2>5 DEF OwnSettingsSurvive
<1> QED BY <1>1, FileInvariant, PTL

-----------------------------------------------------------------------------
(* The upstream proxy                                                      *)

\* The options keep to their values.
OptionsTyped == DOMAIN options = Names /\ \A n \in Names : options[n] \in Values[n]

\* What an update stores are values of the options.
LEMMA OptionsAfterTyped ==
  ASSUME NEW updated \in SUBSET Names, NEW o \in OptionsAfter(updated), OptionsTyped
  PROVE  DOMAIN o = Names /\ \A n \in Names : o[n] \in Values[n]
<1>1. DOMAIN o = Names /\ \A n \in Names \ updated : o[n] = options[n]
  BY OptionsAfterChange
<1>2. /\ "mode" \in updated => o.mode \in Values["mode"]
      /\ "strategy" \in updated => o.strategy \in Values["strategy"]
      /\ "rule" \in updated => o.rule \in Values["rule"]
      /\ "bypass" \in updated => o.bypass \in Values["bypass"]
      /\ "preset_file" \in updated => o.preset_file \in Values["preset_file"]
  BY DEF OptionsAfter
<1>3. /\ "max_sessions" \in updated => o.max_sessions \in Values["max_sessions"]
      /\ "export_dir" \in updated => o.export_dir \in Values["export_dir"]
      /\ "catalogue_dir" \in updated => o.catalogue_dir \in Values["catalogue_dir"]
      /\ "listeners" \in updated => o.listeners \in Values["listeners"]
      /\ "proxy" \in updated => o.proxy \in Values["proxy"]
  BY DEF OptionsAfter
<1>4. \A n \in updated : o[n] \in Values[n]
  BY <1>2, <1>3, NamesAre
<1> QED BY <1>1, <1>4 DEF OptionsTyped

ModesTyped == FileInv /\ OptionsTyped /\ asked \in Modes \cup {Unset}
                /\ override \in Modes \cup {Unset}

\* The options have values of theirs, whoever sets them.
THEOREM OptionsTypedAlways == Spec => []ModesTyped
<1>1. Init => ModesTyped
  BY FileInvInit, SetupListeners, NamesAre DEF Init, ModesTyped, OptionsTyped
<1>2. ModesTyped /\ FileInv' /\ [Next]_vars => ModesTyped'
  <2> SUFFICES ASSUME ModesTyped, FileInv', [Next]_vars PROVE ModesTyped'
    OBVIOUS
  <2>1. CASE UNCHANGED <<options, asked, override>>
    BY <2>1 DEF ModesTyped, OptionsTyped
  <2>2. CASE Load
    <3>1. PICK mode \in Modes \cup {Unset}, strategy \in Strategies \cup {Unset},
               o \in Overrides :
            /\ override' = o
            /\ asked' = First(mode, config.mode)
            /\ options' = [options EXCEPT
                  !.mode = First(asked', "auto"),
                  !.strategy = First(First(strategy, config.strategy), "eager")]
      BY <2>2 DEF Load
    <3>2. /\ config.mode \in Modes \cup {Unset} /\ config.strategy \in Strategies \cup {Unset}
      BY <2>2 DEF Load, ModesTyped, FileInv
    <3>3. /\ asked' \in Modes \cup {Unset} /\ First(asked', "auto") \in Modes
          /\ First(First(strategy, config.strategy), "eager") \in Strategies
      BY <3>1, <3>2, SetupConstants DEF First
    <3>4. Values["mode"] = Modes /\ Values["strategy"] = Strategies
      BY DEF Values
    <3>5. OptionsTyped'
      BY <3>1, <3>3, <3>4 DEF ModesTyped, OptionsTyped
    <3> QED BY <3>1, <3>3, <3>5, SetupConstants DEF ModesTyped
  <2>3. CASE Running
    <3>1. ModeWhenRunning \in Modes
      <4>1. options.mode \in Modes
        BY NamesAre DEF ModesTyped, OptionsTyped, Values
      <4> QED BY <4>1, SetupConstants DEF ModesTyped, ModeWhenRunning, Overridden
    <3>2. "lazy" \in Strategies
      BY SetupConstants
    <3>3. Values["mode"] = Modes /\ Values["strategy"] = Strategies
      BY DEF Values
    <3>4. options' = [options EXCEPT !.strategy = "lazy", !.mode = ModeWhenRunning]
      BY <2>3 DEF Running
    <3>5. OptionsTyped'
      BY <3>1, <3>2, <3>3, <3>4 DEF ModesTyped, OptionsTyped
    <3> QED BY <2>3, <3>5 DEF Running, ModesTyped
  <2>4. CASE Stop
    BY <2>4, SetupListeners, NamesAre DEF Stop, ModesTyped, OptionsTyped
  <2>5. ASSUME NEW updated \in Together, Update(updated) PROVE ModesTyped'
    <3>1. updated \in SUBSET Names
      BY SetupTogether
    <3>2. PICK o \in OptionsAfter(updated) : options' = options \/ options' = o
      BY <2>5 DEF Update
    <3>3. OptionsTyped'
      BY <3>1, <3>2, OptionsAfterTyped DEF ModesTyped, OptionsTyped
    <3> QED BY <2>5, <3>3 DEF Update, ModesTyped
  <2>6. CASE (\E mode \in Modes \cup {Unset} : Install(mode)) \/ Uninstall
    BY <2>1, <2>6 DEF Install, Uninstall, runVars
  <2> QED
    BY <2>1, <2>2, <2>3, <2>4, <2>5, <2>6 DEF Next, vars, runVars, FileGone
<1> QED BY <1>1, <1>2, FileInvariant, PTL DEF Spec

\* The first listener that chains, and what session_options makes of it.
LEMMA FirstChained ==
  ASSUME OptionsTyped, NEW i \in DOMAIN options.listeners,
         options.listeners[i].upstream # Unset
  PROVE  \E j \in DOMAIN options.listeners :
            LET chain == options.listeners[j].upstream
            IN  /\ chain # Unset
                /\ UpstreamFromMode = [chain EXCEPT !.scheme = First(@, "http")]
                /\ UpstreamFromMode # Unset
                /\ UpstreamFromMode.scheme # Unset
                /\ UpstreamFromMode.host = chain.host
<1> DEFINE l == options.listeners
           chained == {k \in DOMAIN l : l[k].upstream # Unset}
           first == CHOOSE k \in chained : \A j \in chained : k <= j
<1>1. l \in Listeners /\ l \in Seq(Range(l))
  BY NamesAre, SetupListeners DEF OptionsTyped, Values
<1>2. chained \subseteq Nat /\ chained # {}
  BY <1>1, LenProperties
<1>3. first \in chained
  <2> HIDE DEF chained
  <2>1. \E k \in chained : \A j \in chained : k <= j
    BY <1>2, LeastExists
  <2> QED BY <2>1
<1>4. UpstreamFromMode = [l[first].upstream EXCEPT !.scheme = First(@, "http")]
  BY <1>2 DEF UpstreamFromMode
<1> HIDE DEF first
<1>5. PICK chain : chain = l[first].upstream
  OBVIOUS
<1>6. chain \in Chains /\ chain # Unset
  BY <1>1, <1>3, <1>5 DEF Chains
<1>7. /\ chain = [host |-> chain.host, scheme |-> chain.scheme]
      /\ Unset \notin [host : {chain.host}, scheme : {chain.scheme, "http"}]
      /\ Unset # "http"
  BY <1>6, SetupListeners
<1>8. PICK scheme : scheme = First(chain.scheme, "http")
  OBVIOUS
<1>9. scheme \in {chain.scheme, "http"} /\ scheme # Unset
  BY <1>7, <1>8 DEF First
<1>10. UpstreamFromMode = [host |-> chain.host, scheme |-> scheme]
  BY <1>4, <1>5, <1>7, <1>8
<1>11. UpstreamFromMode # Unset
  BY <1>7, <1>9, <1>10
<1> QED BY <1>3, <1>4, <1>5, <1>6, <1>9, <1>10, <1>11

\* While any listener chains, a session that is built has a proxy, the one the
\* user named or a listener's with its scheme: that listener's if all chain to
\* one.  Sessions that were built earlier are not spoken of.
THEOREM ChainedWhenBuilt == Spec => []BuiltChained
<1>1. ModesTyped => BuiltChained
  <2> SUFFICES ASSUME OptionsTyped, NEW i \in DOMAIN options.listeners,
                      options.listeners[i].upstream # Unset
               PROVE  /\ SessionProxy # Unset
                      /\ options.proxy = Unset => SessionProxy.scheme # Unset
                      /\ (options.proxy = Unset /\ \A j \in DOMAIN options.listeners :
                             options.listeners[j].upstream
                                \in {Unset, options.listeners[i].upstream})
                           => SessionProxy.host = options.listeners[i].upstream.host
    BY DEF BuiltChained, ModesTyped
  <2>1. PICK j \in DOMAIN options.listeners :
           /\ options.listeners[j].upstream # Unset
           /\ UpstreamFromMode # Unset
           /\ UpstreamFromMode.scheme # Unset
           /\ UpstreamFromMode.host = options.listeners[j].upstream.host
    BY FirstChained
  <2>2. SessionProxy = IF options.proxy # Unset THEN options.proxy ELSE UpstreamFromMode
    BY DEF SessionProxy, First
  <2> QED BY <2>1, <2>2
<1> QED BY <1>1, OptionsTypedAlways, PTL

=============================================================================
