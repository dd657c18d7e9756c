------------------------------ MODULE BridgeProofs ------------------------------
(***************************************************************************)
(* What is proved of the hooks composed with the pool and the registry,    *)
(* for every number of connections, requests, sessions and options, and    *)
(* whatever comes between a request and its answer.  What the components   *)
(* keep is taken from their own proofs.                                    *)
(***************************************************************************)
EXTENDS Bridge, FiniteSetTheorems, TLAPS

PoolProofs == INSTANCE SessionPoolProofs
    WITH Keys <- PoolKeys, SuppliedFor <- SuppliedForKey, served <- {}, replaced <- {}
RegistryProofs == INSTANCE MirrorRegistryProofs
CatProofs == INSTANCE CatalogueProofs WITH Ids <- Mirror!Ids, runs <- 1, MaxRuns <- 1

-----------------------------------------------------------------------------
(* The components' steps, as their own proofs see them                     *)

LEMMA PoolConstantsHold == PoolProofs!PoolConstants
<1>1. Pool!PoolConstants
  BY BridgeComponents
<1> QED
  BY <1>1 DEF PoolProofs!PoolConstants, Pool!PoolConstants, PoolProofs!IsFiniteSet, Pool!IsFiniteSet

LEMMA SamePoolSteps == [Pool!Next]_(Pool!vars) => [PoolProofs!Next]_(PoolProofs!vars)
BY Zenon
DEF Pool!Next, Pool!vars, Pool!stats, Pool!GetHit, Pool!AdoptSame, Pool!AdoptOther, Pool!Sweep,
    Pool!Close, Pool!SetMaxSessions, Pool!Collect, Pool!Pooled, Pool!GetMiss,
    Pool!InsertAndTrim, Pool!Drop, Pool!IsOldest, Pool!ClosedBy, Pool!BuiltKeys, Pool!Held,
    Pool!Excess, Pool!MoveToEnd, Pool!Sessions, Pool!Cardinality,
    PoolProofs!Next, PoolProofs!vars, PoolProofs!stats, PoolProofs!GetHit,
    PoolProofs!AdoptSame, PoolProofs!AdoptOther, PoolProofs!Sweep, PoolProofs!Close,
    PoolProofs!SetMaxSessions, PoolProofs!Collect, PoolProofs!Pooled, PoolProofs!GetMiss,
    PoolProofs!InsertAndTrim, PoolProofs!Drop, PoolProofs!IsOldest, PoolProofs!ClosedBy,
    PoolProofs!BuiltKeys, PoolProofs!Held, PoolProofs!Excess, PoolProofs!MoveToEnd,
    PoolProofs!Sessions, PoolProofs!Cardinality

\* The pool's own invariant, kept by the bridge because every step of the bridge
\* is a step of the pool or leaves it alone.
PoolSound == PoolProofs!LeakInv

LEMMA PoolStepsKeepSound ==
  ASSUME PoolSound, [Pool!Next]_(Pool!vars)
  PROVE  PoolSound'
BY PoolConstantsHold, SamePoolSteps, PoolProofs!LeakStep DEF PoolSound

LEMMA PoolInitSound == Pool!Init => PoolSound
<1>1. Pool!Init => PoolProofs!Init
  BY DEF Pool!Init, PoolProofs!Init, Pool!Sessions, PoolProofs!Sessions
<1> QED BY <1>1, PoolConstantsHold, PoolProofs!LeakInit DEF PoolSound

\* What it says: a session built here is under one key while it is open.
LEMMA PoolFacts ==
  ASSUME PoolSound
  PROVE  /\ pool \in [PoolKeys -> Owned \cup Supplied \cup {NoSession}]
         /\ DOMAIN life = Owned \cup Supplied
         /\ \A k \in PoolKeys : pool[k] \in Owned => life[pool[k]] = "open"
         /\ \A j, k \in PoolKeys : pool[j] \in Owned /\ pool[j] = pool[k] => j = k
         /\ \A k \in Pool!BuiltKeys \cap Pool!Held : pool[k] \in Owned
         /\ NoSession \notin Owned \cup Supplied /\ Owned \cap Supplied = {}
<1>1. PoolProofs!PoolConstants
  BY PoolConstantsHold
<1>2. /\ pool \in [PoolKeys -> Owned \cup Supplied \cup {NoSession}]
      /\ DOMAIN life = Owned \cup Supplied
  BY DEF PoolSound, PoolProofs!LeakInv, PoolProofs!TypeOK, PoolProofs!Sessions
<1>3. /\ NoSession \notin Owned \cup Supplied /\ Owned \cap Supplied = {}
  BY <1>1 DEF PoolProofs!PoolConstants
<1>4. \A k \in PoolKeys : pool[k] \in Owned => k \in PoolProofs!Held
  BY <1>3 DEF PoolProofs!Held
<1>5. \A k \in PoolKeys : pool[k] \in Owned => life[pool[k]] = "open"
  BY <1>4 DEF PoolSound, PoolProofs!LeakInv, PoolProofs!NoSessionLeaked, PoolProofs!Pooled
<1>6. \A j, k \in PoolKeys : pool[j] \in Owned /\ pool[j] = pool[k] => j = k
  BY <1>4 DEF PoolSound, PoolProofs!LeakInv, PoolProofs!NoSessionLeaked
<1>7. \A k \in Pool!BuiltKeys \cap Pool!Held : pool[k] \in Owned
  BY <1>2
  DEF PoolSound, PoolProofs!LeakInv, PoolProofs!KeyInv, PoolProofs!Held, Pool!BuiltKeys, Pool!Held
<1> QED BY <1>2, <1>3, <1>5, <1>6, <1>7

-----------------------------------------------------------------------------
(* What the operations of the pool do to the sessions of the bridge        *)

\* Nothing new comes under a key, and no session is unborn again.
OnlyLost ==
    /\ \A k \in PoolKeys : pool'[k] \in {pool[k], NoSession} \cup Supplied
    /\ \A s \in Owned : life[s] # "unborn" => life'[s] # "unborn"

\* The same, but for a session put under k.
OnlyGained(k, s) ==
    /\ \A j \in PoolKeys : pool'[j] \in {pool[j], NoSession} \/ (j = k /\ pool'[j] = s)
    /\ \A t \in Owned : life[t] # "unborn" \/ t = s => life'[t] # "unborn"

LEMMA InsertGains ==
  ASSUME PoolSound, NEW k \in PoolKeys, NEW s, NEW ext, NEW lf,
         Pool!InsertAndTrim(k, s, ext, lf)
  PROVE  /\ \A j \in PoolKeys : pool'[j] \in {pool[j], NoSession} \/ (j = k /\ pool'[j] = s)
         /\ \A t \in Owned : life'[t] \in {"closed", lf[t]}
<1>1. PICK K : \E p : p = [pool EXCEPT ![k] = s] /\ \E order : Pool!Drop(K, p, order, ext, lf)
  BY DEF Pool!InsertAndTrim
<1>2. PICK order : Pool!Drop(K, [pool EXCEPT ![k] = s], order, ext, lf)
  BY <1>1
<1> QED BY <1>2, PoolFacts DEF Pool!Drop, Pool!Sessions

LEMMA MissGains ==
  ASSUME PoolSound, NEW k \in PoolKeys, NEW s \in Owned, Pool!GetMiss(k, s)
  PROVE  OnlyGained(k, s) /\ life[s] = "unborn"
<1>1. PICK lf : lf = [life EXCEPT ![s] = "open"] /\ Pool!InsertAndTrim(k, s, external, lf)
  BY DEF Pool!GetMiss
<1>2. \A t \in Owned : lf[t] = IF t = s THEN "open" ELSE life[t]
  BY <1>1, PoolFacts
<1>3. /\ \A j \in PoolKeys : pool'[j] \in {pool[j], NoSession} \/ (j = k /\ pool'[j] = s)
      /\ \A t \in Owned : life'[t] \in {"closed", lf[t]}
  BY <1>1, InsertGains
<1> QED BY <1>2, <1>3 DEF OnlyGained, Pool!GetMiss

LEMMA AdoptLoses ==
  ASSUME PoolSound, NEW k \in PoolKeys, NEW s \in Supplied,
         Pool!AdoptSame(k, s) \/ Pool!AdoptOther(k, s)
  PROVE  OnlyLost
<1>1. CASE Pool!AdoptSame(k, s)
  BY <1>1 DEF Pool!AdoptSame, OnlyLost
<1>2. CASE Pool!AdoptOther(k, s)
  <2>1. Pool!InsertAndTrim(k, s, external \cup {s}, life)
    BY <1>2 DEF Pool!AdoptOther
  <2> QED BY <2>1, InsertGains DEF OnlyLost
<1> QED BY <1>1, <1>2

LEMMA HitLoses == ASSUME NEW k, Pool!GetHit(k) PROVE OnlyLost
  BY DEF Pool!GetHit, OnlyLost

LEMMA SweepLoses == ASSUME PoolSound, NEW idle, Pool!Sweep(idle) PROVE OnlyLost
  BY PoolFacts DEF Pool!Sweep, Pool!Drop, Pool!Sessions, OnlyLost

LEMMA CloseLoses == ASSUME PoolSound, Pool!Close PROVE OnlyLost
  BY PoolFacts DEF Pool!Close, Pool!Sessions, OnlyLost

-----------------------------------------------------------------------------
(* The options, and the parts of a request                                 *)

\* Every option has a value it may be given; running() may turn the mode to static.
OptionsOK ==
    /\ DOMAIN options = OptionNames
    /\ \A n \in OptionNames \ {"mode"} : options[n] \in Values[n]

LEMMA OptionsStep == OptionsOK /\ [Next]_vars => OptionsOK'
<1> SUFFICES ASSUME OptionsOK, [Next]_vars PROVE OptionsOK'
  OBVIOUS
<1> USE DEF configVars
<1>1. CASE UNCHANGED options
  BY <1>1 DEF OptionsOK
<1>2. CASE Running
  BY <1>2 DEF Running, OptionsChecked, OptionsOK, OptionNames
<1>3. ASSUME NEW n \in OptionNames, SetOption(n) PROVE OptionsOK'
  BY <1>3 DEF SetOption, OptionsOK
<1> QED
  BY <1>1, <1>2, <1>3
  DEF Next, vars, Configure, SweepLoop, Done, TlsClientHello, NextLayer, TlsFailedClient,
      ClientDisconnected, Passthrough, TargetsSelf, Request, Settle, Answer,
      AnswerUnencodable, UpstreamFails, Cancel

\* The key of a request is a key of the pool.
LEMMA SessionKeyIsKey ==
  ASSUME OptionsOK, NEW f \in Flows, NEW preset \in Presets
  PROVE  /\ SessionKey(f, preset) \in PoolKeys
         /\ options["session_scope"] \in {"origin", "client", "connection"}
<1>1. /\ options["http_version"] \in Values["http_version"]
      /\ options["session_scope"] \in Values["session_scope"]
  BY DEF OptionsOK, OptionNames
<1>2. HostOf[f] \in Hosts /\ ConnOf[f] \in Conns
  BY BridgeConstants DEF Hosts
<1> QED BY <1>1, <1>2, BridgeConstants DEF SessionKey, PoolKeys

\* A request is sent with a session of the callable's or with a preset.
SentWith(f, reason, preset) ==
    preset \in Presets /\ SendPreset(f, reason, preset)

LEMMA RequestParts ==
  ASSUME OptionsOK, NEW f \in Flows, Request(f)
  PROVE  \/ \E s \in Supplied : SendSupplied(f, s)
         \/ \E preset : SentWith(f, "rule", preset)
         \/ \E preset : SentWith(f, "static", preset)
         \/ /\ options["mode"] # "static"
            /\ \E name \in Mirror!Names :
                  /\ name # NoName
                  /\ MirrorPreset(ConnOf[f], name)
                  /\ SentWith(f, "mirror", Minted(name))
<1>1. ASSUME NEW s \in Factory[HostOf[f]], SendSupplied(f, s)
      PROVE  \E t \in Supplied : SendSupplied(f, t)
  BY <1>1, BridgeConstants DEF Hosts
<1>2. ASSUME NEW p \in Rules, SendPreset(f, "rule", Named(p))
      PROVE  \E preset : SentWith(f, "rule", preset)
  BY <1>2 DEF SentWith, Presets
<1>3. Named(options["preset"]) \in Presets
  BY DEF Presets, OptionsOK, OptionNames
<1> QED BY <1>1, <1>2, <1>3 DEF Request, DecideByMode, SentWith, Presets

\* Every step of the bridge is a step of the pool or leaves it alone.
LEMMA PoolSteps ==
  ASSUME PoolSound, OptionsOK, [Next]_vars
  PROVE  [Pool!Next]_(Pool!vars)
<1> USE DEF poolVars, Pool!vars, Pool!stats
<1>1. CASE UNCHANGED <<poolVars, phase>>
  BY <1>1
<1>2. CASE Configure
  BY <1>2 DEF Configure, Pool!Next
<1>3. CASE SweepLoop
  <2>1. PICK idle \in SUBSET Pool!Pooled : Pool!Sweep(idle)
    BY <1>3 DEF SweepLoop
  <2>2. idle \in SUBSET Pool!Sessions
    BY PoolFacts DEF Pool!Pooled, Pool!Held, Pool!Sessions
  <2> QED BY <2>1, <2>2 DEF Pool!Next
<1>4. CASE Done
  BY <1>4 DEF Done, Pool!Next
<1>5. ASSUME NEW f \in Flows, Request(f) PROVE [Pool!Next]_(Pool!vars)
  <2>1. ASSUME NEW s \in Supplied, SendSupplied(f, s) PROVE [Pool!Next]_(Pool!vars)
    <3>1. SessionKey(f, Supply) \in PoolKeys
      BY SessionKeyIsKey DEF Presets
    <3> QED BY <2>1, <3>1 DEF SendSupplied, Pool!Next
  <2>2. ASSUME NEW preset, NEW reason, SentWith(f, reason, preset)
        PROVE  [Pool!Next]_(Pool!vars)
    <3>1. SessionKey(f, preset) \in PoolKeys
      BY <2>2, SessionKeyIsKey DEF SentWith
    <3> QED BY <2>2, <3>1 DEF SentWith, SendPreset, Pool!Next
  <2> QED BY <1>5, <2>1, <2>2, RequestParts
<1> QED
  BY <1>1, <1>2, <1>3, <1>4, <1>5
  DEF Next, vars, Running, SetOption, TlsClientHello, NextLayer, TlsFailedClient,
      ClientDisconnected, Passthrough, TargetsSelf, Settle, Answer, AnswerUnencodable,
      UpstreamFails, Cancel

-----------------------------------------------------------------------------
(* Whose session a request has                                             *)

\* What is known of a request that has not come yet.
FlowShape ==
    /\ DOMAIN task = Flows /\ DOMAIN decision = Flows /\ DOMAIN session = Flows
    /\ DOMAIN built = Owned
    /\ \A f \in Flows : task[f] = "new" =>
          decision[f] = NoDecision /\ session[f] = NoSession /\ f \notin connected

\* The key a request was given says where it came from.
KeyTells(f) ==
    /\ decision[f].key.host = HostOf[f]
    /\ decision[f].scope \in {"origin", "client", "connection"}
    /\ decision[f].key.peer = Peer(decision[f].scope, ConnOf[f])

\* A session built here was only ever given out under one key: the one that
\* still holds it, if any does.
OneKeyOnly ==
    /\ \A f \in Flows : session[f] \in Owned => life[session[f]] # "unborn" /\ KeyTells(f)
    /\ \A f, g \in Flows :
          session[f] \in Owned /\ session[f] = session[g] => decision[f].key = decision[g].key
    /\ \A f \in Flows, k \in PoolKeys :
          session[f] \in Owned /\ pool[k] = session[f] => decision[f].key = k

\* A session under a key was built for that key.
BuiltForKey ==
    \A k \in PoolKeys : pool[k] \in Owned =>
        built[pool[k]].preset = k.preset /\ built[pool[k]].http_version = k.http_version

Isolation ==
    /\ PoolSound
    /\ OptionsOK
    /\ FlowShape
    /\ OneKeyOnly
    /\ BuiltForKey

\* A step that gives no request a session.
LEMMA NobodyServed ==
  ASSUME PoolSound, OneKeyOnly, BuiltForKey, OnlyLost, UNCHANGED <<decision, session, built>>
  PROVE  OneKeyOnly' /\ BuiltForKey'
<1>1. \A k \in PoolKeys : pool'[k] \in Owned => pool'[k] = pool[k]
  BY PoolFacts DEF OnlyLost
<1>2. OneKeyOnly'
  BY <1>1 DEF OneKeyOnly, OnlyLost, KeyTells
<1>3. BuiltForKey'
  BY <1>1 DEF BuiltForKey
<1> QED BY <1>2, <1>3

\* The three ways SendPreset has, seen from the sessions.
LEMMA PresetServed ==
  ASSUME Isolation, NEW f \in Flows, task[f] = "new", NEW reason, NEW preset,
         SentWith(f, reason, preset)
  PROVE  OneKeyOnly' /\ BuiltForKey'
<1> DEFINE k == SessionKey(f, preset)
           d == Decision(reason, k)
<1>1. /\ k \in PoolKeys /\ k.preset = preset /\ k.http_version = options["http_version"]
      /\ k.host = HostOf[f] /\ k.peer = Peer(d.scope, ConnOf[f])
      /\ d.scope \in {"origin", "client", "connection"} /\ d.key = k
  BY SessionKeyIsKey DEF Isolation, SentWith, SessionKey, Decision
<1>2. session[f] = NoSession /\ NoSession \notin Owned
  BY PoolFacts DEF Isolation, FlowShape
<1>3. decision' = [decision EXCEPT ![f] = d]
  BY DEF SentWith, SendPreset
<1>4. /\ decision'[f] = d
      /\ \A g \in Flows : g # f => decision'[g] = decision[g]
  BY <1>3 DEF Isolation, FlowShape
<1> HIDE DEF k, d
<1>5. CASE Pool!GetHit(k) /\ Await(f, pool[k]) /\ UNCHANGED built
  <2>1. pool' = pool /\ life' = life /\ pool[k] \in Owned /\ life[pool[k]] = "open"
    BY <1>1, <1>5, PoolFacts DEF Pool!GetHit, Isolation
  <2>2. /\ session'[f] = pool[k]
        /\ \A g \in Flows : g # f => session'[g] = session[g]
    BY <1>5 DEF Await, Isolation, FlowShape
  <2>3. \A g \in Flows : session[g] = pool[k] => decision[g].key = k
    BY <1>1, <2>1 DEF Isolation, OneKeyOnly
  <2>4. \A j \in PoolKeys : pool[j] = pool[k] => j = k
    BY <1>1, <2>1, PoolFacts DEF Isolation
  <2>5. OneKeyOnly'
    BY <1>1, <1>4, <2>1, <2>2, <2>3, <2>4 DEF Isolation, OneKeyOnly, KeyTells
  <2>6. BuiltForKey'
    BY <1>5, <2>1 DEF Isolation, BuiltForKey
  <2> QED BY <2>5, <2>6
<1>6. ASSUME NEW s \in Owned, Pool!GetMiss(k, s), Await(f, s),
             built' = [built EXCEPT ![s] = Kwargs(preset)]
      PROVE  OneKeyOnly' /\ BuiltForKey'
  <2>1. OnlyGained(k, s) /\ life[s] = "unborn"
    BY <1>1, <1>6, MissGains DEF Isolation
  <2>2. /\ \A g \in Flows : session[g] # s
        /\ \A j \in PoolKeys : pool[j] # s
    BY <2>1, PoolFacts DEF Isolation, OneKeyOnly
  <2>3. /\ session'[f] = s
        /\ \A g \in Flows : g # f => session'[g] = session[g]
    BY <1>6 DEF Await, Isolation, FlowShape
  <2>4. \A j \in PoolKeys : pool'[j] \in Owned =>
            (pool'[j] = pool[j] /\ pool'[j] # s) \/ (j = k /\ pool'[j] = s)
    BY <1>2, <2>1, <2>2 DEF OnlyGained
  <2>5. OneKeyOnly'
    <3>1. \A g \in Flows : session'[g] \in Owned => life'[session'[g]] # "unborn"
      BY <1>6, <2>1, <2>3 DEF Isolation, OneKeyOnly, OnlyGained
    <3>2. \A g \in Flows : session'[g] \in Owned => KeyTells(g)'
      BY <1>1, <1>4, <2>3 DEF Isolation, OneKeyOnly, KeyTells
    <3>3. \A g, h \in Flows :
            session'[g] \in Owned /\ session'[g] = session'[h] => decision'[g].key = decision'[h].key
      BY <1>4, <2>2, <2>3 DEF Isolation, OneKeyOnly
    <3>4. \A g \in Flows, j \in PoolKeys :
            session'[g] \in Owned /\ pool'[j] = session'[g] => decision'[g].key = j
      BY <1>1, <1>4, <2>2, <2>3, <2>4 DEF Isolation, OneKeyOnly
    <3> QED BY <3>1, <3>2, <3>3, <3>4 DEF OneKeyOnly
  <2>6. BuiltForKey'
    <3>1. /\ built'[s].preset = preset /\ built'[s].http_version = options["http_version"]
          /\ \A t \in Owned : t # s => built'[t] = built[t]
      BY <1>6 DEF Kwargs, Isolation, FlowShape
    <3> QED BY <1>1, <2>4, <3>1 DEF Isolation, BuiltForKey
  <2> QED BY <2>5, <2>6
<1>7. CASE UNCHANGED <<session, built, poolVars>>
  <2>1. pool' = pool /\ life' = life /\ session' = session /\ built' = built
    BY <1>7 DEF poolVars
  <2> QED
    BY <1>2, <1>4, <2>1 DEF Isolation, OneKeyOnly, BuiltForKey, KeyTells
<1> QED BY <1>5, <1>6, <1>7 DEF SentWith, SendPreset, k

LEMMA SuppliedServed ==
  ASSUME Isolation, NEW f \in Flows, task[f] = "new", NEW s \in Supplied, SendSupplied(f, s)
  PROVE  OneKeyOnly' /\ BuiltForKey'
<1>1. OnlyLost
  BY SessionKeyIsKey, AdoptLoses DEF SendSupplied, Isolation, Presets
<1>2. s \notin Owned /\ \A k \in PoolKeys : pool'[k] \in Owned => pool'[k] = pool[k]
  BY <1>1, PoolFacts DEF OnlyLost, Isolation
<1>3. /\ session'[f] = s
      /\ \A g \in Flows : g # f => session'[g] = session[g] /\ decision'[g] = decision[g]
      /\ built' = built
  BY DEF SendSupplied, Await, Isolation, FlowShape
<1>4. OneKeyOnly'
  BY <1>1, <1>2, <1>3 DEF Isolation, OneKeyOnly, OnlyLost, KeyTells
<1>5. BuiltForKey'
  BY <1>2, <1>3 DEF Isolation, BuiltForKey
<1> QED BY <1>4, <1>5

\* A request comes once, and only its own hook touches what is known of it.
LEMMA FlowShapeStep ==
  ASSUME FlowShape, [Next]_vars
  PROVE  FlowShape'
<1> USE DEF flowVars
<1>1. CASE UNCHANGED <<flowVars, built>>
  BY <1>1 DEF FlowShape
<1>2. ASSUME NEW f \in Flows, Passthrough(f) \/ TargetsSelf(f) PROVE FlowShape'
  BY <1>2 DEF Passthrough, TargetsSelf, FlowShape
<1>3. ASSUME NEW f \in Flows, Settle(f) PROVE FlowShape'
  <2>1. task[f] = "awaiting" /\ UNCHANGED <<decision, session, built>>
    BY <1>3 DEF Settle, Answer, AnswerUnencodable, UpstreamFails, Cancel, Awaiting
  <2>2. \E t \in {"bridged", "raised", "failed", "cancelled"} : task' = [task EXCEPT ![f] = t]
    BY <1>3 DEF Settle, Answer, AnswerUnencodable, UpstreamFails, Cancel
  <2>3. connected' \subseteq connected \cup {f}
    BY <1>3
    DEF Settle, Answer, AnswerUnencodable, UpstreamFails, Cancel
  <2> QED BY <2>1, <2>2, <2>3 DEF FlowShape
<1>4. ASSUME NEW f \in Flows, Request(f) PROVE FlowShape'
  <2>1. connected' = connected
    BY <1>4 DEF Request
  <2>2. /\ \E d : decision' = [decision EXCEPT ![f] = d]
        /\ \E t \in {"awaiting", "failed"} : task' = [task EXCEPT ![f] = t]
        /\ session' = session \/ \E s : session' = [session EXCEPT ![f] = s]
        /\ built' = built \/ \E s, b : built' = [built EXCEPT ![s] = b]
    BY <1>4 DEF Request, DecideByMode, SendSupplied, SendPreset, Await
  <2> QED BY <2>1, <2>2 DEF FlowShape
<1> QED
  BY <1>1, <1>2, <1>3, <1>4
  DEF Next, vars, Running, SetOption, Configure, SweepLoop, Done, TlsClientHello, NextLayer,
      TlsFailedClient, ClientDisconnected

\* The steps that give no request a session.
LEMMA OtherSteps ==
  ASSUME PoolSound, [Next]_vars
  PROVE  \/ OnlyLost /\ UNCHANGED <<decision, session, built>>
         \/ \E f \in Flows : Request(f)
<1> USE DEF flowVars
<1>1. CASE UNCHANGED <<pool, life, decision, session, built>>
  BY <1>1 DEF OnlyLost
<1>2. CASE Configure
  BY <1>2 DEF Configure, poolVars, OnlyLost, Pool!SetMaxSessions
<1>3. CASE SweepLoop
  BY <1>3, SweepLoses DEF SweepLoop
<1>4. CASE Done
  BY <1>4, CloseLoses DEF Done
<1> QED
  BY <1>1, <1>2, <1>3, <1>4
  DEF Next, vars, poolVars, Running, SetOption, TlsClientHello, NextLayer, TlsFailedClient,
      ClientDisconnected, Passthrough, TargetsSelf, Settle, Answer, AnswerUnencodable,
      UpstreamFails, Cancel

LEMMA IsolationInit == Init => Isolation
<1> SUFFICES ASSUME Init PROVE Isolation
  OBVIOUS
<1>1. PoolSound
  BY PoolInitSound DEF Init
<1>2. OptionsOK
  BY DEF Init, OptionsOK
<1>3. FlowShape
  BY DEF Init, FlowShape
<1>4. \A f \in Flows : session[f] \notin Owned
  BY <1>1, PoolFacts DEF Init
<1>5. \A k \in PoolKeys : pool[k] \notin Owned
  BY <1>1, PoolFacts DEF Init, Pool!Init
<1> QED BY <1>1, <1>2, <1>3, <1>4, <1>5 DEF Isolation, OneKeyOnly, BuiltForKey

LEMMA IsolationStep == Isolation /\ [Next]_vars => Isolation'
<1> SUFFICES ASSUME Isolation, [Next]_vars PROVE Isolation'
  OBVIOUS
<1>1. PoolSound' /\ OptionsOK' /\ FlowShape'
  BY PoolSteps, PoolStepsKeepSound, OptionsStep, FlowShapeStep DEF Isolation
<1>2. OneKeyOnly' /\ BuiltForKey'
  <2>1. CASE OnlyLost /\ UNCHANGED <<decision, session, built>>
    BY <2>1, NobodyServed DEF Isolation
  <2>2. ASSUME NEW f \in Flows, Request(f) PROVE OneKeyOnly' /\ BuiltForKey'
    BY <2>2, RequestParts, PresetServed, SuppliedServed DEF Isolation, Request, Arrives
  <2> QED BY <2>1, <2>2, OtherSteps DEF Isolation
<1> QED BY <1>1, <1>2 DEF Isolation

\* The inductive invariant of the sessions given to requests.
THEOREM IsolationInvariant == Spec => []Isolation
  BY IsolationInit, IsolationStep, PTL DEF Spec

\* Requests scoped to a connection or a client share no session with another's
\* (options.py:66-69, resolve.session_key), however the scope was changed, and
\* whatever the pool evicted and rebuilt in between.
THEOREM ScopesApart == Spec => []ScopesKeptApart
<1>1. Isolation => ScopesKeptApart
  <2> SUFFICES ASSUME OneKeyOnly, NEW f \in Flows, NEW g \in Flows,
                      session[f] = session[g], session[f] \in Owned
               PROVE  /\ HostOf[f] = HostOf[g]
                      /\ decision[f].scope = "connection" => ConnOf[f] = ConnOf[g]
                      /\ decision[f].scope = "client" => ClientOf[ConnOf[f]] = ClientOf[ConnOf[g]]
    BY DEF Isolation, ScopesKeptApart
  <2>1. KeyTells(f) /\ KeyTells(g) /\ decision[f].key = decision[g].key
    BY DEF OneKeyOnly
  <2>2. /\ ConnOf[f] \in Conns /\ ConnOf[g] \in Conns
        /\ ClientOf[ConnOf[f]] \in Clients /\ ClientOf[ConnOf[g]] \in Clients
    BY BridgeConstants DEF Clients
  <2> QED BY <2>1, <2>2, BridgeConstants DEF KeyTells, Peer
<1> QED BY <1>1, IsolationInvariant, PTL

\* A request only goes out on a session built for its preset and its protocol
\* (session_key and _session_for), however often the options changed.
THEOREM OnItsOwnSession == Spec => RequestOnItsOwnSession
<1>1. Isolation /\ Isolation' /\ [Next]_vars =>
        [\A f \in Flows : Starts(f) /\ session'[f] \in Owned =>
            LET kwargs == built'[session'[f]]
            IN  kwargs.preset = decision'[f].key.preset
                /\ kwargs.http_version = options["http_version"]]_vars
  <2> SUFFICES ASSUME Isolation, Isolation', [Next]_vars, NEW f \in Flows,
                      Starts(f), session'[f] \in Owned
               PROVE  /\ built'[session'[f]].preset = decision'[f].key.preset
                      /\ built'[session'[f]].http_version = options["http_version"]
    OBVIOUS
  <2>1. session[f] = NoSession /\ NoSession \notin Owned /\ Owned \cap Supplied = {}
    BY PoolFacts DEF Starts, Isolation, FlowShape
  <2>2. PICK g \in Flows : Request(g)
    BY <2>1, OtherSteps DEF Isolation
  <2>3. g = f
    BY <2>1, <2>2
    DEF Request, DecideByMode, SendSupplied, SendPreset, Await, Isolation, FlowShape
  <2>4. ASSUME NEW s \in Supplied, SendSupplied(f, s) PROVE FALSE
    BY <2>1, <2>4 DEF SendSupplied, Await, Isolation, FlowShape
  <2>5. PICK reason, preset : SentWith(f, reason, preset)
    BY <2>2, <2>3, <2>4, RequestParts DEF Isolation
  <2> DEFINE k == SessionKey(f, preset)
  <2>6. k \in PoolKeys /\ k.preset = preset /\ k.http_version = options["http_version"]
    BY <2>5, SessionKeyIsKey DEF Isolation, SentWith, SessionKey
  <2>7. decision'[f].key = k
    BY <2>5 DEF SentWith, SendPreset, Decision, Isolation, FlowShape
  <2> HIDE DEF k
  <2>8. CASE Pool!GetHit(k) /\ Await(f, pool[k]) /\ UNCHANGED built
    <3>1. session'[f] = pool[k]
      BY <2>8 DEF Await, Isolation, FlowShape
    <3>2. built[pool[k]].preset = k.preset /\ built[pool[k]].http_version = k.http_version
      BY <2>6, <3>1 DEF Isolation, BuiltForKey
    <3> QED BY <2>6, <2>7, <2>8, <3>1, <3>2
  <2>9. ASSUME NEW s \in Owned, Await(f, s), built' = [built EXCEPT ![s] = Kwargs(preset)]
        PROVE  /\ built'[session'[f]].preset = decision'[f].key.preset
               /\ built'[session'[f]].http_version = options["http_version"]
    <3>1. session'[f] = s
      BY <2>9 DEF Await, Isolation, FlowShape
    <3>2. built'[s].preset = preset /\ built'[s].http_version = options["http_version"]
      BY <2>9 DEF Kwargs, Isolation, FlowShape
    <3> QED BY <2>6, <2>7, <3>1, <3>2
  <2>10. session' # session
    BY <2>1
  <2> QED BY <2>5, <2>8, <2>9, <2>10 DEF SentWith, SendPreset, k
<1> QED BY <1>1, IsolationInvariant, PTL DEF Spec, RequestOnItsOwnSession

-----------------------------------------------------------------------------
(* What a static mode never does                                           *)

\* Once running() has asked, an httpcloak that does not replay is not mirrored
\* with; where there was no fixture to ask with, nothing is claimed.
StaticWithoutReplay == started /\ fixture /\ ~replays => options["mode"] = "static"

\* "Refuse to mirror against an httpcloak that cannot replay a captured hello"
\* (bridge.py:176), for a user who does not set the mode while it runs, and a
\* package whose probe fixture can be read (bridge.py:186-188).
THEOREM MirrorsOnlyWithSupport ==
  ASSUME "mode" \notin Changes
  PROVE  Spec => []MirrorNeedsSupport
<1> DEFINE Inv == FlowShape /\ OptionsOK /\ StaticWithoutReplay /\ MirrorNeedsSupport
<1>1. Init => Inv
  BY DEF Init, FlowShape, OptionsOK, StaticWithoutReplay, MirrorNeedsSupport
<1>2. Inv /\ [Next]_vars => Inv'
  <2> SUFFICES ASSUME Inv, [Next]_vars PROVE StaticWithoutReplay' /\ MirrorNeedsSupport'
    BY FlowShapeStep, OptionsStep
  <2> USE DEF flowVars, configVars
  <2>1. CASE UNCHANGED <<decision, configVars>>
    BY <2>1 DEF StaticWithoutReplay, MirrorNeedsSupport
  <2>2. CASE Running
    BY <2>2
    DEF Running, OptionsChecked, OptionsOK, OptionNames, StaticWithoutReplay, MirrorNeedsSupport
  <2>3. ASSUME NEW n \in OptionNames, SetOption(n)
        PROVE  StaticWithoutReplay' /\ MirrorNeedsSupport'
    BY <2>3 DEF SetOption, OptionsOK, StaticWithoutReplay, MirrorNeedsSupport
  <2>4. ASSUME NEW f \in Flows, Request(f)
        PROVE  StaticWithoutReplay' /\ MirrorNeedsSupport'
    <3>1. started /\ UNCHANGED configVars
      BY <2>4 DEF Request, Arrives, Serving
    <3>2. \E reason, k : /\ decision' = [decision EXCEPT ![f] = Decision(reason, k)]
                         /\ reason = "mirror" => options["mode"] # "static"
      BY <2>4, RequestParts DEF SendSupplied, SentWith, SendPreset
    <3>3. PICK reason, k : /\ decision' = [decision EXCEPT ![f] = Decision(reason, k)]
                           /\ reason = "mirror" => options["mode"] # "static"
      BY <3>2
    <3>4. decision'[f].reason = reason /\ \A g \in Flows : g # f => decision'[g] = decision[g]
      BY <3>3 DEF FlowShape, Decision
    <3> QED BY <3>1, <3>3, <3>4 DEF StaticWithoutReplay, MirrorNeedsSupport
  <2> QED
    BY <2>1, <2>2, <2>3, <2>4
    DEF Next, vars, Configure, SweepLoop, Done, TlsClientHello, NextLayer,
        TlsFailedClient, ClientDisconnected, Passthrough, TargetsSelf, Settle, Answer,
        AnswerUnencodable, UpstreamFails, Cancel
<1>3. Inv => MirrorNeedsSupport
  OBVIOUS
<1> HIDE DEF Inv
<1> QED BY <1>1, <1>2, <1>3, PTL DEF Spec

-----------------------------------------------------------------------------
(* Whose preset a request carries                                          *)

LEMMA RegistryConstantsHold == RegistryProofs!MirrorConstants
<1>1. Mirror!MirrorConstants
  BY BridgeComponents
<1> QED
  BY <1>1, Zenon
  DEF Mirror!MirrorConstants, Mirror!Names, Mirror!Docs, Mirror!Ids, Mirror!Identifies,
      RegistryProofs!MirrorConstants, RegistryProofs!Names, RegistryProofs!Docs,
      RegistryProofs!Ids, RegistryProofs!Identifies

\* The registry's own invariant, kept by the bridge.
RegistrySound == RegistryProofs!MirrorInv

LEMMA SameEnsure ==
  ASSUME NEW profile, NEW base, NEW base_permutes, NEW name,
         Mirror!Ensure(profile, base, base_permutes, name)
  PROVE  RegistryProofs!Ensure(profile, base, base_permutes, name)
BY Zenon
DEF Mirror!Ensure, Mirror!Mint, Mirror!Attempt, Mirror!Answers, Mirror!Accepted,
    Mirror!BuildPreset, Mirror!Key, Mirror!Resumes, Mirror!Permutes, Mirror!Cardinality,
    Mirror!mirrorVars,
    RegistryProofs!Ensure, RegistryProofs!Mint, RegistryProofs!Attempt, RegistryProofs!Answers,
    RegistryProofs!Accepted, RegistryProofs!BuildPreset, RegistryProofs!Key,
    RegistryProofs!Resumes, RegistryProofs!Permutes, RegistryProofs!Cardinality,
    RegistryProofs!mirrorVars

LEMMA SameNames == Mirror!Names = RegistryProofs!Names /\ Mirror!Profiles = RegistryProofs!Profiles
BY DEF Mirror!Names, Mirror!Ids, Mirror!Profiles,
       RegistryProofs!Names, RegistryProofs!Ids, RegistryProofs!Profiles

\* A name is the digest of its client's hello.
LEMMA EnsureServes ==
  ASSUME RegistrySound, NEW profile \in Mirror!Profiles, NEW base \in Bases, NEW base_permutes,
         NEW name \in Mirror!Names \cup {NoName},
         Mirror!Ensure(profile, base, base_permutes, name)
  PROVE  /\ RegistrySound'
         /\ \A n \in Mirror!Names : docs[n] # NoDoc => docs'[n] # NoDoc
         /\ name # NoName => docs'[name] # NoDoc /\ name.id = profile.hello.id
<1>1. RegistryProofs!Ensure(profile, base, base_permutes, name)
  BY SameEnsure
<1>2. profile \in RegistryProofs!Profiles
  BY SameNames
<1>3. /\ RegistryProofs!MirrorInv'
      /\ \A n \in RegistryProofs!Names : docs[n] # NoDoc => docs'[n] # NoDoc
      /\ name # NoName =>
            /\ name = RegistryProofs!Key(profile, base, base_permutes)
            /\ docs'[name] # NoDoc
  BY <1>1, <1>2, RegistryConstantsHold, RegistryProofs!EnsureKeepsInv DEF RegistrySound
<1> QED BY <1>3, SameNames DEF RegistrySound, RegistryProofs!Key

LEMMA RegistryInit == Init => RegistrySound
<1>1. Mirror!MirrorInit => RegistryProofs!MirrorInit
  BY SameNames DEF Mirror!MirrorInit, RegistryProofs!MirrorInit
<1> QED BY <1>1, RegistryConstantsHold, RegistryProofs!MirrorInvInit DEF Init, RegistrySound

LEMMA OtherRegistrySteps ==
  ASSUME RegistrySound,
         \/ UNCHANGED mirrorVars
         \/ \E file \in PresetFiles : Mirror!LoadPreset(file)
         \/ Mirror!CloseMirror
  PROVE  RegistrySound'
<1>1. CASE UNCHANGED mirrorVars
  BY <1>1, RegistryConstantsHold, RegistryProofs!StutterKeepsInv
  DEF mirrorVars, RegistrySound, RegistryProofs!mirrorVars
<1>2. ASSUME NEW file \in PresetFiles, Mirror!LoadPreset(file) PROVE RegistrySound'
  <2>1. RegistryProofs!LoadPreset(file)
    BY <1>2
    DEF Mirror!LoadPreset, Mirror!Loaded, RegistryProofs!LoadPreset, RegistryProofs!Loaded
  <2> QED BY <2>1, RegistryConstantsHold, RegistryProofs!LoadKeepsInv DEF RegistrySound
<1>3. CASE Mirror!CloseMirror
  <2>1. RegistryProofs!CloseMirror
    BY <1>3, SameNames DEF Mirror!CloseMirror, RegistryProofs!CloseMirror
  <2> QED BY <2>1, RegistryConstantsHold, RegistryProofs!CloseKeepsInv DEF RegistrySound
<1> QED BY <1>1, <1>2, <1>3

LEMMA ServedHasDoc ==
  ASSUME RegistrySound, NEW n \in Mirror!Names, docs[n] # NoDoc
  PROVE  registry[n] # NoDoc
BY SameNames DEF RegistrySound, RegistryProofs!MirrorInv, RegistryProofs!ServedIsRegistered

-----------------------------------------------------------------------------

\* What is known of a connection is what it said.
ProfileTells(c) ==
    profiles[c] # NoProfile => profiles[c] \in Mirror!Profiles /\ profiles[c].hello \in Says[c]

\* The preset remembered for a connection is of a hello it may have sent, and
\* is there until done() takes them all.
PresetTells(c) ==
    presets_for_conn[c] # NoName =>
        /\ presets_for_conn[c] \in Mirror!Names
        /\ presets_for_conn[c].id \in {h.id : h \in Says[c]}
        /\ phase = "running" => docs[presets_for_conn[c]] # NoDoc

OwnPresets ==
    /\ RegistrySound
    /\ DOMAIN profiles = Conns /\ DOMAIN presets_for_conn = Conns
    /\ \A c \in Conns : ProfileTells(c) /\ PresetTells(c)

\* One more hello makes a profile of a profile, or of none.
LEMMA WithHelloTells ==
  ASSUME NEW c \in Conns, NEW profile \in Mirror!Profiles \cup {NoProfile},
         profile # NoProfile => profile.hello \in Says[c],
         NEW h \in Says[c]
  PROVE  WithHello(profile, h) \in Mirror!Profiles /\ WithHello(profile, h).hello \in Says[c]
<1>1. h \in Hellos
  BY BridgeConstants
<1> DEFINE old == IF profile = NoProfile
                    THEN [hello |-> h, psk_hello |-> NoHello, h2 |-> NoPreface, orders_seen |-> {}]
                    ELSE profile
<1>2. old \in Mirror!Profiles /\ old.hello \in Says[c]
  BY <1>1 DEF Mirror!Profiles
<1>3. WithHello(profile, h) = [old EXCEPT ![SlotOf(h)] = h, !.orders_seen = @ \cup {h.order}]
  BY DEF WithHello
<1> HIDE DEF old
<1>4. old.orders_seen \cup {h.order} \in SUBSET {g.order : g \in Hellos}
  BY <1>1, <1>2 DEF Mirror!Profiles
<1>5. CASE h.psk
  <2>1. WithHello(profile, h) =
            [hello |-> old.hello, psk_hello |-> h, h2 |-> old.h2,
             orders_seen |-> old.orders_seen \cup {h.order}]
    BY <1>2, <1>3, <1>5 DEF SlotOf, Mirror!Profiles
  <2> QED BY <1>1, <1>2, <1>4, <2>1 DEF Mirror!Profiles
<1>6. CASE ~h.psk
  <2>1. WithHello(profile, h) =
            [hello |-> h, psk_hello |-> old.psk_hello, h2 |-> old.h2,
             orders_seen |-> old.orders_seen \cup {h.order}]
    BY <1>2, <1>3, <1>6 DEF SlotOf, Mirror!Profiles
  <2> QED BY <1>1, <1>2, <1>4, <2>1 DEF Mirror!Profiles
<1> QED BY <1>5, <1>6

LEMMA WithPrefaceTells ==
  ASSUME NEW profile \in Mirror!Profiles, NEW p \in Prefaces
  PROVE  [profile EXCEPT !.h2 = p] \in Mirror!Profiles
         /\ [profile EXCEPT !.h2 = p].hello = profile.hello
BY DEF Mirror!Profiles

LEMMA RequestPhase == ASSUME NEW f \in Flows, Request(f) PROVE phase = "running" /\ phase' = phase
BY DEF Request, DecideByMode, SendSupplied, SendPreset, Arrives, Serving, Pool!AdoptSame,
       Pool!AdoptOther, Pool!GetHit, Pool!GetMiss

\* The name MirrorPreset returns is one its connection said.
LEMMA MirrorPresetTells ==
  ASSUME OwnPresets, phase = "running", phase' = phase, profiles' = profiles,
         NEW c \in Conns, NEW name \in Mirror!Names \cup {NoName}, MirrorPreset(c, name)
  PROVE  /\ OwnPresets'
         /\ name # NoName => name.id \in {h.id : h \in Says[c]} /\ registry'[name] # NoDoc
<1>0. NoName \notin Mirror!Names
  BY BridgeComponents DEF Mirror!MirrorConstants
<1>1. CASE UNCHANGED <<presets_for_conn, mirrorVars>>
  <2>1. OwnPresets'
    BY <1>1, OtherRegistrySteps DEF mirrorVars, OwnPresets, ProfileTells, PresetTells
  <2>2. name # NoName => name = presets_for_conn[c]
    BY <1>0, <1>1 DEF MirrorPreset, Remember, OwnPresets
  <2> QED BY <1>1, <2>1, <2>2, ServedHasDoc DEF mirrorVars, OwnPresets, PresetTells
<1>2. CASE ~UNCHANGED <<presets_for_conn, mirrorVars>>
  <2>1. PICK base \in Bases : Mirror!Ensure(profiles[c], base, base \in Permuting, name)
    BY <1>2 DEF MirrorPreset
  <2>2. profiles[c] \in Mirror!Profiles /\ profiles[c].hello \in Says[c]
        /\ presets_for_conn' = [presets_for_conn EXCEPT ![c] = name]
    BY <1>2 DEF MirrorPreset, Mirrorable, Remember, OwnPresets, ProfileTells
  <2>3. /\ RegistrySound'
        /\ \A n \in Mirror!Names : docs[n] # NoDoc => docs'[n] # NoDoc
        /\ name # NoName => docs'[name] # NoDoc /\ name.id = profiles[c].hello.id
    BY <2>1, <2>2, EnsureServes DEF OwnPresets
  <2>4. name # NoName => name.id \in {h.id : h \in Says[c]} /\ registry'[name] # NoDoc
    <3>1. ASSUME name # NoName PROVE registry'[name] # NoDoc
      BY <2>3, <3>1, SameNames
      DEF RegistrySound, RegistryProofs!MirrorInv, RegistryProofs!ServedIsRegistered
    <3> QED BY <2>2, <2>3, <3>1
  <2>5. OwnPresets'
    BY <2>2, <2>3, <2>4 DEF OwnPresets, ProfileTells, PresetTells
  <2> QED BY <2>4, <2>5
<1> QED BY <1>1, <1>2

LEMMA OwnPresetsInit == Init => OwnPresets
  BY RegistryInit DEF Init, OwnPresets, ProfileTells, PresetTells

LEMMA OwnPresetsStep == OptionsOK /\ OwnPresets /\ [Next]_vars => OwnPresets'
<1> SUFFICES ASSUME OptionsOK, OwnPresets, [Next]_vars PROVE OwnPresets'
  OBVIOUS
<1> USE DEF connVars, mirrorVars
<1>1. CASE UNCHANGED <<profiles, presets_for_conn, mirrorVars, phase>>
  BY <1>1, OtherRegistrySteps DEF OwnPresets, ProfileTells, PresetTells
<1>2. CASE Configure
  <2>1. UNCHANGED <<profiles, presets_for_conn, docs, phase>>
    BY <1>2 DEF Configure, Mirror!LoadPreset, Pool!SetMaxSessions
  <2>2. RegistrySound'
    BY <1>2, OtherRegistrySteps DEF Configure, OwnPresets
  <2> QED BY <2>1, <2>2 DEF OwnPresets, ProfileTells, PresetTells
<1>3. CASE SweepLoop
  BY <1>1, <1>3 DEF SweepLoop, Pool!Sweep
<1>4. CASE Done
  <2>1. UNCHANGED <<profiles, presets_for_conn>> /\ phase' = "done" /\ RegistrySound'
    BY <1>4, OtherRegistrySteps DEF Done, Pool!Close, OwnPresets
  <2> QED BY <2>1 DEF OwnPresets, ProfileTells, PresetTells
<1>5. ASSUME NEW c \in Conns, NEW h \in Hellos, TlsClientHello(c, h) PROVE OwnPresets'
  <2>1. /\ profiles' = [profiles EXCEPT ![c] = WithHello(profiles[c], h)] /\ h \in Says[c]
        /\ UNCHANGED <<presets_for_conn, mirrorVars, phase>>
    BY <1>5 DEF TlsClientHello
  <2>2. WithHello(profiles[c], h) \in Mirror!Profiles /\ WithHello(profiles[c], h).hello \in Says[c]
    BY <2>1, WithHelloTells DEF OwnPresets, ProfileTells
  <2>3. RegistrySound'
    BY <2>1, OtherRegistrySteps DEF OwnPresets
  <2> QED BY <2>1, <2>2, <2>3 DEF OwnPresets, ProfileTells, PresetTells
<1>6. ASSUME NEW c \in Conns, NEW p \in Prefaces, NextLayer(c, p) PROVE OwnPresets'
  <2>1. /\ profiles' = [profiles EXCEPT ![c] = [profiles[c] EXCEPT !.h2 = p]]
        /\ profiles[c] # NoProfile /\ UNCHANGED <<presets_for_conn, mirrorVars, phase>>
    BY <1>6, Zenon DEF NextLayer
  <2>2. PICK profile : profile = [profiles[c] EXCEPT !.h2 = p]
    OBVIOUS
  <2>3. profile \in Mirror!Profiles /\ profile.hello \in Says[c]
    BY <2>1, <2>2, WithPrefaceTells DEF OwnPresets, ProfileTells
  <2>4. profiles' = [profiles EXCEPT ![c] = profile] /\ RegistrySound'
    BY <2>1, <2>2, OtherRegistrySteps DEF OwnPresets
  <2> QED BY <2>1, <2>3, <2>4 DEF OwnPresets, ProfileTells, PresetTells
<1>7. ASSUME NEW c \in Conns, ClientDisconnected(c) PROVE OwnPresets'
  <2>1. /\ profiles' = [profiles EXCEPT ![c] = NoProfile]
        /\ presets_for_conn' = [presets_for_conn EXCEPT ![c] = NoName]
        /\ UNCHANGED <<mirrorVars, phase>>
    BY <1>7 DEF ClientDisconnected, WithoutProfile, WithoutPreset
  <2>2. RegistrySound'
    BY <2>1, OtherRegistrySteps DEF OwnPresets
  <2> QED BY <2>1, <2>2 DEF OwnPresets, ProfileTells, PresetTells
<1>8. ASSUME NEW f \in Flows, Request(f) PROVE OwnPresets'
  <2>1. profiles' = profiles /\ phase = "running" /\ phase' = phase /\ ConnOf[f] \in Conns
    BY <1>8, RequestPhase, BridgeConstants DEF Request
  <2>2. CASE UNCHANGED <<presets_for_conn, mirrorVars>>
    BY <1>1, <2>1, <2>2
  <2>3. ASSUME NEW name \in Mirror!Names \cup {NoName}, MirrorPreset(ConnOf[f], name)
        PROVE  OwnPresets'
    BY <2>1, <2>3, MirrorPresetTells
  <2> QED BY <1>8, <2>2, <2>3 DEF Request, DecideByMode
<1> QED
  BY <1>1, <1>2, <1>3, <1>4, <1>5, <1>6, <1>7, <1>8
  DEF Next, vars, Running, SetOption, TlsFailedClient, Passthrough, TargetsSelf, Settle,
      Answer, AnswerUnencodable, UpstreamFails, Cancel

\* Request is the only hook that starts a request.
LEMMA StartIsRequest ==
  ASSUME FlowShape, NEW f \in Flows, Starts(f), [Next]_vars
  PROVE  Request(f)
<1>1. PICK g \in Flows : Request(g)
  BY DEF Starts, Next, vars, flowVars, Running, SetOption, Configure, SweepLoop, Done,
         TlsClientHello, NextLayer, TlsFailedClient, ClientDisconnected, Passthrough,
         TargetsSelf, Settle, Answer, AnswerUnencodable, UpstreamFails, Cancel, FlowShape
<1>2. \E t : task' = [task EXCEPT ![g] = t]
  BY <1>1 DEF Request, DecideByMode, SendSupplied, SendPreset, Await
<1> QED BY <1>1, <1>2 DEF Starts, FlowShape

\* A request that starts mirrored asked for its connection's preset.
LEMMA MirrorParts ==
  ASSUME OptionsOK, FlowShape, [Next]_vars, NEW f \in Flows, Starts(f),
         decision'[f].reason = "mirror"
  PROVE  /\ Request(f)
         /\ \E name \in Mirror!Names :
              /\ name # NoName
              /\ MirrorPreset(ConnOf[f], name)
              /\ decision'[f].key.preset = Minted(name)
<1>1. Request(f)
  BY StartIsRequest
<1>2. ASSUME NEW reason, NEW k, decision' = [decision EXCEPT ![f] = Decision(reason, k)]
      PROVE  decision'[f].reason = reason /\ decision'[f].key = k
  BY <1>2 DEF Decision, FlowShape
<1>3. PICK name \in Mirror!Names :
          /\ name # NoName
          /\ MirrorPreset(ConnOf[f], name)
          /\ SentWith(f, "mirror", Minted(name))
  BY <1>1, <1>2, RequestParts DEF SendSupplied, SentWith, SendPreset
<1> DEFINE k == SessionKey(f, Minted(name))
<1>4. k.preset = Minted(name)
  BY DEF SessionKey
<1>5. decision' = [decision EXCEPT ![f] = Decision("mirror", k)]
  BY <1>3 DEF SentWith, SendPreset
<1> HIDE DEF k
<1>6. decision'[f].key.preset = Minted(name)
  BY <1>2, <1>4, <1>5
<1> QED BY <1>1, <1>3, <1>6

\* A mirrored request carries a registered preset of a hello its own connection
\* may have sent (_mirror_preset, _presets_for_conn), however many clients mint
\* at once, whatever is loaded, refused or taken, and whenever it is asked.
THEOREM MirrorsOwn == Spec => MirrorsItsOwnClient
<1>1. OptionsOK /\ FlowShape /\ OwnPresets /\ [Next]_vars =>
        [\A f \in Flows : Starts(f) /\ decision'[f].reason = "mirror" =>
            LET name == decision'[f].key.preset[2]
            IN  /\ registry'[name] # NoDoc
                /\ name.id \in {h.id : h \in Says[ConnOf[f]]}]_vars
  <2> SUFFICES ASSUME OptionsOK, FlowShape, OwnPresets, [Next]_vars, NEW f \in Flows,
                      Starts(f), decision'[f].reason = "mirror"
               PROVE  /\ registry'[decision'[f].key.preset[2]] # NoDoc
                      /\ decision'[f].key.preset[2].id \in {h.id : h \in Says[ConnOf[f]]}
    OBVIOUS
  <2>1. PICK name \in Mirror!Names :
            /\ name # NoName
            /\ MirrorPreset(ConnOf[f], name)
            /\ decision'[f].key.preset = Minted(name)
    BY MirrorParts
  <2>2. /\ profiles' = profiles /\ phase = "running" /\ phase' = phase /\ ConnOf[f] \in Conns
    BY StartIsRequest, RequestPhase, BridgeConstants DEF Request
  <2>3. decision'[f].key.preset[2] = name
    BY <2>1 DEF Minted
  <2>4. name.id \in {h.id : h \in Says[ConnOf[f]]} /\ registry'[name] # NoDoc
    BY <2>1, <2>2, MirrorPresetTells
  <2> QED BY <2>3, <2>4
<1>2. Init => OptionsOK /\ FlowShape /\ OwnPresets
  BY IsolationInit, OwnPresetsInit DEF Isolation
<1>3. OptionsOK /\ FlowShape /\ OwnPresets /\ [Next]_vars => (OptionsOK /\ FlowShape /\ OwnPresets)'
  BY OptionsStep, FlowShapeStep, OwnPresetsStep
<1> QED BY <1>1, <1>2, <1>3, PTL DEF Spec, MirrorsItsOwnClient

-----------------------------------------------------------------------------
(* What the bridge hands out, and keeps                                    *)

\* Through the hooks too, a built session is open exactly while it is pooled:
\* what the pool promises of its operations holds of the addon.
THEOREM AddonLeaksNothing == Spec => []Pool!NoSessionLeaked
<1>1. Isolation => Pool!NoSessionLeaked
  BY DEF Isolation, PoolSound, PoolProofs!LeakInv, PoolProofs!NoSessionLeaked,
         PoolProofs!Pooled, PoolProofs!Held, Pool!NoSessionLeaked, Pool!Pooled, Pool!Held
<1> QED BY <1>1, IsolationInvariant, PTL

PoolOpen == PoolProofs!OpenInv

\* A request that starts has its session from get or from adopt.
LEMMA StartParts ==
  ASSUME OptionsOK, FlowShape, NEW f \in Flows, Starts(f), [Next]_vars
  PROVE  \E k \in PoolKeys :
            \/ Pool!GetHit(k) /\ session'[f] = pool[k]
            \/ \E s \in Owned : Pool!GetMiss(k, s) /\ session'[f] = s
            \/ \E s \in Supplied :
                  (Pool!AdoptSame(k, s) \/ Pool!AdoptOther(k, s)) /\ session'[f] = s
<1>1. Request(f)
  BY StartIsRequest
<1>2. ASSUME NEW s \in Supplied, SendSupplied(f, s)
      PROVE  \E k \in PoolKeys :
                (Pool!AdoptSame(k, s) \/ Pool!AdoptOther(k, s)) /\ session'[f] = s
  <2>1. SessionKey(f, Supply) \in PoolKeys
    BY SessionKeyIsKey DEF Presets
  <2> QED BY <1>2, <2>1 DEF SendSupplied, Await, FlowShape
<1>3. ASSUME NEW reason, NEW preset, SentWith(f, reason, preset)
      PROVE  \E k \in PoolKeys :
                \/ Pool!GetHit(k) /\ session'[f] = pool[k]
                \/ \E s \in Owned : Pool!GetMiss(k, s) /\ session'[f] = s
  <2>1. SessionKey(f, preset) \in PoolKeys
    BY <1>3, SessionKeyIsKey DEF SentWith
  <2> QED BY <1>3, <2>1 DEF SentWith, SendPreset, Await, FlowShape, Starts
<1> QED BY <1>1, <1>2, <1>3, RequestParts

\* The pool's operations are those its proofs are about.
LEMMA SameGetMiss ==
  ASSUME NEW k, NEW s, Pool!GetMiss(k, s)
  PROVE  PoolProofs!GetMiss(k, s)
BY Zenon
DEF Pool!GetMiss, Pool!InsertAndTrim, Pool!Drop, Pool!IsOldest, Pool!ClosedBy, Pool!BuiltKeys,
    Pool!Held, Pool!Excess, Pool!MoveToEnd, Pool!Sessions, Pool!Cardinality,
    PoolProofs!GetMiss, PoolProofs!InsertAndTrim, PoolProofs!Drop, PoolProofs!IsOldest,
    PoolProofs!ClosedBy, PoolProofs!BuiltKeys, PoolProofs!Held, PoolProofs!Excess,
    PoolProofs!MoveToEnd, PoolProofs!Sessions, PoolProofs!Cardinality

LEMMA SameAdopt ==
  ASSUME NEW k, NEW s, Pool!AdoptSame(k, s) \/ Pool!AdoptOther(k, s)
  PROVE  PoolProofs!AdoptSame(k, s) \/ PoolProofs!AdoptOther(k, s)
BY Zenon
DEF Pool!AdoptSame, Pool!AdoptOther, Pool!stats, Pool!InsertAndTrim, Pool!Drop, Pool!IsOldest,
    Pool!ClosedBy, Pool!Held, Pool!Excess, Pool!MoveToEnd, Pool!Sessions, Pool!Cardinality,
    PoolProofs!AdoptSame, PoolProofs!AdoptOther, PoolProofs!stats, PoolProofs!InsertAndTrim,
    PoolProofs!Drop, PoolProofs!IsOldest, PoolProofs!ClosedBy, PoolProofs!Held,
    PoolProofs!Excess, PoolProofs!MoveToEnd, PoolProofs!Sessions, PoolProofs!Cardinality

\* If the callable gives each session out under one key, as one that keeps a
\* session for each host does under the default scope and one protocol, and if
\* the cap is never zero, a request never starts on a session that was closed (get, adopt,
\* _trim), whatever was evicted, swept or replaced since it was pooled.
THEOREM StartsOpen ==
  ASSUME Pool!OneKeyEach, 0 \notin Caps
  PROVE  Spec => StartsOnOpenSession
<1> DEFINE Inv == Isolation /\ PoolOpen /\ max_sessions \in Caps
<1>1. PoolProofs!OneKeyEach
  BY DEF Pool!OneKeyEach, PoolProofs!OneKeyEach
<1>2. Init => Inv
  <2>1. Pool!Init => PoolProofs!Init /\ max_sessions \in Caps
    BY DEF Pool!Init, PoolProofs!Init, Pool!Sessions, PoolProofs!Sessions
  <2>2. Init => Pool!Init
    BY DEF Init
  <2> QED BY <2>1, <2>2, IsolationInit, PoolConstantsHold, PoolProofs!OpenInit DEF PoolOpen
<1>3. Inv /\ [Next]_vars => Inv'
  <2> SUFFICES ASSUME Inv, [Next]_vars PROVE Inv'
    OBVIOUS
  <2>1. [PoolProofs!Next]_(PoolProofs!vars)
    BY PoolSteps, SamePoolSteps DEF Isolation
  <2>2. PoolOpen'
    BY <1>1, <2>1, PoolConstantsHold, PoolProofs!OpenStep DEF PoolOpen
  <2>3. max_sessions' \in Caps
    BY <2>2
    DEF PoolOpen, PoolProofs!OpenInv, PoolProofs!SuppliedInv, PoolProofs!LeakInv, PoolProofs!TypeOK
  <2> QED BY <2>2, <2>3, IsolationStep
<1>4. Inv /\ [Next]_vars => [\A f \in Flows : Starts(f) => life'[session'[f]] = "open"]_vars
  <2> SUFFICES ASSUME Inv, [Next]_vars, NEW f \in Flows, Starts(f)
               PROVE  life'[session'[f]] = "open"
    OBVIOUS
  <2>1. [PoolProofs!Next]_(PoolProofs!vars) /\ max_sessions # 0
    BY PoolSteps, SamePoolSteps DEF Isolation
  <2>2. PICK k \in PoolKeys :
            \/ Pool!GetHit(k) /\ session'[f] = pool[k]
            \/ \E s \in Owned : Pool!GetMiss(k, s) /\ session'[f] = s
            \/ \E s \in Supplied :
                  (Pool!AdoptSame(k, s) \/ Pool!AdoptOther(k, s)) /\ session'[f] = s
    BY StartParts DEF Isolation
  <2>3. /\ PoolProofs!GetHit(k) => life'[pool[k]] = "open"
        /\ \A s \in Owned : PoolProofs!GetMiss(k, s) => life'[s] = "open"
        /\ \A s \in Supplied :
              PoolProofs!AdoptSame(k, s) \/ PoolProofs!AdoptOther(k, s) => life'[s] = "open"
    BY <1>1, <2>1, PoolConstantsHold, PoolProofs!HandsOutOpen DEF PoolOpen
  <2>4. Pool!GetHit(k) => PoolProofs!GetHit(k)
    BY DEF Pool!GetHit, PoolProofs!GetHit, Pool!MoveToEnd, PoolProofs!MoveToEnd,
           Pool!BuiltKeys, PoolProofs!BuiltKeys, Pool!Held, PoolProofs!Held
  <2>5. ASSUME NEW s \in Owned, Pool!GetMiss(k, s) PROVE PoolProofs!GetMiss(k, s)
    BY <2>5, SameGetMiss
  <2>6. ASSUME NEW s \in Supplied, Pool!AdoptSame(k, s) \/ Pool!AdoptOther(k, s)
        PROVE  PoolProofs!AdoptSame(k, s) \/ PoolProofs!AdoptOther(k, s)
    BY <2>6, SameAdopt
  <2> QED BY <2>2, <2>3, <2>4, <2>5, <2>6
<1> QED BY <1>2, <1>3, <1>4, PTL DEF Spec, StartsOnOpenSession

\* A hello goes to the slot of its kind and leaves the other.
LEMMA WithHelloSlots ==
  ASSUME NEW profile \in Mirror!Profiles, profile # NoProfile, NEW h \in Hellos
  PROVE  LET w == WithHello(profile, h)
         IN  /\ ~profile.hello.psk => ~w.hello.psk
             /\ profile.psk_hello # NoHello => w.psk_hello # NoHello
<1>1. NoHello \notin Hellos
  BY BridgeComponents DEF Mirror!MirrorConstants
<1>2. WithHello(profile, h) = [profile EXCEPT ![SlotOf(h)] = h, !.orders_seen = @ \cup {h.order}]
  BY DEF WithHello
<1> QED BY <1>1, <1>2 DEF SlotOf, Mirror!Profiles

LEMMA RequestKeepsProfiles == ASSUME NEW f \in Flows, Request(f) PROVE profiles' = profiles
BY DEF Request, DecideByMode, SendSupplied, SendPreset, MirrorPreset, Remember, connVars

\* A resuming hello never takes the place of a fresh one, and is not lost to
\* one (tls_clienthello), whatever else happens on the connection.
THEOREM HellosKeepTheirSlots == Spec => SlotsHold
<1>1. OwnPresets /\ [Next]_vars =>
        [\A c \in Conns : profiles[c] # NoProfile /\ profiles'[c] # NoProfile =>
            /\ ~profiles[c].hello.psk => ~profiles'[c].hello.psk
            /\ profiles[c].psk_hello # NoHello => profiles'[c].psk_hello # NoHello]_vars
  <2> SUFFICES ASSUME OwnPresets, [Next]_vars, NEW c \in Conns,
                      profiles[c] # NoProfile, profiles'[c] # NoProfile
               PROVE  /\ ~profiles[c].hello.psk => ~profiles'[c].hello.psk
                      /\ profiles[c].psk_hello # NoHello => profiles'[c].psk_hello # NoHello
    OBVIOUS
  <2>1. profiles[c] \in Mirror!Profiles /\ DOMAIN profiles = Conns
    BY DEF OwnPresets, ProfileTells
  <2>2. CASE profiles' = profiles
    BY <2>2
  <2>3. ASSUME NEW d \in Conns, NEW h \in Hellos, TlsClientHello(d, h)
        PROVE  /\ ~profiles[c].hello.psk => ~profiles'[c].hello.psk
               /\ profiles[c].psk_hello # NoHello => profiles'[c].psk_hello # NoHello
    <3>1. profiles'[c] \in {profiles[c], WithHello(profiles[c], h)}
      BY <2>1, <2>3 DEF TlsClientHello
    <3>2. LET w == WithHello(profiles[c], h)
          IN  /\ ~profiles[c].hello.psk => ~w.hello.psk
              /\ profiles[c].psk_hello # NoHello => w.psk_hello # NoHello
      BY <2>1, WithHelloSlots
    <3> QED BY <3>1, <3>2
  <2>4. ASSUME NEW d \in Conns, NEW p \in Prefaces, NextLayer(d, p)
        PROVE  profiles'[c].hello = profiles[c].hello /\ profiles'[c].psk_hello = profiles[c].psk_hello
    <3>1. profiles' = [profiles EXCEPT ![d] = [profiles[d] EXCEPT !.h2 = p]]
      BY <2>4, Zenon DEF NextLayer
    <3>2. PICK profile : profile = [profiles[d] EXCEPT !.h2 = p]
      OBVIOUS
    <3>3. d = c => profile.hello = profiles[c].hello /\ profile.psk_hello = profiles[c].psk_hello
      BY <2>1, <3>2 DEF Mirror!Profiles
    <3>4. profiles' = [profiles EXCEPT ![d] = profile]
      BY <3>1, <3>2
    <3> QED BY <2>1, <3>3, <3>4
  <2>5. ASSUME NEW d \in Conns, ClientDisconnected(d) PROVE profiles'[c] = profiles[c]
    BY <2>1, <2>5 DEF ClientDisconnected, WithoutProfile
  <2> QED
    BY <2>2, <2>3, <2>4, <2>5, RequestKeepsProfiles
    DEF Next, vars, connVars, Running, SetOption, Configure, SweepLoop, Done, TlsFailedClient,
        Passthrough, TargetsSelf, Settle, Answer, AnswerUnencodable, UpstreamFails, Cancel
<1>2. Init => OptionsOK /\ OwnPresets
  BY IsolationInit, OwnPresetsInit DEF Isolation
<1>3. OptionsOK /\ OwnPresets /\ [Next]_vars => (OptionsOK /\ OwnPresets)'
  BY OptionsStep, OwnPresetsStep
<1> QED BY <1>1, <1>2, <1>3, PTL DEF Spec, SlotsHold

\* QUIC's extension is part of the identity (quic_transport_parameters, 57).
QuicById == \A h, g \in Hellos : h.id = g.id => h.quic = g.quic

OverTcp == options["http_version"] # "h3"

OfNoQuic(name) == \A h \in Hellos : h.id = name.id => ~h.quic

\* No connection remembers the preset of a QUIC hello while its requests go
\* over TCP.
TcpPresets ==
    OverTcp => \A c \in Conns : presets_for_conn[c] # NoName => OfNoQuic(presets_for_conn[c])

LEMMA MirrorPresetOverTcp ==
  ASSUME QuicById, OwnPresets, TcpPresets, OverTcp, NEW c \in Conns,
         NEW name \in Mirror!Names \cup {NoName}, MirrorPreset(c, name)
  PROVE  /\ name # NoName => OfNoQuic(name)
         /\ \A d \in Conns : presets_for_conn'[d] \in {presets_for_conn[d], name}
<1>1. CASE presets_for_conn[c] # NoName
  BY <1>1 DEF MirrorPreset, TcpPresets
<1>2. CASE presets_for_conn[c] = NoName /\ ~Mirrorable(profiles[c])
  BY <1>2 DEF MirrorPreset
<1>3. CASE presets_for_conn[c] = NoName /\ Mirrorable(profiles[c])
  <2>1. PICK base \in Bases : Mirror!Ensure(profiles[c], base, base \in Permuting, name)
    BY <1>3 DEF MirrorPreset
  <2>2. /\ profiles[c] \in Mirror!Profiles /\ profiles[c].hello \in Hellos
        /\ ~profiles[c].hello.quic
        /\ presets_for_conn' = [presets_for_conn EXCEPT ![c] = name]
    BY <1>3 DEF MirrorPreset, Mirrorable, Remember, OwnPresets, ProfileTells, OverTcp,
                Mirror!Profiles
  <2>3. name # NoName => name.id = profiles[c].hello.id
    BY <2>1, <2>2, EnsureServes DEF OwnPresets
  <2> QED BY <2>2, <2>3 DEF OfNoQuic, QuicById, OwnPresets
<1> QED BY <1>1, <1>2, <1>3

LEMMA TcpPresetsStep ==
  ASSUME QuicById, "http_version" \notin Changes, OptionsOK, OwnPresets, TcpPresets, [Next]_vars
  PROVE  TcpPresets'
<1> USE DEF configVars, connVars
<1>1. CASE UNCHANGED <<options, presets_for_conn>>
  BY <1>1 DEF TcpPresets, OverTcp, OfNoQuic
<1>2. CASE Running
  BY <1>2
  DEF Running, OptionsChecked, OptionsOK, OptionNames, TcpPresets, OverTcp, OfNoQuic
<1>3. ASSUME NEW n \in OptionNames, SetOption(n) PROVE TcpPresets'
  BY <1>3 DEF SetOption, OptionsOK, TcpPresets, OverTcp, OfNoQuic
<1>4. ASSUME NEW c \in Conns, ClientDisconnected(c) PROVE TcpPresets'
  BY <1>4 DEF ClientDisconnected, WithoutPreset, OwnPresets, TcpPresets, OverTcp, OfNoQuic
<1>5. ASSUME NEW f \in Flows, Request(f) PROVE TcpPresets'
  <2>1. options' = options /\ ConnOf[f] \in Conns
    BY <1>5, BridgeConstants DEF Request
  <2>2. ASSUME NEW name \in Mirror!Names \cup {NoName}, MirrorPreset(ConnOf[f], name)
        PROVE  TcpPresets'
    BY <2>1, <2>2, MirrorPresetOverTcp DEF TcpPresets, OverTcp, OfNoQuic
  <2>3. CASE presets_for_conn' = presets_for_conn
    BY <1>1, <2>1, <2>3
  <2> QED BY <1>5, <2>2, <2>3 DEF Request, DecideByMode
<1> QED
  BY <1>1, <1>2, <1>3, <1>4, <1>5
  DEF Next, vars, Configure, SweepLoop, Done, TlsClientHello, NextLayer, TlsFailedClient,
      Passthrough, TargetsSelf, Settle, Answer, AnswerUnencodable, UpstreamFails, Cancel

\* If the protocol does not change, a QUIC hello is mirrored to h3 only
\* (_mirror_preset, bridge.py:513-514), also by a preset remembered from an
\* earlier request of the connection.
THEOREM QuicStaysOnH3 ==
  ASSUME QuicById, "http_version" \notin Changes
  PROVE  Spec => NoQuicOverTcp
<1> DEFINE Inv == OptionsOK /\ FlowShape /\ OwnPresets /\ TcpPresets
<1>1. Init => Inv
  BY IsolationInit, OwnPresetsInit DEF Isolation, Init, TcpPresets
<1>2. Inv /\ [Next]_vars => Inv'
  BY OptionsStep, FlowShapeStep, OwnPresetsStep, TcpPresetsStep
<1>3. Inv /\ [Next]_vars =>
        [\A f \in Flows, h \in Hellos :
            Starts(f) /\ decision'[f].reason = "mirror" /\ options["http_version"] # "h3" =>
                ~(h.quic /\ h.id = decision'[f].key.preset[2].id)]_vars
  <2> SUFFICES ASSUME Inv, [Next]_vars, NEW f \in Flows, NEW h \in Hellos, Starts(f),
                      decision'[f].reason = "mirror", OverTcp
               PROVE  ~(h.quic /\ h.id = decision'[f].key.preset[2].id)
    BY DEF OverTcp
  <2>1. PICK name \in Mirror!Names :
            /\ name # NoName
            /\ MirrorPreset(ConnOf[f], name)
            /\ decision'[f].key.preset = Minted(name)
    BY MirrorParts
  <2>2. OfNoQuic(name) /\ decision'[f].key.preset[2] = name
    BY <2>1, MirrorPresetOverTcp, BridgeConstants DEF Minted
  <2> QED BY <2>2 DEF OfNoQuic
<1> QED BY <1>1, <1>2, <1>3, PTL DEF Spec, NoQuicOverTcp

-----------------------------------------------------------------------------
(* The catalogue under the hooks                                           *)

LEMMA CatConstantsHold == CatProofs!CatalogueConstants
<1>1. Cat!CatalogueConstants
  BY BridgeComponents
<1> QED
  BY <1>1 DEF Cat!CatalogueConstants, Cat!Observation,
              CatProofs!CatalogueConstants, CatProofs!Observation

\* The catalogue's own invariant, kept by the bridge.
CatSound == CatProofs!CatalogueInv

\* What a hook does to the catalogue is one of its operations, on the
\* fingerprint of a hello that was seen.
LEMMA CatSteps ==
  ASSUME OwnPresets, [Next]_vars
  PROVE  CatProofs!Operation /\ (phase \in {"running", "done"} => phase' \in {"running", "done"})
<1> USE DEF catalogueVars, CatProofs!catalogueVars
<1>1. ASSUME UNCHANGED <<catalogueVars, phase>>
      PROVE  CatProofs!Operation /\ phase' = phase
  BY <1>1 DEF CatProofs!Operation
<1>2. \A c \in Conns : profiles[c] # NoProfile => profiles[c].hello.id \in Mirror!Ids
  BY DEF OwnPresets, ProfileTells, Mirror!Profiles, Mirror!Ids
<1>3. CASE Configure
  BY <1>3
  DEF Configure, Pool!SetMaxSessions, Cat!SetDirectory, Cat!CmdCatalogueSave, Cat!Flush,
      CatProofs!Operation, CatProofs!SetDirectory, CatProofs!CmdCatalogueSave, CatProofs!Flush
<1>4. CASE Done
  BY <1>4
  DEF Done, Pool!Close, Cat!FinalFlush, Cat!Flush, CatProofs!Operation, CatProofs!FinalFlush,
      CatProofs!Flush
<1>5. ASSUME NEW c \in Conns, NEW h \in Hellos, TlsClientHello(c, h)
      PROVE  CatProofs!Operation /\ phase' = phase
  <2>1. CatProofs!NoteHello(h.id) /\ h.id \in Mirror!Ids /\ phase' = phase
    BY <1>5 DEF TlsClientHello, Cat!NoteHello, Cat!Unseen, CatProofs!NoteHello,
                CatProofs!Unseen, Mirror!Ids
  <2> QED BY <2>1 DEF CatProofs!Operation
<1>6. ASSUME NEW c \in Conns, NEW p \in Prefaces, NextLayer(c, p)
      PROVE  CatProofs!Operation /\ phase' = phase
  <2>1. CatProofs!NoteH2(profiles[c].hello.id, p) /\ phase' = phase
        /\ profiles[c].hello.id \in Mirror!Ids
    BY <1>2, <1>6
    DEF NextLayer, Cat!NoteH2, Cat!WrittenBut, CatProofs!NoteH2, CatProofs!WrittenBut
  <2> QED BY <2>1 DEF CatProofs!Operation
<1>7. ASSUME NEW c \in Conns, TlsFailedClient(c) PROVE CatProofs!Operation /\ phase' = phase
  <2>1. CASE profiles[c] # NoProfile
    <3>1. CatProofs!NoteRefused(profiles[c].hello.id) /\ profiles[c].hello.id \in Mirror!Ids
      BY <1>2, <1>7, <2>1
      DEF TlsFailedClient, Cat!NoteRefused, Cat!MayNote, Cat!Noted,
          CatProofs!NoteRefused, CatProofs!MayNote, CatProofs!Noted
    <3> QED BY <1>7, <3>1 DEF TlsFailedClient, CatProofs!Operation
  <2> QED BY <1>1, <1>7, <2>1 DEF TlsFailedClient
<1>8. ASSUME NEW c \in Conns, ClientDisconnected(c) PROVE CatProofs!Operation /\ phase' = phase
  <2>1. CASE profiles[c] # NoProfile /\ c \notin requested
    <3>1. CatProofs!RecordObserved(profiles[c].hello.id) /\ profiles[c].hello.id \in Mirror!Ids
      BY <1>2, <1>8, <2>1
      DEF ClientDisconnected, Observe, Cat!RecordObserved, Cat!MayNote, Cat!Noted, Cat!Flush,
          CatProofs!RecordObserved, CatProofs!MayNote, CatProofs!Noted, CatProofs!Flush
    <3> QED BY <1>8, <3>1 DEF ClientDisconnected, CatProofs!Operation
  <2> QED BY <1>1, <1>8, <2>1 DEF ClientDisconnected, Observe
<1>9. ASSUME NEW f \in Flows, Answer(f) PROVE CatProofs!Operation /\ phase' = phase
  <2> DEFINE c == ConnOf[f]
  <2>1. CASE profiles[c] # NoProfile
    <3>1. CatProofs!NoteRequest(profiles[c].hello.id) /\ profiles[c].hello.id \in Mirror!Ids
      BY <1>2, <1>9, <2>1, BridgeConstants
      DEF Answer, Cat!NoteRequest, Cat!MayNote, Cat!Noted,
          CatProofs!NoteRequest, CatProofs!MayNote, CatProofs!Noted
    <3> QED BY <1>9, <3>1 DEF Answer, CatProofs!Operation
  <2> QED BY <1>1, <1>9, <2>1 DEF Answer
<1>10. ASSUME NEW f \in Flows, Request(f) PROVE UNCHANGED <<catalogueVars, phase>>
  BY <1>10, RequestPhase DEF Request
<1> QED
  BY <1>1, <1>3, <1>4, <1>5, <1>6, <1>7, <1>8, <1>9, <1>10
  DEF Next, vars, Running, SetOption, SweepLoop, Pool!Sweep, Passthrough, TargetsSelf, Settle,
      AnswerUnencodable, UpstreamFails, Cancel

LEMMA CatInit == Init => CatSound
<1>1. Cat!Init => CatProofs!Init
  BY DEF Cat!Init, CatProofs!Init
<1> QED BY <1>1, CatConstantsHold, CatProofs!CatalogueInvInit DEF Init, CatSound

LEMMA CatStep ==
  ASSUME CatSound, OwnPresets, [Next]_vars PROVE CatSound'
<1>1. phase \in {"running", "done"}
  BY DEF CatSound, CatProofs!CatalogueInv, CatProofs!CatalogueTypeOK
<1> QED BY <1>1, CatSteps, CatConstantsHold, CatProofs!OperationKeepsInv DEF CatSound

\* Through the hooks too, in any order and with requests and clients in
\* flight, what the catalogue remembers as written is whole on disk.
THEOREM AddonRemembersFiles == Spec => []Cat!WrittenIsOnDisk
<1>1. CatSound => Cat!WrittenIsOnDisk
  BY DEF CatSound, CatProofs!CatalogueInv, CatProofs!WrittenIsOnDisk, Cat!WrittenIsOnDisk
<1>2. Init => OptionsOK /\ OwnPresets /\ CatSound
  BY IsolationInit, OwnPresetsInit, CatInit DEF Isolation
<1>3. OptionsOK /\ OwnPresets /\ CatSound /\ [Next]_vars => (OptionsOK /\ OwnPresets /\ CatSound)'
  BY OptionsStep, OwnPresetsStep, CatStep
<1> QED BY <1>1, <1>2, <1>3, PTL DEF Spec

-----------------------------------------------------------------------------
(* Connections are counted once                                            *)

\* The connections whose profile has fingerprint i.
Holders(i) == {c \in Conns : profiles[c] # NoProfile /\ profiles[c].hello.id = i}

\* No profile is of a fingerprint the catalogue has not seen.
ProfilesSeen == \A c \in Conns : profiles[c] # NoProfile => entries[profiles[c].hello.id] # NoEntry

Accounted == ProfilesSeen /\ HelloAccounting

LEMMA HoldersCount ==
  ASSUME IsFiniteSet(Conns), NEW i
  PROVE  IsFiniteSet(Holders(i)) /\ Cardinality(Holders(i)) \in Nat
BY FS_Subset, FS_CardinalityType DEF Holders

\* An entry that exists has counters.
LEMMA EntryCounts ==
  ASSUME CatSound, NEW i \in Mirror!Ids, entries[i] # NoEntry
  PROVE  /\ entries[i] \in Cat!Observation
         /\ entries[i].connections \in Nat /\ entries[i].no_request \in Nat
BY DEF CatSound, CatProofs!CatalogueInv, CatProofs!CatalogueTypeOK, CatProofs!Observation,
       Cat!Observation

\* A step after which no fingerprint has more connections uncounted than before.
LEMMA FewerKeep ==
  ASSUME IsFiniteSet(Conns), CatSound, Accounted, ProfilesSeen',
         \A i \in Mirror!Ids : entries'[i] # NoEntry /\ entries[i] # NoEntry =>
            /\ entries'[i].connections = entries[i].connections
            /\ entries'[i].no_request = entries[i].no_request,
         \A i \in Mirror!Ids : entries'[i] # NoEntry => entries[i] # NoEntry,
         \A i \in Mirror!Ids : Holders(i)' \subseteq Holders(i)
  PROVE  Accounted'
<1> SUFFICES ASSUME NEW i \in Mirror!Ids, entries'[i] # NoEntry
             PROVE  entries'[i].no_request + Cardinality(Holders(i)') <= entries'[i].connections
  BY DEF Accounted, HelloAccounting, Cat!Seen, Holders
<1>1. entries[i].no_request + Cardinality(Holders(i)) <= entries[i].connections
  BY DEF Accounted, HelloAccounting, Cat!Seen, Holders
<1>2. Cardinality(Holders(i)') <= Cardinality(Holders(i)) /\ Cardinality(Holders(i)') \in Nat
  BY HoldersCount, FS_Subset, FS_CardinalityType
<1> QED BY <1>1, <1>2, HoldersCount, EntryCounts

\* What a hello makes of the profile of its connection.
LEMMA HelloOf ==
  ASSUME NEW c \in Conns, ProfileTells(c), NEW h \in Hellos
  PROVE  \/ WithHello(profiles[c], h).hello = h
         \/ /\ profiles[c] # NoProfile
            /\ WithHello(profiles[c], h).hello = profiles[c].hello
<1>1. CASE profiles[c] = NoProfile
  <2>1. WithHello(profiles[c], h).hello = h
    BY <1>1 DEF WithHello, SlotOf
  <2> QED BY <2>1
<1>2. CASE profiles[c] # NoProfile
  <2>1. profiles[c] \in Mirror!Profiles
    BY <1>2 DEF ProfileTells
  <2>2. WithHello(profiles[c], h) =
          [profiles[c] EXCEPT ![SlotOf(h)] = h, !.orders_seen = @ \cup {h.order}]
    BY <1>2 DEF WithHello
  <2> QED BY <1>2, <2>1, <2>2 DEF SlotOf, Mirror!Profiles
<1> QED BY <1>1, <1>2

(* One element more adds at most one to the size of a finite set.          *)
LEMMA OneMore ==
  ASSUME NEW S, NEW x, IsFiniteSet(S)
  PROVE  IsFiniteSet(S \cup {x}) /\ Cardinality(S \cup {x}) <= Cardinality(S) + 1
<1>1. IsFiniteSet(S \cup {x})
  BY FS_AddElement
<1>2. Cardinality(S \cup {x}) = IF x \in S THEN Cardinality(S) ELSE Cardinality(S) + 1
  BY FS_AddElement
<1>3. Cardinality(S) \in Nat
  BY FS_CardinalityType
<1> QED BY <1>1, <1>2, <1>3

(* A hello is one connection more, and makes at most one holder more.      *)
LEMMA HelloCounts ==
  ASSUME IsFiniteSet(Conns), CatSound, OwnPresets, Accounted,
         NEW c \in Conns, NEW h \in Hellos, TlsClientHello(c, h)
  PROVE  Accounted'
<1> DEFINE id == h.id
           new == WithHello(profiles[c], h)
<1>1. /\ profiles' = [profiles EXCEPT ![c] = new]
      /\ Cat!NoteHello(id) /\ id \in Mirror!Ids /\ h \in Says[c]
  BY DEF TlsClientHello, Mirror!Ids
<1>2. DOMAIN profiles = Conns /\ \A d \in Conns : ProfileTells(d)
  BY DEF OwnPresets
<1>3. new.hello.id = id \/ (profiles[c] # NoProfile /\ new.hello.id = profiles[c].hello.id)
  BY <1>2, HelloOf
<1> HIDE DEF new
<1>4. \A d \in Conns : profiles'[d] = IF d = c THEN new ELSE profiles[d]
  BY <1>1, <1>2
<1>5. \A i \in Mirror!Ids : Holders(i)' \subseteq Holders(i) \cup (IF i = id THEN {c} ELSE {})
  BY <1>3, <1>4 DEF Holders
<1>6. /\ \A i \in Mirror!Ids \ {id} : entries'[i] = entries[i]
      /\ entries'[id] # NoEntry
      /\ entries[id] = NoEntry =>
            entries'[id].connections = 1 /\ entries'[id].no_request = 0
      /\ entries[id] # NoEntry =>
            /\ entries'[id].connections = entries[id].connections + 1
            /\ entries'[id].no_request = entries[id].no_request
  <2>1. entries \in [Mirror!Ids -> Cat!Observation \cup {NoEntry}]
    BY DEF CatSound, CatProofs!CatalogueInv, CatProofs!CatalogueTypeOK, CatProofs!Observation,
           Cat!Observation
  <2> DEFINE entry == IF entries[id] = NoEntry THEN [Cat!Unseen EXCEPT !.connections = 1]
                      ELSE [entries[id] EXCEPT !.connections = @ + 1]
  <2>2. entries' = [entries EXCEPT ![id] = entry]
    BY <1>1 DEF Cat!NoteHello
  <2>3. entry \in Cat!Observation
    BY <1>1, <2>1 DEF Cat!Observation, Cat!Unseen
  <2>4. /\ entries[id] = NoEntry => entry.connections = 1 /\ entry.no_request = 0
        /\ entries[id] # NoEntry => /\ entry.connections = entries[id].connections + 1
                                    /\ entry.no_request = entries[id].no_request
    BY <1>1, <2>1 DEF Cat!Observation, Cat!Unseen
  <2>5. NoEntry \notin Cat!Observation
    BY BridgeComponents DEF Cat!CatalogueConstants
  <2> HIDE DEF entry
  <2> QED BY <1>1, <2>1, <2>2, <2>3, <2>4, <2>5
<1>7. ProfilesSeen'
  <2> SUFFICES ASSUME NEW d \in Conns, profiles'[d] # NoProfile
               PROVE  entries'[profiles'[d].hello.id] # NoEntry
    BY DEF ProfilesSeen
  <2>1. \/ profiles'[d].hello.id = id
        \/ profiles[d] # NoProfile /\ profiles'[d].hello.id = profiles[d].hello.id
    BY <1>3, <1>4
  <2>2. profiles[d] # NoProfile => entries[profiles[d].hello.id] # NoEntry
                                   /\ profiles[d].hello.id \in Mirror!Ids
    BY <1>2 DEF Accounted, ProfilesSeen, ProfileTells, Mirror!Profiles, Mirror!Ids
  <2> QED BY <1>6, <2>1, <2>2
<1>8. ASSUME NEW i \in Mirror!Ids, entries'[i] # NoEntry
      PROVE  entries'[i].no_request + Cardinality(Holders(i)') <= entries'[i].connections
  <2>1. entries[i] # NoEntry =>
            entries[i].no_request + Cardinality(Holders(i)) <= entries[i].connections
    BY DEF Accounted, HelloAccounting, Cat!Seen, Holders
  <2>2. CASE i # id
    <3>1. Cardinality(Holders(i)') <= Cardinality(Holders(i)) /\ Cardinality(Holders(i)') \in Nat
      BY <1>5, <2>2, HoldersCount, FS_Subset, FS_CardinalityType
    <3> QED BY <1>6, <1>8, <2>1, <2>2, <3>1, HoldersCount, EntryCounts
  <2>3. CASE i = id
    <3>0. IsFiniteSet(Holders(i)) /\ Cardinality(Holders(i)) \in Nat
      BY HoldersCount
    <3>1. /\ IsFiniteSet(Holders(i) \cup {c})
          /\ Cardinality(Holders(i) \cup {c}) <= Cardinality(Holders(i)) + 1
      BY <3>0, OneMore
    <3>2. Cardinality(Holders(i)') <= Cardinality(Holders(i)) + 1
          /\ Cardinality(Holders(i)') \in Nat
      BY <1>5, <2>3, <3>1, HoldersCount, FS_Subset, FS_CardinalityType
    <3>3. CASE entries[i] # NoEntry
      BY <1>6, <2>1, <2>3, <3>2, <3>3, HoldersCount, EntryCounts
    <3>4. CASE entries[i] = NoEntry
      <4>1. Holders(i) = {}
        BY <3>4 DEF Holders, Accounted, ProfilesSeen
      <4> QED BY <1>6, <2>3, <3>2, <3>4, <4>1, FS_EmptySet
    <3> QED BY <3>3, <3>4
  <2> QED BY <2>2, <2>3
<1> QED BY <1>7, <1>8 DEF Accounted, HelloAccounting, Cat!Seen, Holders

(* A connection that ends holds nothing, and is counted as one that asked  *)
(* for nothing at most once.                                               *)
LEMMA DisconnectionCounts ==
  ASSUME IsFiniteSet(Conns), CatSound, OwnPresets, Accounted,
         NEW c \in Conns, ClientDisconnected(c)
  PROVE  Accounted'
<1>1. DOMAIN profiles = Conns /\ \A d \in Conns : ProfileTells(d)
  BY DEF OwnPresets
<1>2. \A d \in Conns : profiles'[d] = IF d = c THEN NoProfile ELSE profiles[d]
  BY <1>1 DEF ClientDisconnected, WithoutProfile
<1>3. \A i \in Mirror!Ids : Holders(i)' = Holders(i) \ {c}
  BY <1>2 DEF Holders
<1>4. CASE UNCHANGED entries
  <2>1. ProfilesSeen'
    BY <1>2, <1>4 DEF Accounted, ProfilesSeen
  <2> QED BY <1>3, <1>4, <2>1, FewerKeep
<1>5. CASE ~UNCHANGED entries
  <2> DEFINE id == profiles[c].hello.id
  <2>1. profiles[c] # NoProfile /\ entries' = Cat!Noted(id, "no_request")
    BY <1>5 DEF ClientDisconnected, Observe, catalogueVars, Cat!RecordObserved, Cat!Flush
  <2>2. id \in Mirror!Ids /\ entries[id] # NoEntry
    BY <1>1, <2>1 DEF ProfileTells, Mirror!Profiles, Mirror!Ids, Accounted, ProfilesSeen
  <2>3. /\ \A i \in Mirror!Ids \ {id} : entries'[i] = entries[i]
        /\ entries'[id] # NoEntry
        /\ entries'[id].connections = entries[id].connections
        /\ entries'[id].no_request = entries[id].no_request + 1
    <3>1. entries \in [Mirror!Ids -> Cat!Observation \cup {NoEntry}]
      BY DEF CatSound, CatProofs!CatalogueInv, CatProofs!CatalogueTypeOK, CatProofs!Observation,
             Cat!Observation
    <3> DEFINE entry == [entries[id] EXCEPT !.no_request = @ + 1]
    <3>2. entries' = [entries EXCEPT ![id] = entry]
      BY <2>1, <2>2 DEF Cat!Noted
    <3>3. /\ entry \in Cat!Observation /\ entry.connections = entries[id].connections
          /\ entry.no_request = entries[id].no_request + 1
      BY <2>2, <3>1 DEF Cat!Observation
    <3>4. NoEntry \notin Cat!Observation
      BY BridgeComponents DEF Cat!CatalogueConstants
    <3> HIDE DEF entry
    <3> QED BY <2>2, <3>1, <3>2, <3>3, <3>4
  <2>4. ProfilesSeen'
    <3>1. \A d \in Conns : profiles[d] # NoProfile => profiles[d].hello.id \in Mirror!Ids
      BY <1>1 DEF ProfileTells, Mirror!Profiles, Mirror!Ids
    <3> QED BY <1>2, <2>3, <3>1 DEF Accounted, ProfilesSeen
  <2>5. ASSUME NEW i \in Mirror!Ids, entries'[i] # NoEntry
        PROVE  entries'[i].no_request + Cardinality(Holders(i)') <= entries'[i].connections
    <3>1. entries[i] # NoEntry =>
              entries[i].no_request + Cardinality(Holders(i)) <= entries[i].connections
      BY DEF Accounted, HelloAccounting, Cat!Seen, Holders
    <3>2. Cardinality(Holders(i)') =
              IF c \in Holders(i) THEN Cardinality(Holders(i)) - 1 ELSE Cardinality(Holders(i))
      BY <1>3, HoldersCount, FS_RemoveElement
    <3>3. c \in Holders(i) <=> i = id
      BY <2>1 DEF Holders
    <3> QED BY <2>2, <2>3, <2>5, <3>1, <3>2, <3>3, HoldersCount, EntryCounts
  <2> QED BY <2>4, <2>5 DEF Accounted, HelloAccounting, Cat!Seen, Holders
<1> QED BY <1>4, <1>5

\* Counting requests or refusals, or keeping an opening, counts no connection.
LEMMA OtherFieldsKeep ==
  ASSUME IsFiniteSet(Conns), CatSound, OwnPresets, Accounted,
         \/ \E i \in Mirror!Ids : Cat!NoteRequest(i) \/ Cat!NoteRefused(i)
         \/ \E i \in Mirror!Ids, p \in Prefaces : Cat!NoteH2(i, p),
         \A c \in Conns : profiles'[c] # NoProfile =>
            profiles[c] # NoProfile /\ profiles'[c].hello = profiles[c].hello
  PROVE  Accounted'
<1>1. entries \in [Mirror!Ids -> Cat!Observation \cup {NoEntry}]
  BY DEF CatSound, CatProofs!CatalogueInv, CatProofs!CatalogueTypeOK, CatProofs!Observation,
         Cat!Observation
<1>2. NoEntry \notin Cat!Observation
  BY BridgeComponents DEF Cat!CatalogueConstants
<1>3. \A i \in Mirror!Ids :
         /\ entries'[i] # NoEntry <=> entries[i] # NoEntry
         /\ entries[i] # NoEntry => /\ entries'[i].connections = entries[i].connections
                                    /\ entries'[i].no_request = entries[i].no_request
  <2>1. ASSUME NEW i \in Mirror!Ids, NEW field \in {"requests", "refused"},
               entries' = Cat!Noted(i, field), entries[i] # NoEntry
        PROVE  \E entry \in Cat!Observation :
                  /\ entries' = [entries EXCEPT ![i] = entry]
                  /\ entry.connections = entries[i].connections
                  /\ entry.no_request = entries[i].no_request
    <3> DEFINE entry == [entries[i] EXCEPT ![field] = @ + 1]
    <3>1. entries' = [entries EXCEPT ![i] = entry]
      BY <2>1 DEF Cat!Noted
    <3>2. /\ entry \in Cat!Observation /\ entry.connections = entries[i].connections
          /\ entry.no_request = entries[i].no_request
      BY <1>1, <2>1 DEF Cat!Observation
    <3> HIDE DEF entry
    <3> QED BY <3>1, <3>2
  <2>2. ASSUME NEW i \in Mirror!Ids, NEW p \in Prefaces, Cat!NoteH2(i, p), ~UNCHANGED entries
        PROVE  \E entry \in Cat!Observation :
                  /\ entries[i] # NoEntry
                  /\ entries' = [entries EXCEPT ![i] = entry]
                  /\ entry.connections = entries[i].connections
                  /\ entry.no_request = entries[i].no_request
    <3> DEFINE entry == [entries[i] EXCEPT !.h2 = p]
    <3>1. entries' = [entries EXCEPT ![i] = entry] /\ entries[i] # NoEntry
      BY <2>2 DEF Cat!NoteH2
    <3>2. /\ entry \in Cat!Observation /\ entry.connections = entries[i].connections
          /\ entry.no_request = entries[i].no_request
      BY <1>1, <2>2, <3>1 DEF Cat!Observation
    <3> HIDE DEF entry
    <3> QED BY <3>1, <3>2
  <2>3. CASE UNCHANGED entries
    BY <2>3
  <2>4. CASE ~UNCHANGED entries
    <3>1. PICK i \in Mirror!Ids : \E entry \in Cat!Observation :
              /\ entries[i] # NoEntry
              /\ entries' = [entries EXCEPT ![i] = entry]
              /\ entry.connections = entries[i].connections
              /\ entry.no_request = entries[i].no_request
      <4>1. ASSUME NEW i \in Mirror!Ids, Cat!NoteRequest(i) \/ Cat!NoteRefused(i)
            PROVE  /\ entries[i] # NoEntry
                   /\ \E field \in {"requests", "refused"} : entries' = Cat!Noted(i, field)
        BY <2>4, <4>1 DEF Cat!NoteRequest, Cat!NoteRefused, Cat!Noted
      <4> QED BY <2>1, <2>2, <2>4, <4>1
    <3> QED BY <1>1, <1>2, <3>1
  <2> QED BY <2>3, <2>4
<1>4. \A c \in Conns : profiles[c] # NoProfile => profiles[c].hello.id \in Mirror!Ids
  BY DEF OwnPresets, ProfileTells, Mirror!Profiles, Mirror!Ids
<1>5. ProfilesSeen'
  BY <1>3, <1>4 DEF Accounted, ProfilesSeen
<1>6. \A i \in Mirror!Ids : Holders(i)' \subseteq Holders(i)
  BY DEF Holders
<1> QED BY <1>3, <1>5, <1>6, FewerKeep

\* A connection is counted once when it says hello, and leaves the count of
\* those that ended without a request alone until it has ended so
\* (note_hello, note_no_request), whatever other clients do.
THEOREM HellosAreAccounted ==
  ASSUME IsFiniteSet(Conns)
  PROVE  Spec => []HelloAccounting
<1> DEFINE Inv == OptionsOK /\ OwnPresets /\ CatSound /\ Accounted
<1>1. Init => Inv
  <2>1. Init => Accounted
    BY DEF Init, Cat!Init, Accounted, ProfilesSeen, HelloAccounting, Cat!Seen
  <2> QED BY <2>1, IsolationInit, OwnPresetsInit, CatInit DEF Isolation
<1>2. Inv /\ [Next]_vars => Inv'
  <2> SUFFICES ASSUME Inv, [Next]_vars PROVE Accounted'
    BY OptionsStep, OwnPresetsStep, CatStep
  <2> USE DEF connVars, catalogueVars
  <2>1. CASE UNCHANGED <<profiles, entries>>
    BY <2>1 DEF Accounted, ProfilesSeen, HelloAccounting, Cat!Seen
  <2>2. CASE Configure
    BY <2>1, <2>2
    DEF Configure, Cat!SetDirectory, Cat!CmdCatalogueSave, Cat!Flush
  <2>3. CASE Done
    BY <2>1, <2>3 DEF Done, Cat!FinalFlush, Cat!Flush
  <2>4. ASSUME NEW c \in Conns, NEW p \in Prefaces, NextLayer(c, p) PROVE Accounted'
    <3>1. /\ profiles[c] \in Mirror!Profiles
          /\ profiles' = [profiles EXCEPT ![c] = [profiles[c] EXCEPT !.h2 = p]]
          /\ Cat!NoteH2(profiles[c].hello.id, p)
      BY <2>4, Zenon DEF NextLayer, OwnPresets, ProfileTells
    <3>2. PICK profile : profile = [profiles[c] EXCEPT !.h2 = p]
      OBVIOUS
    <3>3. profile.hello = profiles[c].hello
      BY <3>1, <3>2, WithPrefaceTells
    <3>4. profiles' = [profiles EXCEPT ![c] = profile]
      BY <3>1, <3>2
    <3>5. profiles[c] # NoProfile /\ profiles[c].hello.id \in Mirror!Ids
      BY <2>4, <3>1 DEF NextLayer, Mirror!Profiles, Mirror!Ids
    <3> QED BY <3>1, <3>3, <3>4, <3>5, OtherFieldsKeep DEF OwnPresets
  <2>5. ASSUME NEW c \in Conns, TlsFailedClient(c) PROVE Accounted'
    <3>1. CASE profiles[c] # NoProfile
      <4>1. Cat!NoteRefused(profiles[c].hello.id) /\ UNCHANGED profiles
        BY <2>5, <3>1 DEF TlsFailedClient
      <4>2. profiles[c].hello.id \in Mirror!Ids
        BY <3>1 DEF OwnPresets, ProfileTells, Mirror!Profiles, Mirror!Ids
      <4> QED BY <4>1, <4>2, OtherFieldsKeep
    <3> QED BY <2>1, <2>5, <3>1 DEF TlsFailedClient
  <2>6. ASSUME NEW f \in Flows, Answer(f) PROVE Accounted'
    <3>1. CASE profiles[ConnOf[f]] # NoProfile
      <4>1. Cat!NoteRequest(profiles[ConnOf[f]].hello.id) /\ UNCHANGED profiles
        BY <2>6, <3>1 DEF Answer
      <4>2. profiles[ConnOf[f]].hello.id \in Mirror!Ids
        BY <3>1, BridgeConstants DEF OwnPresets, ProfileTells, Mirror!Profiles, Mirror!Ids
      <4> QED BY <4>1, <4>2, OtherFieldsKeep
    <3> QED BY <2>1, <2>6, <3>1 DEF Answer
  <2>7. ASSUME NEW f \in Flows, Request(f) PROVE Accounted'
    BY <2>1, <2>7, RequestKeepsProfiles DEF Request
  <2> QED
    BY <2>1, <2>2, <2>3, <2>4, <2>5, <2>6, <2>7, HelloCounts, DisconnectionCounts
    DEF Next, vars, Running, SetOption, SweepLoop, Passthrough, TargetsSelf, Settle,
        AnswerUnencodable, UpstreamFails, Cancel
<1>3. Inv => HelloAccounting
  BY DEF Accounted
<1> HIDE DEF Inv
<1> QED BY <1>1, <1>2, <1>3, PTL DEF Spec

-----------------------------------------------------------------------------
(* Type correctness                                                        *)

\* Of the connections: what is remembered of one ends with it.
ConnTypes ==
    /\ conn \in [Conns -> {"open", "refused", "gone"}]
    /\ requested \subseteq Conns
    /\ \A c \in Conns : conn[c] = "gone" =>
          profiles[c] = NoProfile /\ presets_for_conn[c] = NoName

\* Of the requests: one that is awaited has a decision and a session.
FlowTypes ==
    /\ task \in [Flows -> {"new", "awaiting", "bridged", "failed", "passed", "raised", "cancelled"}]
    /\ \A f \in Flows : task[f] = "awaiting" =>
          decision[f] # NoDecision /\ session[f] \in Owned \cup Supplied
    /\ connected \subseteq Flows

\* Of the options.
OptionTypes ==
    /\ options \in [OptionNames -> {"static"} \cup UNION {Values[n] : n \in OptionNames}]
    /\ started \in BOOLEAN /\ replays \in BOOLEAN /\ fixture \in BOOLEAN

\* Of the keywords: a session has them once it was built.
BuiltTypes ==
    /\ DOMAIN built = Owned
    /\ \A s \in Owned : built[s] = NoKwargs <=> life[s] = "unborn"

\* What is kept by connection is a function of the connections.
Maps ==
    /\ profiles = [c \in Conns |-> profiles[c]]
    /\ presets_for_conn = [c \in Conns |-> presets_for_conn[c]]

LEMMA MapsStep ==
  ASSUME Maps, [Next]_vars
  PROVE  Maps'
<1> USE DEF connVars
<1>1. CASE UNCHANGED <<profiles, presets_for_conn>>
  BY <1>1 DEF Maps
<1>2. ASSUME NEW c \in Conns, NEW x, profiles' = [profiles EXCEPT ![c] = x]
      PROVE  profiles' = [d \in Conns |-> profiles'[d]]
  BY <1>2 DEF Maps
<1>3. ASSUME NEW c \in Conns, NEW x, presets_for_conn' = [presets_for_conn EXCEPT ![c] = x]
      PROVE  presets_for_conn' = [d \in Conns |-> presets_for_conn'[d]]
  BY <1>3 DEF Maps
<1>4. ASSUME NEW c \in Conns, NEW h \in Hellos, TlsClientHello(c, h) PROVE Maps'
  BY <1>2, <1>4 DEF TlsClientHello, Maps
<1>5. ASSUME NEW c \in Conns, NEW p \in Prefaces, NextLayer(c, p) PROVE Maps'
  <2>1. profiles' = [profiles EXCEPT ![c] = [profiles[c] EXCEPT !.h2 = p]]
    BY <1>5, Zenon DEF NextLayer
  <2>2. PICK x : x = [profiles[c] EXCEPT !.h2 = p]
    OBVIOUS
  <2>3. profiles' = [d \in Conns |-> profiles'[d]]
    BY <1>2, <2>1, <2>2
  <2> QED BY <1>5, <2>3 DEF NextLayer, Maps
<1>6. ASSUME NEW c \in Conns, ClientDisconnected(c) PROVE Maps'
  BY <1>2, <1>3, <1>6 DEF ClientDisconnected, WithoutProfile, WithoutPreset, Maps
<1>7. ASSUME NEW f \in Flows, Request(f) PROVE Maps'
  <2>1. profiles' = profiles /\ ConnOf[f] \in Conns
    BY <1>7, BridgeConstants DEF Request
  <2>2. \/ presets_for_conn' = presets_for_conn
        \/ \E x : presets_for_conn' = [presets_for_conn EXCEPT ![ConnOf[f]] = x]
    BY <1>7 DEF Request, DecideByMode, MirrorPreset, Remember
  <2> QED BY <1>3, <2>1, <2>2 DEF Maps
<1> QED
  BY <1>1, <1>4, <1>5, <1>6, <1>7
  DEF Next, vars, Running, SetOption, Configure, SweepLoop, Done, TlsFailedClient,
      Passthrough, TargetsSelf, Settle, Answer, AnswerUnencodable, UpstreamFails, Cancel

LEMMA OptionTypesStep == OptionTypes /\ [Next]_vars => OptionTypes'
<1> SUFFICES ASSUME OptionTypes, [Next]_vars PROVE OptionTypes'
  OBVIOUS
<1> USE DEF configVars
<1>1. CASE UNCHANGED configVars
  BY <1>1 DEF OptionTypes
<1>2. CASE Running
  BY <1>2 DEF Running, OptionsChecked, OptionTypes, OptionNames
<1>3. ASSUME NEW n \in OptionNames, SetOption(n) PROVE OptionTypes'
  <2>1. PICK v \in Values[n] : options' = [options EXCEPT ![n] = v]
    BY <1>3 DEF SetOption
  <2>2. v \in UNION {Values[m] : m \in OptionNames}
    BY <2>1
  <2> QED BY <1>3, <2>1, <2>2 DEF SetOption, OptionTypes
<1> QED
  BY <1>1, <1>2, <1>3
  DEF Next, vars, Configure, SweepLoop, Done, TlsClientHello, NextLayer, TlsFailedClient,
      ClientDisconnected, Passthrough, TargetsSelf, Request, Settle, Answer,
      AnswerUnencodable, UpstreamFails, Cancel

LEMMA ConnTypesStep ==
  ASSUME OwnPresets, ConnTypes, [Next]_vars
  PROVE  ConnTypes'
<1> USE DEF connVars
<1>1. CASE UNCHANGED connVars
  BY <1>1 DEF ConnTypes
<1>2. ASSUME NEW c \in Conns, conn[c] = "open", UNCHANGED <<conn, presets_for_conn, requested>>,
             \A d \in Conns : d # c => profiles'[d] = profiles[d]
      PROVE  ConnTypes'
  BY <1>2 DEF ConnTypes
<1>3. ASSUME NEW c \in Conns, NEW h \in Hellos, TlsClientHello(c, h) PROVE ConnTypes'
  BY <1>2, <1>3 DEF TlsClientHello, OwnPresets
<1>4. ASSUME NEW c \in Conns, NEW p \in Prefaces, NextLayer(c, p) PROVE ConnTypes'
  <2>1. \A d \in Conns : d # c => profiles'[d] = profiles[d]
    BY <1>4 DEF NextLayer, OwnPresets
  <2> QED BY <1>2, <1>4, <2>1 DEF NextLayer
<1>5. ASSUME NEW c \in Conns, TlsFailedClient(c) PROVE ConnTypes'
  BY <1>5 DEF TlsFailedClient, ConnTypes
<1>6. ASSUME NEW c \in Conns, ClientDisconnected(c) PROVE ConnTypes'
  BY <1>6 DEF ClientDisconnected, WithoutProfile, WithoutPreset, ConnTypes, OwnPresets
<1>7. ASSUME NEW f \in Flows, Request(f) PROVE ConnTypes'
  <2>1. /\ ConnOf[f] \in Conns /\ conn[ConnOf[f]] = "open"
        /\ UNCHANGED <<conn, profiles, requested>>
    BY <1>7, BridgeConstants DEF Request, Arrives
  <2>2. \A d \in Conns : d # ConnOf[f] => presets_for_conn'[d] = presets_for_conn[d]
    BY <1>7 DEF Request, DecideByMode, MirrorPreset, Remember, OwnPresets
  <2> QED BY <2>1, <2>2 DEF ConnTypes
<1>8. ASSUME NEW f \in Flows, Answer(f) PROVE ConnTypes'
  BY <1>8, BridgeConstants DEF Answer, ConnTypes
<1> QED
  BY <1>1, <1>3, <1>4, <1>5, <1>6, <1>7, <1>8
  DEF Next, vars, Running, SetOption, Configure, SweepLoop, Done, Passthrough, TargetsSelf,
      Settle, AnswerUnencodable, UpstreamFails, Cancel

\* A decision is not the absent one.
LEMMA DecisionIsOne ==
  ASSUME OptionsOK, NEW reason \in {"callable", "rule", "static", "mirror"}, NEW k \in PoolKeys
  PROVE  Decision(reason, k) # NoDecision
<1>1. options["session_scope"] \in Values["session_scope"]
  BY DEF OptionsOK, OptionNames
<1>2. Decision(reason, k) \in [reason : {"callable", "rule", "static", "mirror"},
                               scope : Values["session_scope"], key : PoolKeys]
  BY <1>1 DEF Decision
<1> QED BY <1>2, BridgeComponents

LEMMA FlowTypesStep ==
  ASSUME Isolation, FlowTypes, [Next]_vars
  PROVE  FlowTypes'
<1> USE DEF flowVars
<1>0. DOMAIN task = Flows /\ DOMAIN decision = Flows /\ DOMAIN session = Flows
  BY DEF Isolation, FlowShape
<1>1. CASE UNCHANGED flowVars
  BY <1>1 DEF FlowTypes
<1>2. ASSUME NEW f \in Flows, UNCHANGED <<decision, session>>,
             NEW t \in {"bridged", "failed", "passed", "raised", "cancelled"},
             task' = [task EXCEPT ![f] = t], connected' \subseteq connected \cup {f}
      PROVE  FlowTypes'
  BY <1>2 DEF FlowTypes
<1>3. ASSUME NEW f \in Flows, Passthrough(f) \/ TargetsSelf(f) \/ Settle(f) PROVE FlowTypes'
  <2>1. /\ UNCHANGED <<decision, session>>
        /\ \E t \in {"bridged", "failed", "passed", "raised", "cancelled"} :
               task' = [task EXCEPT ![f] = t]
        /\ connected' \subseteq connected \cup {f}
    BY <1>3
    DEF Passthrough, TargetsSelf, Settle, Answer, AnswerUnencodable, UpstreamFails, Cancel
  <2> QED BY <1>2, <2>1
<1>4. ASSUME NEW f \in Flows, Request(f) PROVE FlowTypes'
  <2>1. connected' = connected
    BY <1>4 DEF Request
  <2>2. ASSUME NEW reason \in {"callable", "rule", "static", "mirror"}, NEW k \in PoolKeys,
               decision' = [decision EXCEPT ![f] = Decision(reason, k)],
               \/ \E s \in Owned \cup Supplied : Await(f, s)
               \/ task' = [task EXCEPT ![f] = "failed"] /\ UNCHANGED session
        PROVE  FlowTypes'
    <3>1. Decision(reason, k) # NoDecision
      BY DecisionIsOne DEF Isolation
    <3> QED BY <1>0, <2>1, <2>2, <3>1 DEF FlowTypes, Await
  <2>3. ASSUME NEW s \in Supplied, SendSupplied(f, s) PROVE FlowTypes'
    <3>1. SessionKey(f, Supply) \in PoolKeys
      BY SessionKeyIsKey DEF Isolation, Presets
    <3> QED BY <2>2, <2>3, <3>1 DEF SendSupplied
  <2>4. ASSUME NEW preset, NEW reason \in {"rule", "static", "mirror"},
               SentWith(f, reason, preset)
        PROVE  FlowTypes'
    <3>1. SessionKey(f, preset) \in PoolKeys
      BY <2>4, SessionKeyIsKey DEF Isolation, SentWith
    <3>2. Pool!GetHit(SessionKey(f, preset)) => pool[SessionKey(f, preset)] \in Owned
      BY PoolFacts DEF Isolation, Pool!GetHit
    <3>3. decision' = [decision EXCEPT ![f] = Decision(reason, SessionKey(f, preset))]
      BY <2>4 DEF SentWith, SendPreset
    <3>4. \/ \E s \in Owned \cup Supplied : Await(f, s)
          \/ task' = [task EXCEPT ![f] = "failed"] /\ UNCHANGED session
      BY <2>4, <3>2 DEF SentWith, SendPreset
    <3> QED BY <2>2, <3>1, <3>3, <3>4
  <2> QED BY <1>4, <2>3, <2>4, RequestParts DEF Isolation
<1> QED
  BY <1>1, <1>3, <1>4
  DEF Next, vars, Running, SetOption, Configure, SweepLoop, Done, TlsClientHello, NextLayer,
      TlsFailedClient, ClientDisconnected

\* A session nobody has built is in no pool, so that dropping keys leaves it so.
SameUnborn == \A s \in Owned : life'[s] = "unborn" <=> life[s] = "unborn"

LEMMA DropKeepsUnborn ==
  ASSUME PoolSound, NEW K \in SUBSET PoolKeys, NEW p, NEW order, NEW ext, NEW lf,
         Pool!Drop(K, p, order, ext, lf), NEW s \in Owned, \A k \in K : p[k] # s
  PROVE  life'[s] = lf[s]
BY DEF Pool!Drop, Pool!Sessions, Pool!ClosedBy

LEMMA InsertKeepsUnborn ==
  ASSUME PoolSound, NEW k \in PoolKeys, NEW s, NEW ext, NEW lf,
         Pool!InsertAndTrim(k, s, ext, lf),
         NEW t \in Owned, t # s, life[t] = "unborn"
  PROVE  life'[t] = lf[t]
<1>1. PICK p : p = [pool EXCEPT ![k] = s]
  OBVIOUS
<1>2. PICK K \in SUBSET PoolKeys : \E order : Pool!Drop(K, p, order, ext, lf)
  BY <1>1 DEF Pool!InsertAndTrim, Pool!Held
<1>3. PICK order : Pool!Drop(K, p, order, ext, lf)
  BY <1>2
<1>4. \A j \in K : p[j] # t
  BY <1>1, PoolFacts
<1> QED BY <1>3, <1>4, DropKeepsUnborn

LEMMA AdoptKeepsUnborn ==
  ASSUME PoolSound, NEW k \in PoolKeys, NEW s \in Supplied,
         Pool!AdoptSame(k, s) \/ Pool!AdoptOther(k, s)
  PROVE  SameUnborn
<1>1. OnlyLost
  BY AdoptLoses
<1>2. s \notin Owned
  BY PoolFacts
<1>3. CASE Pool!AdoptSame(k, s)
  BY <1>3 DEF Pool!AdoptSame, SameUnborn
<1>4. CASE Pool!AdoptOther(k, s)
  <2>1. Pool!InsertAndTrim(k, s, external \cup {s}, life)
    BY <1>4 DEF Pool!AdoptOther
  <2> QED BY <1>1, <1>2, <2>1, InsertKeepsUnborn DEF SameUnborn, OnlyLost
<1> QED BY <1>3, <1>4

LEMMA OthersKeepUnborn ==
  ASSUME PoolSound, Configure \/ SweepLoop \/ Done
  PROVE  SameUnborn /\ UNCHANGED built
<1>1. CASE Configure
  BY <1>1 DEF Configure, Pool!SetMaxSessions, poolVars, SameUnborn
<1>2. CASE SweepLoop
  <2>1. PICK idle : Pool!Sweep(idle)
    BY <1>2 DEF SweepLoop
  <2>2. PICK K \in SUBSET PoolKeys : Pool!Drop(K, pool, ahead, external, life)
    BY <2>1 DEF Pool!Sweep, Pool!Held
  <2>3. OnlyLost
    BY <2>1, SweepLoses
  <2>4. \A s \in Owned : life[s] = "unborn" => life'[s] = "unborn"
    BY <2>2, PoolFacts, DropKeepsUnborn
  <2> QED BY <1>2, <2>3, <2>4 DEF SweepLoop, OnlyLost, SameUnborn
<1>3. CASE Done
  <2>1. Pool!Close
    BY <1>3 DEF Done
  <2>2. OnlyLost
    BY <2>1, CloseLoses
  <2>3. \A s \in Owned : life[s] = "unborn" => life'[s] = "unborn"
    BY <2>1, PoolFacts DEF Pool!Close, Pool!Sessions, Pool!ClosedBy, Pool!Held
  <2> QED BY <1>3, <2>2, <2>3 DEF Done, OnlyLost, SameUnborn
<1> QED BY <1>1, <1>2, <1>3

LEMMA BuiltTypesStep ==
  ASSUME Isolation, BuiltTypes, [Next]_vars
  PROVE  BuiltTypes'
<1>0. PoolSound /\ OptionsOK
  BY DEF Isolation
<1>1. ASSUME SameUnborn, UNCHANGED built PROVE BuiltTypes'
  BY <1>1 DEF BuiltTypes, SameUnborn
<1>2. CASE UNCHANGED <<life, built>>
  BY <1>1, <1>2 DEF SameUnborn
<1>3. CASE Configure \/ SweepLoop \/ Done
  BY <1>0, <1>1, <1>3, OthersKeepUnborn
<1>4. ASSUME NEW f \in Flows, NEW s \in Supplied, SendSupplied(f, s) PROVE BuiltTypes'
  <2>1. SessionKey(f, Supply) \in PoolKeys
    BY <1>0, SessionKeyIsKey DEF Presets
  <2> QED BY <1>0, <1>1, <1>4, <2>1, AdoptKeepsUnborn DEF SendSupplied
<1>5. ASSUME NEW f \in Flows, NEW preset, NEW reason, SentWith(f, reason, preset)
      PROVE  BuiltTypes'
  <2>1. SessionKey(f, preset) \in PoolKeys /\ preset \in Presets
    BY <1>0, <1>5, SessionKeyIsKey DEF SentWith
  <2>2. ASSUME NEW s \in Owned, Pool!GetMiss(SessionKey(f, preset), s),
               built' = [built EXCEPT ![s] = Kwargs(preset)]
        PROVE  BuiltTypes'
    <3>1. /\ options["http_version"] \in Values["http_version"]
          /\ options["transport"] \in Values["transport"]
      BY <1>0 DEF OptionsOK, OptionNames
    <3>2. Kwargs(preset) \in [preset : Presets, http_version : Values["http_version"],
                              transport : Values["transport"]]
      BY <2>1, <3>1 DEF Kwargs
    <3>3. Kwargs(preset) # NoKwargs
      BY <3>2, BridgeComponents
    <3>4. OnlyGained(SessionKey(f, preset), s)
      BY <1>0, <2>1, <2>2, MissGains
    <3>5. PICK lf : /\ lf = [life EXCEPT ![s] = "open"]
                    /\ Pool!InsertAndTrim(SessionKey(f, preset), s, external, lf)
      BY <2>2 DEF Pool!GetMiss
    <3>6. \A t \in Owned : t # s /\ life[t] = "unborn" => life'[t] = "unborn"
      <4>1. \A t \in Owned : t # s => lf[t] = life[t]
        BY <1>0, <3>5, PoolFacts
      <4>2. PICK k \in PoolKeys : Pool!InsertAndTrim(k, s, external, lf)
        BY <2>1, <3>5
      <4>3. ASSUME NEW t \in Owned, t # s, life[t] = "unborn" PROVE life'[t] = lf[t]
        BY <1>0, <4>2, <4>3, InsertKeepsUnborn
      <4> QED BY <4>1, <4>3
    <3> QED BY <2>2, <3>3, <3>4, <3>6 DEF OnlyGained, BuiltTypes
  <2> QED
    BY <1>2, <1>5, <2>2 DEF SentWith, SendPreset, Pool!GetHit, poolVars
<1>6. ASSUME NEW f \in Flows, Request(f) PROVE BuiltTypes'
  BY <1>0, <1>4, <1>5, <1>6, RequestParts
<1> QED
  BY <1>2, <1>3, <1>6
  DEF Next, vars, poolVars, Running, SetOption, TlsClientHello, NextLayer, TlsFailedClient,
      ClientDisconnected, Passthrough, TargetsSelf, Settle, Answer, AnswerUnencodable,
      UpstreamFails, Cancel

\* Whatever the hooks do in whatever order, what they keep is well-formed:
\* no profile and no preset is kept of a connection that has gone (its id may stay
\* in _requested), a request in flight has a session, and only sessions that were
\* built have keywords.
THEOREM BridgeTypeCorrect == Spec => []BridgeTypeOK
<1> DEFINE Inv == /\ Isolation /\ OwnPresets /\ Maps
                  /\ ConnTypes /\ FlowTypes /\ OptionTypes /\ BuiltTypes
<1>1. Init => Inv
  <2> SUFFICES ASSUME Init PROVE Inv
    OBVIOUS
  <2>1. Isolation /\ OwnPresets
    BY IsolationInit, OwnPresetsInit
  <2>2. Maps /\ ConnTypes /\ FlowTypes
    BY DEF Init, Maps, ConnTypes, FlowTypes
  <2>3. OptionTypes
    BY BridgeConstants DEF Init, OptionTypes
  <2>4. BuiltTypes
    BY DEF Init, BuiltTypes, Pool!Init, Pool!Sessions
  <2> QED BY <2>1, <2>2, <2>3, <2>4
<1>2. Inv /\ [Next]_vars => Inv'
  BY IsolationStep, OwnPresetsStep, MapsStep, ConnTypesStep, FlowTypesStep,
     OptionTypesStep, BuiltTypesStep
  DEF Isolation
<1>3. Inv => BridgeTypeOK
  <2> SUFFICES ASSUME Inv PROVE BridgeTypeOK
    OBVIOUS
  <2>1. profiles \in [Conns -> Mirror!Profiles \cup {NoProfile}]
        /\ presets_for_conn \in [Conns -> Mirror!Names \cup {NoName}]
    BY DEF Maps, OwnPresets, ProfileTells, PresetTells
  <2> QED BY <2>1 DEF BridgeTypeOK, ConnTypes, FlowTypes, OptionTypes, BuiltTypes
<1> HIDE DEF Inv
<1> QED BY <1>1, <1>2, <1>3, PTL DEF Spec

-----------------------------------------------------------------------------
(* What counts as a connection without a request                           *)

\* An answered request has marked its connection, as long as that is there.
AnsweredAreMarked ==
    \A f \in Flows : task[f] = "bridged" =>
        conn[ConnOf[f]] = "gone" \/ ConnOf[f] \in requested

LEMMA AnsweredStep ==
  ASSUME FlowShape, ConnTypes, AnsweredAreMarked, [Next]_vars
  PROVE  AnsweredAreMarked'
<1> USE DEF connVars, flowVars
<1>0. DOMAIN task = Flows /\ DOMAIN conn = Conns /\ \A f \in Flows : ConnOf[f] \in Conns
  BY BridgeConstants DEF FlowShape, ConnTypes
<1>1. CASE UNCHANGED <<task, conn, requested>>
  BY <1>1 DEF AnsweredAreMarked
<1>2. ASSUME NEW c \in Conns, TlsFailedClient(c) PROVE AnsweredAreMarked'
  BY <1>0, <1>2 DEF TlsFailedClient, AnsweredAreMarked
<1>3. ASSUME NEW c \in Conns, ClientDisconnected(c) PROVE AnsweredAreMarked'
  BY <1>0, <1>3 DEF ClientDisconnected, AnsweredAreMarked
<1>4. ASSUME NEW f \in Flows, Answer(f) PROVE AnsweredAreMarked'
  BY <1>0, <1>4 DEF Answer, AnsweredAreMarked
<1>5. ASSUME NEW f \in Flows, NEW t \in {"awaiting", "failed", "passed", "raised", "cancelled"},
             task' = [task EXCEPT ![f] = t], UNCHANGED <<conn, requested>>
      PROVE  AnsweredAreMarked'
  BY <1>0, <1>5 DEF AnsweredAreMarked
<1>6. ASSUME NEW f \in Flows, Passthrough(f) \/ TargetsSelf(f) PROVE AnsweredAreMarked'
  BY <1>5, <1>6 DEF Passthrough, TargetsSelf
<1>7. ASSUME NEW f \in Flows, Request(f) PROVE AnsweredAreMarked'
  <2>1. UNCHANGED <<conn, requested>>
    BY <1>7 DEF Request
  <2>2. \E t \in {"awaiting", "failed"} : task' = [task EXCEPT ![f] = t]
    BY <1>7 DEF Request, DecideByMode, SendSupplied, SendPreset, Await
  <2> QED BY <1>5, <2>1, <2>2
<1>8. ASSUME NEW f \in Flows, AnswerUnencodable(f) \/ UpstreamFails(f) \/ Cancel(f)
      PROVE  AnsweredAreMarked'
  BY <1>5, <1>8 DEF AnswerUnencodable, UpstreamFails, Cancel
<1> QED
  BY <1>1, <1>2, <1>3, <1>4, <1>6, <1>7, <1>8
  DEF Next, vars, Running, SetOption, Configure, SweepLoop, Done, TlsClientHello, NextLayer, Settle

\* A connection one of whose requests was answered before it left is not counted
\* as one that asked for nothing (client_disconnected), whatever happened to its
\* other requests and to other connections in between.
THEOREM AnsweredNeverIdle == Spec => AnsweredIsNotIdle
<1> DEFINE Inv == FlowShape /\ OptionsOK /\ OwnPresets /\ ConnTypes /\ AnsweredAreMarked
<1>1. Init => Inv
  BY IsolationInit, OwnPresetsInit
  DEF Init, Isolation, FlowShape, ConnTypes, AnsweredAreMarked
<1>2. Inv /\ [Next]_vars => Inv'
  BY FlowShapeStep, OptionsStep, OwnPresetsStep, ConnTypesStep, AnsweredStep
<1>3. Inv /\ [Next]_vars =>
        [\A f \in Flows :
            LET c == ConnOf[f]
            IN  task[f] = "bridged" /\ conn[c] # "gone" /\ conn'[c] = "gone" =>
                    UNCHANGED entries]_vars
  <2> SUFFICES ASSUME Inv, [Next]_vars, NEW f \in Flows, task[f] = "bridged",
                      conn[ConnOf[f]] # "gone", conn'[ConnOf[f]] = "gone"
               PROVE  UNCHANGED entries
    OBVIOUS
  <2> USE DEF connVars
  <2>1. ConnOf[f] \in requested /\ ConnOf[f] \in Conns
    BY BridgeConstants DEF AnsweredAreMarked
  <2>2. ASSUME NEW c \in Conns, TlsFailedClient(c) PROVE FALSE
    BY <2>1, <2>2 DEF TlsFailedClient, ConnTypes
  <2>3. ASSUME NEW c \in Conns, ClientDisconnected(c) PROVE UNCHANGED entries
    <3>1. c = ConnOf[f]
      BY <2>1, <2>3 DEF ClientDisconnected, ConnTypes
    <3>2. UNCHANGED catalogueVars
      BY <2>1, <2>3, <3>1 DEF ClientDisconnected, Observe
    <3> QED BY <3>2 DEF catalogueVars
  <2> QED
    BY <2>2, <2>3
    DEF Next, vars, Running, SetOption, Configure, SweepLoop, Done, TlsClientHello, NextLayer,
        Passthrough, TargetsSelf, Request, Settle, Answer, AnswerUnencodable, UpstreamFails,
        Cancel
<1> HIDE DEF Inv
<1> QED BY <1>1, <1>2, <1>3, PTL DEF Spec, AnsweredIsNotIdle

-----------------------------------------------------------------------------
(* What the components promise, promised by the addon                      *)

PoolSupplied == PoolProofs!SuppliedInv

\* The two contracts are one: what a step of SessionLifetime is does not depend
\* on the instance of the pool through which its sessions are seen.
LEMMA SameLifetime ==
  /\ PoolProofs!Lifetime!Init => Pool!Lifetime!Init
  /\ [PoolProofs!Lifetime!Next]_(PoolProofs!Lifetime!vars) =>
        [Pool!Lifetime!Next]_(Pool!Lifetime!vars)
BY Zenon
DEF PoolProofs!Lifetime!Init, PoolProofs!Lifetime!Next, PoolProofs!Lifetime!vars,
    PoolProofs!Lifetime!Take, PoolProofs!Lifetime!LetGo, PoolProofs!Lifetime!Release,
    PoolProofs!Lifetime!Forget, PoolProofs!Pooled, PoolProofs!Held,
    Pool!Lifetime!Init, Pool!Lifetime!Next, Pool!Lifetime!vars, Pool!Lifetime!Take,
    Pool!Lifetime!LetGo, Pool!Lifetime!Release, Pool!Lifetime!Forget, Pool!Pooled, Pool!Held

LEMMA SuppliedStart ==
  Init => Isolation /\ PoolSupplied /\ PoolProofs!Lifetime!Init
<1>1. Init => PoolProofs!Init
  BY DEF Init, Pool!Init, PoolProofs!Init, Pool!Sessions, PoolProofs!Sessions
<1>2. PoolProofs!Init => PoolProofs!Lifetime!Init
  BY DEF PoolProofs!Init, PoolProofs!Lifetime!Init, PoolProofs!Pooled, PoolProofs!Held,
         PoolProofs!Sessions
<1> QED
  BY <1>1, <1>2, IsolationInit, PoolConstantsHold, PoolProofs!SuppliedInit DEF PoolSupplied

LEMMA SuppliedStep ==
  ASSUME Pool!OneKeyEach, Isolation, PoolSupplied, [Next]_vars
  PROVE  PoolSupplied' /\ [PoolProofs!Lifetime!Next]_(PoolProofs!Lifetime!vars)
<1>1. PoolProofs!OneKeyEach
  BY DEF Pool!OneKeyEach, PoolProofs!OneKeyEach
<1>2. [PoolProofs!Next]_(PoolProofs!vars)
  BY PoolSteps, SamePoolSteps DEF Isolation
<1> QED BY <1>1, <1>2, PoolConstantsHold, PoolProofs!LifetimeStep DEF PoolSupplied

\* The addon as a whole implements SessionLifetime: whatever requests, sweeps,
\* options and done() do to the pool, in any order, each of their steps takes,
\* releases or forgets sessions as the contract allows, if the callable gives
\* each session of the user's out under one key (sessions.py, _session_for).
THEOREM AddonImplementsLifetime ==
  ASSUME Pool!OneKeyEach
  PROVE  Spec => Pool!ImplementsLifetime
<1> DEFINE Inv == Isolation /\ PoolSupplied
<1>1. Init => Inv /\ Pool!Lifetime!Init
  BY SuppliedStart, SameLifetime
<1>2. Inv /\ [Next]_vars => Inv' /\ [Pool!Lifetime!Next]_(Pool!Lifetime!vars)
  BY SuppliedStep, IsolationStep, SameLifetime
<1> HIDE DEF Inv
<1> QED BY <1>1, <1>2, PTL DEF Spec, Pool!ImplementsLifetime, Pool!Lifetime!Spec

\* "Never close a session the user handed us" (sessions.py:109), through every
\* hook, for as long as the proxy runs and when it stops.
THEOREM AddonSparesSupplied ==
  ASSUME Pool!OneKeyEach
  PROVE  Spec => []Pool!SuppliedNeverClosed
<1> DEFINE Inv == Isolation /\ PoolSupplied
<1>1. Init => Inv
  BY SuppliedStart
<1>2. Inv /\ [Next]_vars => Inv'
  BY SuppliedStep, IsolationStep
<1>3. Inv => Pool!SuppliedNeverClosed
  BY DEF PoolSupplied, PoolProofs!SuppliedInv, Pool!SuppliedNeverClosed
<1> HIDE DEF Inv
<1> QED BY <1>1, <1>2, <1>3, PTL DEF Spec

-----------------------------------------------------------------------------
(* What is on disk when the addon stops                                    *)

OneDirectory == \A d, e \in Dirs : d = e

\* Only done() stops the proxy, and it writes what is not written yet; nothing
\* that comes after it touches the catalogue.
LEMMA StopsWithFlush ==
  ASSUME CatSound, [Next]_vars, phase' = "done"
  PROVE  [CatProofs!Next]_(CatProofs!vars)
<1>1. CASE Done
  <2>1. CatProofs!FinalFlush
    BY <1>1 DEF Done, Cat!FinalFlush, Cat!Flush, CatProofs!FinalFlush, CatProofs!Flush
  <2>2. phase = "running"
    BY <1>1 DEF Done, Serving
  <2> QED BY <2>1, <2>2 DEF CatProofs!Next, CatProofs!Done
<1>2. CASE UNCHANGED <<catalogueVars, phase>>
  BY <1>2 DEF catalogueVars, CatProofs!vars, CatProofs!catalogueVars
<1>3. ASSUME NEW f \in Flows, Cancel(f) PROVE UNCHANGED <<catalogueVars, phase>>
  BY <1>3 DEF Cancel
<1>4. ASSUME NEW f \in Flows, Request(f) PROVE FALSE
  BY <1>4, RequestPhase
<1>5. ASSUME phase = "running", phase' = phase PROVE FALSE
  BY <1>5
<1> QED
  BY <1>1, <1>2, <1>3, <1>4, <1>5
  DEF Next, vars, catalogueVars, Serving, Arrives, Awaiting, Running, SetOption, Configure,
      Pool!SetMaxSessions, SweepLoop, Pool!Sweep, TlsClientHello, NextLayer, TlsFailedClient,
      ClientDisconnected, Passthrough, TargetsSelf, Settle, Answer, AnswerUnencodable,
      UpstreamFails

\* "Every distinct TLS fingerprint observed lands there" (README.md:179): when
\* the addon has stopped, the directory has a file, HTTP/2 half included, for
\* every fingerprint that any connection has shown, however its client left, was
\* refused or was answered, unless writing the file may fail.
THEOREM AddonKeepsFingerprints ==
  ASSUME OneDirectory
  PROVE  Spec => []Cat!EverySeenLands
<1> DEFINE Inv == OptionsOK /\ OwnPresets /\ CatSound /\ CatProofs!EverySeenLands
<1>1. Init => Inv
  <2>1. Init => phase = "running"
    BY DEF Init, Cat!Init
  <2> QED
    BY <2>1, IsolationInit, OwnPresetsInit, CatInit DEF Isolation, CatProofs!EverySeenLands
<1>2. Inv /\ [Next]_vars => Inv'
  <2> SUFFICES ASSUME Inv, [Next]_vars PROVE CatProofs!EverySeenLands'
    BY OptionsStep, OwnPresetsStep, CatStep
  <2>1. CASE phase' # "done"
    BY <2>1 DEF CatProofs!EverySeenLands
  <2>2. CASE phase' = "done"
    <3>1. [CatProofs!Next]_(CatProofs!vars)
      BY <2>2, StopsWithFlush
    <3>2. CatProofs!OneDirectory
      BY DEF OneDirectory, CatProofs!OneDirectory
    <3> QED BY <3>1, <3>2, CatConstantsHold, CatProofs!LandsStep DEF CatSound
  <2> QED BY <2>1, <2>2
<1>3. Inv => Cat!EverySeenLands
  BY DEF CatProofs!EverySeenLands, Cat!EverySeenLands, CatProofs!Seen, Cat!Seen
<1> HIDE DEF Inv
<1> QED BY <1>1, <1>2, <1>3, PTL DEF Spec

-----------------------------------------------------------------------------
(* What a mirrored request carries                                         *)

\* The preset that httpcloak applies to a mirrored request was made from a hello
\* of the identity its own connection has shown, and asks for blunt mimicry just
\* when httpcloak refuses that hello without.
CarriesOwnHello ==
    [][\A f \in Flows : Starts(f) /\ decision'[f].reason = "mirror" =>
          LET doc == registry'[decision'[f].key.preset[2]]
          IN  /\ doc \in Mirror!Docs
              /\ doc.hello.id \in {h.id : h \in Says[ConnOf[f]]}
              /\ doc.blunt = (doc.hello \in Unmodelled)]_vars

THEOREM MirroredAsShown == Spec => CarriesOwnHello
<1> DEFINE Inv == OptionsOK /\ FlowShape /\ OwnPresets
<1>1. Inv /\ [Next]_vars =>
        [\A f \in Flows : Starts(f) /\ decision'[f].reason = "mirror" =>
            LET doc == registry'[decision'[f].key.preset[2]]
            IN  /\ doc \in Mirror!Docs
                /\ doc.hello.id \in {h.id : h \in Says[ConnOf[f]]}
                /\ doc.blunt = (doc.hello \in Unmodelled)]_vars
  <2> SUFFICES ASSUME Inv, [Next]_vars, NEW f \in Flows, Starts(f),
                      decision'[f].reason = "mirror",
                      NEW doc, doc = registry'[decision'[f].key.preset[2]]
               PROVE  /\ doc \in Mirror!Docs
                      /\ doc.hello.id \in {h.id : h \in Says[ConnOf[f]]}
                      /\ doc.blunt = (doc.hello \in Unmodelled)
    OBVIOUS
  <2>1. PICK name \in Mirror!Names :
            /\ name # NoName
            /\ MirrorPreset(ConnOf[f], name)
            /\ decision'[f].key.preset = Minted(name)
    BY MirrorParts
  <2>2. /\ profiles' = profiles /\ phase = "running" /\ phase' = phase /\ ConnOf[f] \in Conns
    BY StartIsRequest, RequestPhase, BridgeConstants DEF Request
  <2>3. decision'[f].key.preset[2] = name
    BY <2>1 DEF Minted
  <2>4. name.id \in {h.id : h \in Says[ConnOf[f]]} /\ registry'[name] # NoDoc
    BY <2>1, <2>2, MirrorPresetTells
  <2>5. RegistrySound'
    BY OwnPresetsStep DEF OwnPresets
  <2>6. doc \in Mirror!Docs /\ doc.hello.id = name.id /\ doc.blunt = (doc.hello \in Unmodelled)
    <3>1. doc = registry'[name] /\ doc # NoDoc /\ name \in RegistryProofs!Names
      BY <2>3, <2>4, SameNames
    <3> QED
      BY <2>5, <3>1
      DEF RegistrySound, RegistryProofs!MirrorInv, RegistryProofs!MirrorTypeOK,
          RegistryProofs!NameCoversIdentity, RegistryProofs!Identifies,
          RegistryProofs!BluntOnlyWhenRefused, RegistryProofs!Docs, Mirror!Docs
  <2> QED BY <2>4, <2>6
<1>2. Init => Inv
  BY IsolationInit, OwnPresetsInit DEF Isolation
<1>3. Inv /\ [Next]_vars => Inv'
  BY OptionsStep, FlowShapeStep, OwnPresetsStep
<1> HIDE DEF Inv
<1> QED BY <1>1, <1>2, <1>3, PTL DEF Spec, CarriesOwnHello

=============================================================================
