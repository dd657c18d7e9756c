----------------------------- MODULE IdentityProbe -----------------------------
(***************************************************************************)
(* mitmcloak/identify.py: what httpcloak's presets put on the wire, learnt *)
(* by letting them connect to a local socket.  Two jobs share the socket   *)
(* and the steps: supports_raw_client_hello ("support") and                *)
(* build_identity_map ("map").                                             *)
(*                                                                         *)
(* The prober runs on the event loop and blocks it; the socket is served   *)
(* by a thread of its own, _HelloSink._serve, one connection after the     *)
(* other.  session.get returns when the sink has read the hello and hung   *)
(* up, or when its timeout of 3 s is over, whichever comes first.          *)
(***************************************************************************)
EXTENDS Integers, Sequences, FiniteSets

CONSTANTS
    Candidates,    \* BASE_CANDIDATES, in its order
    Fixture,       \* the preset "mitmcloak-capability-probe"
    FixtureHello,  \* the hello it carries
    HellosOf,      \* HellosOf[n]: the hellos of preset n, one per order
    HeadOf,        \* HeadOf[n]: its name without the platform
    ProbeBase,     \* what the fixture is based on
    Short, Cut,    \* torn records: parsing raises ValueError, or something else
    Garbled,       \* one torn between two extensions, which parses
    NoBase

Presets == DOMAIN HellosOf
ProbeHellos == (UNION {HellosOf[n] : n \in Presets}) \cup {FixtureHello, Garbled}
Families == {h.family : h \in ProbeHellos}

\* curl's hello "makes an accidental match impossible" (identify.py:154-156).
ASSUME ProbeConstants ==
    /\ Candidates \in Seq(Presets) /\ Candidates # <<>> /\ ProbeBase \in Presets
    /\ \A i, j \in DOMAIN Candidates : Candidates[i] = Candidates[j] => i = j
    /\ \A n \in Presets : IsFiniteSet(HellosOf[n])
    /\ Fixture \notin Presets /\ NoBase \notin Presets
    /\ DOMAIN HeadOf = Presets
    /\ Short \notin ProbeHellos /\ Cut \notin ProbeHellos
    /\ \A n \in Presets : \A h \in HellosOf[n] :
          h.family \notin {FixtureHello.family, Garbled.family}
    /\ FixtureHello.family # Garbled.family

VARIABLES
    replays,       \* whether this httpcloak honours raw_client_hello
    job, stage,    \* what the prober does: <<"support", "get">>, say
    cand,          \* how many candidates it has come to
    gets,          \* how many gets of the candidate are over
    backlog,       \* hellos sent and not yet read by the sink, oldest first
    captured,      \* sink.captured
    before,        \* len(sink.captured) when the candidate's turn came
    orders,        \* the local `orders` of build_identity_map
    identities,    \* self._identities
    measured,      \* the keys of self._permutes, and those of them
    reordering,    \* that answer True
    loaded,        \* self._identities is not None
    verdict,       \* what supports_raw_client_hello said
    late           \* history: some get of this sink returned with its hello unread

work == <<cand, gets, backlog, captured, before, orders>>
answers == <<identities, measured, reordering, loaded, verdict>>
probeVars == <<replays, job, stage, work, late, answers>>

ProbeTypeOK ==
    /\ job \in {"none", "support", "map"}
    /\ stage \in {"idle", "build", "get", "wait", "count", "judge"}
    /\ cand \in 0 .. Len(Candidates) /\ gets \in 0 .. 2
    /\ backlog \in Seq(ProbeHellos)
    /\ captured \in Seq(ProbeHellos \cup {Short, Cut}) /\ before \in 0 .. Len(captured)
    /\ identities \in [Families -> Presets \cup {NoBase}]
    /\ reordering \subseteq measured /\ measured \subseteq Presets
    /\ verdict \in {"unknown", "yes", "no"}
    /\ replays \in BOOLEAN /\ loaded \in BOOLEAN /\ late \in BOOLEAN

NoIdentities == [f \in Families |-> NoBase]

ProbeInit ==
    /\ replays \in BOOLEAN
    /\ job = "none" /\ stage = "idle" /\ cand = 0 /\ gets = 0
    /\ backlog = <<>> /\ captured = <<>> /\ before = 0 /\ orders = {}
    /\ identities = NoIdentities /\ measured = {} /\ reordering = {}
    /\ loaded = FALSE /\ verdict = "unknown" /\ late = FALSE

-----------------------------------------------------------------------------
(* The prober                                                              *)

Subject == IF job = "support" THEN Fixture ELSE Candidates[cand]

\* What the subject sends: Go's decoder drops a key it does not know, and the
\* fixture's base is served.
Sends(n) ==
    IF n # Fixture THEN HellosOf[n]
    ELSE IF replays THEN {FixtureHello} ELSE HellosOf[ProbeBase]

\* Before a job and after it there is no sink, and nothing is in progress.
NoWork ==
    /\ cand' = 0 /\ gets' = 0 /\ before' = 0
    /\ backlog' = <<>> /\ captured' = <<>> /\ orders' = {}

\* supports_raw_client_hello, from running(): the fixture may be refused.
StartSupport ==
    /\ job = "none"
    /\ job' = "support"
    /\ \/ stage' = "build" /\ UNCHANGED verdict
       \/ verdict' = "no" /\ UNCHANGED stage
    /\ UNCHANGED <<replays, work, late, identities, measured, reordering, loaded>>

\* ensure_loaded, when the map is first asked; with a sink of its own.
StartMap ==
    /\ stage = "idle" /\ ~loaded
    /\ job' = "map" /\ stage' = "build" /\ cand' = 1 /\ late' = FALSE
    /\ UNCHANGED <<replays, gets, backlog, captured, before, orders, answers>>

\* Slip: the next job goes on with the same sink.
FinishSharing ==
    /\ stage' = "idle" /\ loaded' = (job = "map")
    /\ cand' = 0 /\ gets' = 0 /\ before' = 0 /\ orders' = {}
    /\ UNCHANGED <<backlog, captured>>

\* The sink is closed, and what was learnt is returned.
Finish == stage' = "idle" /\ loaded' = (job = "map") /\ NoWork

\* The next candidate's turn, or the end of the map.
Proceed ==
    \/ /\ cand < Len(Candidates)
       /\ stage' = "build" /\ cand' = cand + 1
       /\ UNCHANGED <<gets, backlog, captured, before, orders, loaded>>
    \/ /\ cand = Len(Candidates)
       /\ Finish

\* httpcloak.Session(...), which may raise.
Build ==
    /\ stage = "build"
    /\ \/ /\ stage' = "get" /\ before' = Len(captured) /\ gets' = 0
          /\ UNCHANGED <<cand, backlog, captured, orders, verdict, loaded>>
       \/ job = "support" /\ Finish /\ verdict' = "no"
       \/ job = "map" /\ Proceed /\ UNCHANGED verdict
    /\ UNCHANGED <<replays, job, late, identities, measured, reordering>>

\* Two gets for a candidate, one for the fixture.
GetOver ==
    /\ gets' = gets + 1
    /\ stage' = IF job = "map" /\ gets = 0 THEN "get" ELSE "count"

\* session.get connects and says hello, or fails at once.
Get ==
    /\ stage = "get"
    /\ \/ /\ \E h \in Sends(Subject) : backlog' = Append(backlog, h)
          /\ stage' = "wait" /\ UNCHANGED gets
       \/ GetOver /\ UNCHANGED backlog
    /\ UNCHANGED <<replays, job, cand, captured, before, orders, late, answers>>

\* Slip: the get has no timeout.
GetServed ==
    /\ stage = "wait" /\ backlog = <<>>
    /\ GetOver
    /\ UNCHANGED <<replays, job, cand, backlog, captured, before, orders, late, answers>>

\* session.get returns: its connection was closed by the sink, or the timeout
\* came first and the hello is still unread.
GetReturns ==
    /\ stage = "wait"
    /\ GetOver
    /\ late' = (late \/ backlog # <<>>)
    /\ UNCHANGED <<replays, job, cand, backlog, captured, before, orders, answers>>

\* Slip: all that the sink has captured counts for the candidate.
NewSinceStart == captured

New == SubSeq(captured, before + 1, Len(captured))
NewHellos == {New[i] : i \in DOMAIN New} \cap ProbeHellos

\* identities.setdefault(info.family_id, name), for each hello of n.
Learnt(n) ==
    [f \in Families |->
        IF identities[f] = NoBase /\ \E h \in NewHellos : h.family = f
          THEN n ELSE identities[f]]

\* The loop over sink.captured[before:].  A record that raises something else
\* than ValueError ends build_identity_map, and ensure_loaded keeps nothing.
Count ==
    /\ stage = "count" /\ job = "map"
    /\ \/ /\ \E i \in DOMAIN New : New[i] = Cut
          /\ identities' = NoIdentities /\ measured' = {} /\ reordering' = {}
          /\ Finish
       \/ /\ \A i \in DOMAIN New : New[i] # Cut
          /\ identities' = Learnt(Subject)
          /\ orders' = {h.order : h \in NewHellos}
          /\ stage' = "judge"
          /\ UNCHANGED <<measured, reordering, loaded, cand, gets, backlog, captured, before>>
    /\ UNCHANGED <<replays, job, late, verdict>>

\* permutes[name], if sink.captured[before:] has two records by now.
Judge ==
    /\ stage = "judge"
    /\ measured' = IF Len(New) > 1 THEN measured \cup {Subject} ELSE measured
    /\ reordering' = IF Len(New) > 1 /\ Cardinality(orders) > 1
                       THEN reordering \cup {Subject} ELSE reordering
    /\ Proceed
    /\ UNCHANGED <<replays, job, late, identities, verdict>>

\* Slip: any hello proves that the fixture was replayed.
SeenAny == NewHellos # {}

Seen == \E h \in NewHellos : h.family = FixtureHello.family

\* The verdict of supports_raw_client_hello, on the one record there may be.
Verdict ==
    /\ stage = "count" /\ job = "support"
    /\ verdict' = IF Seen THEN "yes" ELSE "no"
    /\ Finish
    /\ UNCHANGED <<replays, job, late, identities, measured, reordering>>

(* The sink's thread                                                       *)

\* Whether the oldest connection's client has hung up: its get is over.
HungUp == stage # "wait" \/ Len(backlog) > 1

\* A connection is served: its record is appended, or lost when recv fails.
\* One whose client has hung up may have been left in the middle.
SinkServes ==
    /\ stage # "idle" /\ backlog # <<>>
    /\ backlog' = Tail(backlog)
    /\ \E record \in {Head(backlog)} \cup (IF HungUp THEN {Short, Cut, Garbled} ELSE {}) :
          captured' = captured \/ captured' = Append(captured, record)
    /\ UNCHANGED <<replays, job, stage, cand, gets, before, orders, late, answers>>

Prober == Build \/ Get \/ GetReturns \/ Count \/ Judge \/ Verdict

ProbeNext == StartSupport \/ StartMap \/ Prober \/ SinkServes

\* A get returns after its timeout at the latest, and nothing else keeps the
\* prober waiting.  Of the sink's thread nothing is assumed.
ProbeFairness == WF_probeVars(Prober)

-----------------------------------------------------------------------------
(* BaseIdentifier, once the map is loaded                                  *)

\* match: the preset whose family a hello has, NoBase for None.
Match(family) == identities[family]

Siblings(n) ==
    {i \in DOMAIN Candidates : Candidates[i] \in measured /\ HeadOf[Candidates[i]] = HeadOf[n]}

\* permutes: the measurement of the name, or of its first measured sibling.
PermutesBase(n) ==
    IF n \in measured THEN n \in reordering
    ELSE \E i \in Siblings(n) :
            (\A j \in Siblings(n) : i <= j) /\ Candidates[i] \in reordering

-----------------------------------------------------------------------------
(* Properties                                                              *)

\* "Ask httpcloak to replay a known hello and check that it actually did"
\* (identify.py:178): yes is only said to an httpcloak that replays, however
\* late, torn or lost the hello, and whoever registered the probe's name.
YesMeansReplayed == verdict = "yes" => replays

\* While no get has left its hello unread, each hello counts for the preset
\* that sent it: a family belongs to a preset that has it, and a preset is
\* said to reorder only if it does.
CreditedToItsSender ==
    ~late =>
        /\ \A f \in Families : identities[f] # NoBase =>
              \E h \in HellosOf[identities[f]] : h.family = f
        /\ \A n \in reordering : Cardinality(HellosOf[n]) > 1

\* A hello read too late counts for a later candidate, never for an earlier
\* one: no family is given to a preset before a preset that has it was asked.
NeverCreditedEarly ==
    \A f \in Families \ {Garbled.family}, i \in DOMAIN Candidates :
        identities[f] = Candidates[i] =>
            \E j \in 1 .. i : \E h \in HellosOf[Candidates[j]] : h.family = f

\* "first name wins" (identify.py:95): an identity, once learnt, keeps its
\* preset, unless the whole map is given up.
FirstNameWins ==
    [][\A f \in Families : identities[f] # NoBase =>
          identities'[f] \in {identities[f], NoBase}]_probeVars

\* The event loop is not blocked for ever: a job ends whatever the sink's
\* thread does, even if it never answers (identify.py:118-124, the timeouts).
ProbeEnds == stage # "idle" ~> stage = "idle"

=============================================================================
