---------------------------- MODULE MirroringProofs ----------------------------
(***************************************************************************)
(* What is proved of the prober and of the presets minted for captured     *)
(* clients, for every list of candidates, set of hellos, bases and preset  *)
(* files: first the identification of TLS stacks, the two jobs of          *)
(* identify.py with every delay, loss and truncation of the sink's thread; *)
(* then the presets, whatever the prober learnt; then from what it learnt. *)
(***************************************************************************)
EXTENDS MirrorRegistryProofs, Mirroring, SequenceTheorems, FiniteSetTheorems

Torn == {Short, Cut, Garbled}

\* Where the prober can be.  Nothing of a job is left after it.
Stages ==
    /\ job = "none" => stage = "idle"
    /\ job = "map" /\ stage # "idle" => cand # 0
    /\ stage = "judge" => job = "map"
    /\ stage \in {"get", "wait"} => gets = 0 \/ (job = "map" /\ gets = 1)
    /\ stage = "idle" => backlog = <<>> /\ captured = <<>>
    /\ loaded <=> (job = "map" /\ stage = "idle")
    /\ job # "map" => identities = NoIdentities /\ measured = {} /\ reordering = {}

ProbeInv == ProbeTypeOK /\ Stages

-----------------------------------------------------------------------------
(* Types, and the order of the steps                                       *)

LEMMA ProbeInvInit == ProbeInit => ProbeInv
<1> SUFFICES ASSUME ProbeInit PROVE ProbeInv
  OBVIOUS
<1>1. Len(Candidates) \in Nat /\ Len(captured) = 0
  BY ProbeConstants, EmptySeq, LenProperties DEF ProbeInit
<1>2. ProbeTypeOK
  <2>1. identities \in [Families -> Presets \cup {NoBase}]
    BY DEF ProbeInit, NoIdentities
  <2>2. backlog \in Seq(ProbeHellos) /\ captured \in Seq(ProbeHellos \cup {Short, Cut})
    BY EmptySeq DEF ProbeInit
  <2>3. replays \in BOOLEAN /\ loaded \in BOOLEAN /\ late \in BOOLEAN
    BY Zenon DEF ProbeInit
  <2> QED BY <1>1, <2>1, <2>2, <2>3 DEF ProbeInit, ProbeTypeOK
<1>3. Stages
  BY DEF ProbeInit, Stages
<1> QED BY <1>2, <1>3 DEF ProbeInv

\* The subject of a job in progress, and what it sends.
LEMMA SubjectType ==
  ASSUME ProbeInv, stage # "idle"
  PROVE  /\ job = "support" => Subject = Fixture
         /\ job = "map" => cand \in 1 .. Len(Candidates) /\ Subject = Candidates[cand]
                           /\ Subject \in Presets /\ Sends(Subject) = HellosOf[Subject]
         /\ Sends(Subject) \subseteq ProbeHellos
<1>1. job \in {"support", "map"} /\ Len(Candidates) \in Nat
  BY ProbeConstants, LenProperties DEF ProbeInv, ProbeTypeOK, Stages
<1>2. CASE job = "support"
  BY <1>2, ProbeConstants DEF Subject, Sends, ProbeHellos
<1>3. CASE job = "map"
  <2>1. cand \in 1 .. Len(Candidates)
    BY <1>1, <1>3 DEF ProbeInv, ProbeTypeOK, Stages
  <2>2. Candidates[cand] \in Presets
    BY <2>1, ProbeConstants, ElementOfSeq
  <2> QED BY <1>3, <2>1, <2>2, ProbeConstants DEF Subject, Sends, ProbeHellos
<1> QED BY <1>1, <1>2, <1>3

\* What Finish and Proceed leave behind.
LEMMA FinishKeepsInv ==
  ASSUME ProbeInv, stage # "idle", Finish, job' = job, replays' = replays, late' = late,
         verdict' \in {"unknown", "yes", "no"},
         identities' \in [Families -> Presets \cup {NoBase}],
         reordering' \subseteq measured', measured' \subseteq Presets,
         job # "map" => UNCHANGED <<identities, measured, reordering>>
  PROVE  ProbeInv'
<1>1. Len(Candidates) \in Nat /\ Len(captured') = 0
  BY ProbeConstants, EmptySeq, LenProperties DEF Finish, NoWork
<1>2. ProbeTypeOK'
  BY <1>1, EmptySeq DEF Finish, NoWork, ProbeInv, ProbeTypeOK
<1>3. Stages'
  BY DEF Finish, NoWork, ProbeInv, ProbeTypeOK, Stages, NoIdentities
<1> QED BY <1>2, <1>3 DEF ProbeInv

LEMMA ProceedKeepsInv ==
  ASSUME ProbeInv, stage # "idle", job = "map", Proceed,
         job' = job, replays' = replays, late' = late, verdict' = verdict,
         identities' \in [Families -> Presets \cup {NoBase}],
         reordering' \subseteq measured', measured' \subseteq Presets
  PROVE  ProbeInv'
<1>1. CASE Finish
  BY <1>1, FinishKeepsInv DEF ProbeInv, ProbeTypeOK
<1>2. CASE ~Finish
  <2>1. /\ cand < Len(Candidates) /\ stage' = "build" /\ cand' = cand + 1
        /\ UNCHANGED <<gets, backlog, captured, before, loaded>>
    BY <1>2 DEF Proceed
  <2>2. Len(Candidates) \in Nat
    BY ProbeConstants, LenProperties
  <2>3. ProbeTypeOK'
    BY <2>1, <2>2 DEF ProbeInv, ProbeTypeOK
  <2>4. Stages'
    BY <2>1, <2>2 DEF ProbeInv, ProbeTypeOK, Stages
  <2> QED BY <2>3, <2>4 DEF ProbeInv
<1> QED BY <1>1, <1>2

LEMMA ServedRecord ==
  ASSUME ProbeInv, SinkServes
  PROVE  \E record \in {Head(backlog)} \cup Torn :
            /\ captured' = captured \/ captured' = Append(captured, record)
            /\ HungUp \/ record = Head(backlog)
  BY DEF SinkServes, Torn

\* Nothing is said twice of a hello: each step keeps the types and the order.
LEMMA ProbeInvStep == ProbeInv /\ [ProbeNext]_probeVars => ProbeInv'
<1> SUFFICES ASSUME ProbeInv, [ProbeNext]_probeVars PROVE ProbeInv'
  OBVIOUS
<1> USE DEF work, answers
<1>1. CASE UNCHANGED probeVars
  <2>1. ProbeTypeOK' /\ Stages'
    BY <1>1 DEF probeVars, ProbeInv, ProbeTypeOK, Stages, NoIdentities
  <2> QED BY <2>1 DEF ProbeInv
<1>2. CASE StartSupport
  BY <1>2 DEF StartSupport, ProbeInv, ProbeTypeOK, Stages, NoIdentities
<1>3. CASE StartMap
  <2>1. Len(Candidates) \in Nat \ {0}
    BY ProbeConstants, EmptySeq
  <2>2. ProbeTypeOK'
    <3>1. late' \in BOOLEAN
      BY <1>3, Zenon DEF StartMap
    <3>2. cand' \in 0 .. Len(Candidates)
      BY <1>3, <2>1 DEF StartMap
    <3> QED BY <1>3, <3>1, <3>2 DEF StartMap, ProbeInv, ProbeTypeOK
  <2>3. Stages'
    BY <1>3 DEF StartMap, ProbeInv, ProbeTypeOK, Stages
  <2> QED BY <2>2, <2>3 DEF ProbeInv
<1>4. CASE Build
  <2>1. CASE stage' = "get"
    <3>1. /\ before' = Len(captured) /\ gets' = 0
          /\ UNCHANGED <<cand, backlog, captured, orders, verdict, loaded>>
      BY <1>4, <2>1 DEF Build, Finish, Proceed
    <3>2. Len(captured) \in Nat
      BY LenProperties DEF ProbeInv, ProbeTypeOK
    <3> QED BY <1>4, <2>1, <3>1, <3>2 DEF Build, ProbeInv, ProbeTypeOK, Stages, NoIdentities
  <2>2. CASE job = "support" /\ Finish /\ verdict' = "no"
    BY <1>4, <2>2, FinishKeepsInv DEF Build, ProbeInv, ProbeTypeOK
  <2>3. CASE job = "map" /\ Proceed /\ UNCHANGED verdict
    BY <1>4, <2>3, ProceedKeepsInv DEF Build, ProbeInv, ProbeTypeOK
  <2> QED BY <1>4, <2>1, <2>2, <2>3 DEF Build
<1>5. CASE Get
  <2>0. stage # "idle"
    BY <1>5 DEF Get
  <2>1. CASE GetOver /\ UNCHANGED backlog
    BY <1>5, <2>1 DEF Get, GetOver, ProbeInv, ProbeTypeOK, Stages, NoIdentities
  <2>2. ASSUME NEW h \in Sends(Subject), backlog' = Append(backlog, h), stage' = "wait",
               UNCHANGED gets
        PROVE  ProbeInv'
    <3>1. backlog' \in Seq(ProbeHellos)
      BY <2>0, <2>2, SubjectType, AppendProperties DEF ProbeInv, ProbeTypeOK
    <3> QED BY <1>5, <2>2, <3>1 DEF Get, ProbeInv, ProbeTypeOK, Stages, NoIdentities
  <2> QED BY <1>5, <2>1, <2>2 DEF Get
<1>6. CASE GetReturns
  BY <1>6 DEF GetReturns, GetOver, ProbeInv, ProbeTypeOK, Stages, NoIdentities
<1>7. CASE Count
  <2>1. CASE Finish /\ identities' = NoIdentities /\ measured' = {} /\ reordering' = {}
    BY <1>7, <2>1, FinishKeepsInv DEF Count, ProbeInv, ProbeTypeOK, NoIdentities
  <2>2. CASE identities' = Learnt(Subject) /\ stage' = "judge"
              /\ UNCHANGED <<measured, reordering, loaded, cand, gets, backlog, captured, before>>
    <3>1. Subject \in Presets
      BY <1>7, SubjectType DEF Count
    <3>2. identities' \in [Families -> Presets \cup {NoBase}]
      BY <2>2, <3>1 DEF Learnt, ProbeInv, ProbeTypeOK
    <3> QED BY <1>7, <2>2, <3>2 DEF Count, ProbeInv, ProbeTypeOK, Stages
  <2> QED BY <1>7, <2>1, <2>2 DEF Count
<1>8. CASE Judge
  <2>1. Subject \in Presets /\ job = "map"
    BY <1>8, SubjectType DEF Judge, ProbeInv, Stages
  <2>2. reordering' \subseteq measured' /\ measured' \subseteq Presets
    BY <1>8, <2>1 DEF Judge, ProbeInv, ProbeTypeOK
  <2> QED BY <1>8, <2>1, <2>2, ProceedKeepsInv DEF Judge, ProbeInv, ProbeTypeOK
<1>9. CASE Verdict
  BY <1>9, FinishKeepsInv DEF Verdict, ProbeInv, ProbeTypeOK
<1>10. CASE SinkServes
  <2>1. PICK record \in {Head(backlog)} \cup Torn :
            captured' = captured \/ captured' = Append(captured, record)
    BY <1>10, ServedRecord
  <2>2. Head(backlog) \in ProbeHellos /\ backlog' \in Seq(ProbeHellos)
    BY <1>10, HeadTailProperties DEF SinkServes, ProbeInv, ProbeTypeOK
  <2>3. record \in ProbeHellos \cup {Short, Cut}
    BY <2>2 DEF Torn, ProbeHellos
  <2>4. /\ captured' \in Seq(ProbeHellos \cup {Short, Cut})
        /\ Len(captured') \in {Len(captured), Len(captured) + 1}
    BY <2>1, <2>3, AppendProperties DEF ProbeInv, ProbeTypeOK
  <2>5. Len(captured) \in Nat
    BY LenProperties DEF ProbeInv, ProbeTypeOK
  <2> QED
    BY <1>10, <2>2, <2>4, <2>5 DEF SinkServes, ProbeInv, ProbeTypeOK, Stages, NoIdentities
<1> QED
  BY <1>1, <1>2, <1>3, <1>4, <1>5, <1>6, <1>7, <1>8, <1>9, <1>10 DEF ProbeNext, Prober

-----------------------------------------------------------------------------
(* Whose hellos a job has heard                                            *)

\* What is sent and captured is of these senders, or torn.
Heard(hellos) ==
    backlog \in Seq(hellos \cup Torn) /\ captured \in Seq(hellos \cup Torn)

\* The hellos of the candidates whose turn has come.
Asked(k) == UNION {HellosOf[Candidates[j]] : j \in 1 .. k}

HeardInv ==
    /\ job = "support" => Heard(Sends(Fixture))
    /\ job = "map" => Heard(Asked(cand))

HeardAndProbed == ProbeInv /\ HeardInv

\* The sink's thread invents nothing but torn records.
LEMMA ServedIsHeard ==
  ASSUME ProbeInv, SinkServes, NEW hellos, Heard(hellos)
  PROVE  backlog' \in Seq(hellos \cup Torn) /\ captured' \in Seq(hellos \cup Torn)
<1>1. PICK record \in {Head(backlog)} \cup Torn :
          captured' = captured \/ captured' = Append(captured, record)
  BY ServedRecord
<1>2. Head(backlog) \in hellos \cup Torn /\ backlog' \in Seq(hellos \cup Torn)
  BY HeadTailProperties DEF SinkServes, Heard
<1> QED BY <1>1, <1>2, AppendProperties DEF Heard

\* A later turn has heard all that an earlier one had.
LEMMA HeardMore ==
  ASSUME NEW hellos, NEW more, hellos \subseteq more, Heard(hellos)
  PROVE  Heard(more)
BY SeqMonotonic DEF Heard

LEMMA EmptyIsHeard ==
  ASSUME NEW hellos, backlog' = <<>>, captured' = <<>>
  PROVE  Heard(hellos)'
BY EmptySeq DEF Heard

\* A hello among those counted is one that was heard, and not Short or Cut.
LEMMA NewIsHeard ==
  ASSUME ProbeInv, NEW hellos, Heard(hellos), NEW h \in NewHellos
  PROVE  h \in hellos \cup {Garbled}
<1>1. before + 1 \in Int /\ Len(captured) \in Int /\ before \in 0 .. Len(captured)
  BY LenProperties DEF ProbeInv, ProbeTypeOK
<1>2. \A i \in before + 1 .. Len(captured) : captured[i] \in hellos \cup Torn
  BY <1>1, ElementOfSeq DEF Heard
<1>3. New \in Seq(hellos \cup Torn)
  BY <1>1, <1>2, SubSeqProperties DEF New
<1>4. h \in hellos \cup Torn
  BY <1>3, LenProperties, ElementOfSeq DEF NewHellos
<1> QED BY <1>4, ProbeConstants DEF Torn, NewHellos

LEMMA HeardStep == ProbeInv /\ HeardInv /\ [ProbeNext]_probeVars => HeardInv'
<1> SUFFICES ASSUME ProbeInv, HeardInv, [ProbeNext]_probeVars PROVE HeardInv'
  OBVIOUS
<1> USE DEF work, answers
<1>0. /\ ProbeInv'
      /\ Sends(Fixture)' = Sends(Fixture)
      /\ \A k : Asked(k)' = Asked(k)
  <2>1. replays' = replays
    BY DEF probeVars, ProbeNext, Prober, StartSupport, StartMap, Build, Get, GetReturns,
           Count, Judge, Verdict, SinkServes
  <2> QED BY <2>1, ProbeInvStep DEF Sends, Asked
<1>1. CASE stage' = "idle"
  <2>1. backlog' = <<>> /\ captured' = <<>>
    BY <1>0, <1>1 DEF ProbeInv, Stages
  <2> QED BY <2>1, EmptyIsHeard DEF HeardInv
<1>2. CASE /\ UNCHANGED <<job, backlog, captured>>
           /\ cand' = cand \/ (cand < Len(Candidates) /\ cand' = cand + 1)
  <2>1. CASE job = "map"
    <3>1. Asked(cand) \subseteq Asked(cand')
      BY <1>2 DEF Asked, ProbeInv, ProbeTypeOK
    <3>2. Heard(Asked(cand'))
      BY <2>1, <3>1, HeardMore DEF HeardInv
    <3> QED BY <1>0, <1>2, <2>1, <3>2 DEF HeardInv, Heard
  <2> QED BY <1>0, <1>2, <2>1 DEF HeardInv, Heard
<1>3. CASE StartSupport \/ StartMap
  <2>1. backlog' = <<>> /\ captured' = <<>>
    BY <1>3 DEF StartSupport, StartMap, ProbeInv, Stages
  <2> QED BY <2>1, EmptyIsHeard DEF HeardInv
<1>4. CASE Get
  <2>1. CASE UNCHANGED backlog
    BY <1>2, <1>4, <2>1 DEF Get
  <2>2. ASSUME NEW h \in Sends(Subject), backlog' = Append(backlog, h)
        PROVE  HeardInv'
    <3>1. UNCHANGED <<job, cand, captured>> /\ stage # "idle"
      BY <1>4 DEF Get
    <3>2. CASE job = "support"
      <4>1. h \in Sends(Fixture) \cup Torn
        BY <2>2, <3>1, <3>2, SubjectType
      <4>2. Heard(Sends(Fixture))'
        BY <1>0, <2>2, <3>1, <3>2, <4>1, AppendProperties DEF HeardInv, Heard
      <4> QED BY <1>0, <3>1, <3>2, <4>2 DEF HeardInv
    <3>3. CASE job = "map"
      <4>1. h \in Asked(cand) \cup Torn
        BY <2>2, <3>1, <3>3, SubjectType DEF Asked
      <4>2. backlog' \in Seq(Asked(cand) \cup Torn)
        BY <2>2, <3>3, <4>1, AppendProperties DEF HeardInv, Heard
      <4> QED BY <1>0, <3>1, <3>3, <4>2 DEF HeardInv, Heard
    <3> QED BY <3>1, <3>2, <3>3 DEF ProbeInv, ProbeTypeOK, Stages, HeardInv
  <2> QED BY <1>4, <2>1, <2>2 DEF Get
<1>5. CASE SinkServes
  <2>1. UNCHANGED <<job, cand>>
    BY <1>5 DEF SinkServes
  <2>2. job = "support" => Heard(Sends(Fixture))'
    BY <1>0, <1>5, ServedIsHeard DEF HeardInv, Heard
  <2>3. job = "map" =>
            backlog' \in Seq(Asked(cand) \cup Torn) /\ captured' \in Seq(Asked(cand) \cup Torn)
    BY <1>5, ServedIsHeard DEF HeardInv
  <2> QED BY <1>0, <2>1, <2>2, <2>3 DEF HeardInv, Heard
<1>6. CASE UNCHANGED probeVars
  BY <1>2, <1>6 DEF probeVars
<1>7. CASE Build \/ GetReturns \/ Count \/ Judge \/ Verdict
  BY <1>1, <1>2, <1>7 DEF Build, GetReturns, Count, Judge, Verdict, Finish, Proceed
<1> QED
  BY <1>3, <1>4, <1>5, <1>6, <1>7 DEF ProbeNext, Prober

-----------------------------------------------------------------------------
(* What was concluded from the hellos heard                                *)

HeardAndConcluded == ProbeInv /\ HeardInv /\ YesMeansReplayed /\ NeverCreditedEarly

\* identities and verdict change in a few steps only.
LEMMA Concluding ==
  ASSUME [ProbeNext]_probeVars
  PROVE  /\ identities' = identities \/ Count
         /\ verdict' = verdict \/ verdict' = "no" \/ Verdict
         /\ replays' = replays
BY DEF work, answers, probeVars, ProbeNext, Prober, StartSupport, StartMap, Build, Get, GetReturns,
       Count, Judge, Verdict, SinkServes

\* An httpcloak that replays nothing sends no hello of the fixture's family.
LEMMA ConcludedYes ==
  ASSUME ProbeInv, HeardInv, YesMeansReplayed, [ProbeNext]_probeVars
  PROVE  YesMeansReplayed'
<1>1. CASE Verdict /\ Seen
  <2>1. PICK h \in NewHellos : h.family = FixtureHello.family
    BY <1>1 DEF Seen
  <2>2. Heard(Sends(Fixture))
    BY <1>1 DEF Verdict, HeardInv
  <2>3. h \in Sends(Fixture)
    BY <2>1, <2>2, NewIsHeard, ProbeConstants
  <2>4. replays
    BY <2>1, <2>3, ProbeConstants DEF Sends
  <2> QED BY <2>4, Concluding DEF YesMeansReplayed
<1>2. CASE ~(Verdict /\ Seen)
  BY <1>2, Concluding DEF Verdict, YesMeansReplayed
<1> QED BY <1>1, <1>2

\* A family newly given to the subject was heard from it or from one before it.
LEMMA CreditedInTurn ==
  ASSUME ProbeInv, HeardInv, NeverCreditedEarly, [ProbeNext]_probeVars
  PROVE  NeverCreditedEarly'
<1> SUFFICES ASSUME NEW f \in Families \ {Garbled.family}, NEW i \in DOMAIN Candidates,
                    identities'[f] = Candidates[i]
             PROVE  \E j \in 1 .. i : \E h \in HellosOf[Candidates[j]] : h.family = f
  BY DEF NeverCreditedEarly
<1>1. CASE identities'[f] = identities[f]
  BY <1>1 DEF NeverCreditedEarly
<1>2. CASE identities'[f] # identities[f]
  <2>1. Count
    BY <1>2, Concluding
  <2>2. Candidates[i] # NoBase
    BY ProbeConstants, ElementOfSeq, LenProperties
  <2>3. identities' = Learnt(Subject)
    BY <1>2, <2>1, <2>2 DEF Count, NoIdentities
  <2>4. identities'[f] = Subject /\ \E h \in NewHellos : h.family = f
    BY <1>2, <2>3 DEF Learnt
  <2>5. PICK h \in NewHellos : h.family = f
    BY <2>4
  <2>6. h \in Asked(cand)
    BY <2>1, <2>5, NewIsHeard DEF Count, HeardInv
  <2>7. cand = i
    BY <2>1, <2>4, SubjectType, ProbeConstants, LenProperties DEF Count
  <2> QED BY <2>5, <2>6, <2>7 DEF Asked
<1> QED BY <1>1, <1>2

LEMMA ConcludedInit == MirroringInit => HeardAndConcluded
<1> SUFFICES ASSUME ProbeInit PROVE HeardAndConcluded
  BY DEF MirroringInit
<1>1. ProbeInv
  BY ProbeInvInit
<1>2. HeardInv
  BY DEF ProbeInit, HeardInv
<1>3. YesMeansReplayed
  BY DEF ProbeInit, YesMeansReplayed
<1>4. NeverCreditedEarly
  BY ProbeConstants, ElementOfSeq, LenProperties
  DEF ProbeInit, NoIdentities, NeverCreditedEarly
<1> QED BY <1>1, <1>2, <1>3, <1>4 DEF HeardAndConcluded

\* Composed with the registry, the prober takes the same steps.
LEMMA ProbeSteps == [MirroringNext]_mirroringVars => [ProbeNext]_probeVars
  BY DEF MirroringNext, mirroringVars, MirrorClient

\* The prober's inductive invariant, whatever becomes of the presets meanwhile.
THEOREM ProbeInvariant == MirroringSpec => []HeardAndConcluded
<1>1. HeardAndConcluded /\ [MirroringNext]_mirroringVars => HeardAndConcluded'
  BY ProbeSteps, ProbeInvStep, HeardStep, ConcludedYes, CreditedInTurn DEF HeardAndConcluded
<1> QED BY <1>1, ConcludedInit, PTL DEF MirroringSpec

\* Type correctness of the prober and of the sink's thread.
THEOREM ProbeTypeCorrect == MirroringSpec => []ProbeTypeOK
<1>1. HeardAndConcluded => ProbeTypeOK
  BY DEF HeardAndConcluded, ProbeInv
<1> QED BY <1>1, ProbeInvariant, PTL

\* The capability probe never says yes to an httpcloak that does not replay
\* (identify.py:178-219), however its hello is delayed, torn or lost.
THEOREM YesIsTrue == MirroringSpec => []YesMeansReplayed
<1>1. HeardAndConcluded => YesMeansReplayed
  BY DEF HeardAndConcluded
<1> QED BY <1>1, ProbeInvariant, PTL

\* No identity goes to a preset before one that has it was asked: a hello read
\* after its get timed out can only be counted for a later candidate.
THEOREM NoEarlyCredit == MirroringSpec => []NeverCreditedEarly
<1>1. HeardAndConcluded => NeverCreditedEarly
  BY DEF HeardAndConcluded
<1> QED BY <1>1, ProbeInvariant, PTL

\* An identity, once learnt, keeps its preset unless the map is given up
\* (identify.py:95).
THEOREM NamesAreKept == MirroringSpec => FirstNameWins
<1>1. [ProbeNext]_probeVars =>
        [\A f \in Families : identities[f] # NoBase =>
            identities'[f] \in {identities[f], NoBase}]_probeVars
  <2> SUFFICES ASSUME [ProbeNext]_probeVars, NEW f \in Families, identities[f] # NoBase
               PROVE  identities'[f] \in {identities[f], NoBase}
    OBVIOUS
  <2>1. CASE identities' = identities
    BY <2>1
  <2>2. CASE Count
    BY <2>2 DEF Count, Learnt, NoIdentities
  <2> QED BY <2>1, <2>2, Concluding
<1>2. [MirroringNext]_mirroringVars =>
        [\A f \in Families : identities[f] # NoBase =>
            identities'[f] \in {identities[f], NoBase}]_probeVars
  BY <1>1, ProbeSteps
<1> QED BY <1>2, PTL DEF MirroringSpec, FirstNameWins

-----------------------------------------------------------------------------
(* While every get waits for its hello to be read                          *)

\* The records of the candidate's turn are all its own.
OwnRecords == \A i \in before + 1 .. Len(captured) : captured[i] \in HellosOf[Subject]

\* At most one hello is on its way, and it is the subject's.
OneOnItsWay ==
    /\ stage # "wait" => backlog = <<>>
    /\ stage = "wait" => Len(backlog) <= 1 /\ backlog \in Seq(HellosOf[Subject])
    /\ stage \in {"get", "wait", "count", "judge"} => OwnRecords
    /\ stage = "judge" => orders \subseteq {h.order : h \in HellosOf[Subject]}

InTime == ~late /\ job = "map" => OneOnItsWay

\* Two orders among the hellos of a preset are of two hellos of it.
LEMMA TwoOrders ==
  ASSUME NEW n \in Presets, NEW some \in SUBSET {h.order : h \in HellosOf[n]},
         Cardinality(some) > 1
  PROVE  Cardinality(HellosOf[n]) > 1
<1>1. IsFiniteSet(HellosOf[n]) /\ Cardinality(HellosOf[n]) \in Nat
  BY ProbeConstants, FS_CardinalityType
<1>2. CASE Cardinality(HellosOf[n]) = 0
  <2>1. some = {}
    BY <1>1, <1>2, FS_EmptySet
  <2> QED BY <2>1, FS_EmptySet
<1>3. CASE Cardinality(HellosOf[n]) = 1
  <2>1. PICK x : HellosOf[n] = {x}
    BY <1>1, <1>3, FS_Singleton
  <2>2. some \subseteq {x.order}
    BY <2>1
  <2>3. some = {} \/ some = {x.order}
    BY <2>2
  <2>4. Cardinality({}) = 0 /\ Cardinality({x.order}) = 1
    BY FS_EmptySet, FS_Singleton
  <2>5. Cardinality(some) \in {0, 1}
    BY <2>3, <2>4
  <2> QED BY <2>5
<1> QED BY <1>1, <1>2, <1>3

\* In time, what is counted was sent by the subject.
LEMMA NewIsOwn ==
  ASSUME ProbeInv, OwnRecords, NEW h \in NewHellos
  PROVE  h \in HellosOf[Subject]
<1>1. before + 1 \in Int /\ Len(captured) \in Int
  BY LenProperties DEF ProbeInv, ProbeTypeOK
<1>2. New \in Seq(HellosOf[Subject])
  BY <1>1, SubSeqProperties DEF New, OwnRecords
<1> QED BY <1>2, LenProperties, ElementOfSeq DEF NewHellos

\* Once late, a job remains so.
LEMMA LateStays ==
  ASSUME [ProbeNext]_probeVars, ~late'
  PROVE  ~late \/ StartMap
<1>1. CASE GetReturns
  BY <1>1, Zenon DEF GetReturns
<1>2. CASE late' = late
  BY <1>2
<1> QED
  BY <1>1, <1>2
  DEF work, answers, probeVars, ProbeNext, Prober, StartSupport, Build, Get, Count, Judge,
      Verdict, SinkServes

LEMMA InTimeStep == ProbeInv /\ InTime /\ [ProbeNext]_probeVars => InTime'
<1> SUFFICES ASSUME ProbeInv, InTime, [ProbeNext]_probeVars, ~late', job' = "map"
             PROVE  OneOnItsWay'
  BY DEF InTime
<1> USE DEF work, answers
<1>0. ProbeInv' /\ Len(captured) \in Nat /\ before \in Nat
  BY ProbeInvStep, LenProperties DEF ProbeInv, ProbeTypeOK
<1>1. CASE stage' = "idle"
  BY <1>0, <1>1 DEF ProbeInv, Stages, OneOnItsWay
<1>2. CASE StartSupport \/ StartMap
  BY <1>2 DEF StartSupport, StartMap, ProbeInv, Stages, OneOnItsWay
<1>3. CASE UNCHANGED probeVars
  BY <1>3 DEF probeVars, InTime, OneOnItsWay, OwnRecords, Subject
<1> SUFFICES ASSUME Prober \/ SinkServes, stage' # "idle" PROVE OneOnItsWay'
  BY <1>1, <1>2, <1>3 DEF ProbeNext
<1>4. ~late /\ job = "map" /\ OneOnItsWay /\ stage # "idle"
  <2>1. job = "map" /\ stage # "idle"
    BY DEF Prober, Build, Get, GetReturns, Count, Judge, Verdict, SinkServes
  <2>2. ~late
    BY <2>1, LateStays DEF StartMap
  <2> QED BY <2>1, <2>2, Zenon DEF InTime
<1>5. Subject \in Presets /\ Sends(Subject) = HellosOf[Subject]
  BY <1>4, SubjectType
<1>6. CASE Build
  <2>1. CASE stage' = "get"
    <3>1. backlog' = <<>> /\ before' = Len(captured) /\ captured' = captured
      BY <1>4, <1>6, <2>1 DEF Build, Finish, Proceed, OneOnItsWay
    <3>2. OwnRecords'
      BY <1>0, <3>1 DEF OwnRecords
    <3> QED BY <2>1, <3>1, <3>2 DEF OneOnItsWay
  <2>2. CASE stage' = "build" /\ UNCHANGED backlog
    BY <1>4, <1>6, <2>2 DEF Build, OneOnItsWay
  <2> QED BY <1>4, <1>6, <2>1, <2>2 DEF Build, Finish, Proceed
<1>7. CASE Get
  <2>1. CASE GetOver /\ UNCHANGED backlog
    BY <1>4, <1>7, <2>1 DEF Get, GetOver, OneOnItsWay, OwnRecords, Subject
  <2>2. ASSUME NEW h \in Sends(Subject), backlog' = Append(backlog, h), stage' = "wait"
        PROVE  OneOnItsWay'
    <3>1. backlog = <<>> /\ OwnRecords
      BY <1>4, <1>7 DEF Get, OneOnItsWay
    <3>2. Len(backlog') <= 1 /\ backlog' \in Seq(HellosOf[Subject])
      <4>1. backlog \in Seq(HellosOf[Subject]) /\ Len(backlog) = 0 /\ h \in HellosOf[Subject]
        BY <1>5, <2>2, <3>1, EmptySeq
      <4> HIDE <3>1
      <4> QED BY <2>2, <4>1, AppendProperties
    <3>3. UNCHANGED <<job, cand, captured, before>>
      BY <1>7 DEF Get
    <3> QED BY <2>2, <3>1, <3>2, <3>3 DEF OneOnItsWay, OwnRecords, Subject
  <2> QED BY <1>7, <2>1, <2>2 DEF Get
<1>8. CASE GetReturns
  <2>1. backlog = <<>>
    BY <1>8 DEF GetReturns
  <2> QED
    BY <1>4, <1>8, <2>1 DEF GetReturns, GetOver, OneOnItsWay, OwnRecords, Subject
<1>9. CASE Count
  <2>1. /\ stage = "count" /\ stage' = "judge" /\ orders' = {h.order : h \in NewHellos}
        /\ UNCHANGED <<job, cand, before, backlog, captured>>
    BY <1>9 DEF Count, Finish
  <2>2. orders' \subseteq {h.order : h \in HellosOf[Subject]}
    BY <1>4, <2>1, NewIsOwn DEF OneOnItsWay
  <2> QED BY <1>4, <2>1, <2>2 DEF OneOnItsWay, OwnRecords, Subject
<1>10. CASE Judge
  <2>1. stage' = "build" /\ UNCHANGED backlog /\ stage = "judge"
    BY <1>10 DEF Judge, Proceed, Finish
  <2> QED BY <1>4, <2>1 DEF OneOnItsWay
<1>11. CASE Verdict
  BY <1>4, <1>11 DEF Verdict
<1>12. CASE SinkServes
  <2>1. UNCHANGED <<job, stage, cand, before, orders>> /\ backlog # <<>> /\ backlog' = Tail(backlog)
    BY <1>12 DEF SinkServes
  <2>2. stage = "wait" /\ Len(backlog) <= 1 /\ backlog \in Seq(HellosOf[Subject]) /\ OwnRecords
    BY <1>4, <2>1 DEF OneOnItsWay
  <2>3. ~HungUp
    BY <2>2, LenProperties DEF HungUp
  <2>4. /\ Head(backlog) \in HellosOf[Subject] /\ Tail(backlog) \in Seq(HellosOf[Subject])
        /\ Len(Tail(backlog)) <= 1
    BY <2>1, <2>2, HeadTailProperties, LenProperties
  <2>5. captured' = captured \/ captured' = Append(captured, Head(backlog))
    BY <1>12, <2>3 DEF SinkServes
  <2>6. OwnRecords'
    <3>1. captured \in Seq(ProbeHellos \cup {Short, Cut}) /\ Head(backlog) \in ProbeHellos
      BY <1>0, <2>1, HeadTailProperties DEF ProbeInv, ProbeTypeOK
    <3>2. CASE captured' = captured
      BY <2>1, <2>2, <3>2 DEF OwnRecords, Subject
    <3>3. CASE captured' = Append(captured, Head(backlog))
      <4>1. /\ Len(captured') = Len(captured) + 1 /\ captured'[Len(captured) + 1] = Head(backlog)
            /\ \A i \in 1 .. Len(captured) : captured'[i] = captured[i]
        BY <3>1, <3>3, AppendProperties
      <4> QED BY <1>0, <2>1, <2>2, <2>4, <4>1 DEF OwnRecords, Subject
    <3> QED BY <2>5, <3>2, <3>3
  <2> QED BY <2>1, <2>2, <2>4, <2>6 DEF OneOnItsWay, Subject
<1> QED
  BY <1>6, <1>7, <1>8, <1>9, <1>10, <1>11, <1>12 DEF Prober

\* In time, what is concluded of a preset is true of it.
LEMMA CreditedStep ==
  ASSUME ProbeInv, InTime, CreditedToItsSender, [ProbeNext]_probeVars
  PROVE  CreditedToItsSender'
<1> SUFFICES ASSUME ~late'
             PROVE  /\ \A f \in Families : identities'[f] # NoBase =>
                          \E h \in HellosOf[identities'[f]] : h.family = f
                    /\ \A n \in reordering' : Cardinality(HellosOf[n]) > 1
  BY DEF CreditedToItsSender
<1> USE DEF work, answers
<1>0. ~late \/ StartMap
  BY LateStays
<1>1. CASE Count /\ identities' = Learnt(Subject) /\ reordering' = reordering
  <2>1. ~late
    BY <1>0, <1>1 DEF Count, StartMap
  <2>2. OneOnItsWay
    BY <1>1, <2>1, Zenon DEF Count, InTime
  <2>3. OwnRecords
    BY <1>1, <2>2 DEF Count, OneOnItsWay
  <2>4. ASSUME NEW f \in Families, identities'[f] # NoBase
        PROVE  \E h \in HellosOf[identities'[f]] : h.family = f
    <3>1. CASE identities'[f] = identities[f]
      BY <2>1, <2>4, <3>1 DEF CreditedToItsSender
    <3>2. CASE identities'[f] # identities[f]
      <4>1. identities'[f] = Subject /\ \E h \in NewHellos : h.family = f
        BY <1>1, <3>2 DEF Learnt
      <4> QED BY <2>3, <4>1, NewIsOwn
    <3> QED BY <3>1, <3>2
  <2> QED BY <1>1, <2>1, <2>4 DEF CreditedToItsSender
<1>2. CASE identities' = NoIdentities /\ reordering' = {}
  BY <1>2 DEF NoIdentities
<1>3. CASE Judge
  <2>1. ~late /\ job = "map" /\ identities' = identities /\ Subject \in Presets
    BY <1>0, <1>3, SubjectType DEF Judge, StartMap, ProbeInv, Stages
  <2>2. orders \in SUBSET {h.order : h \in HellosOf[Subject]}
    BY <1>3, <2>1 DEF Judge, InTime, OneOnItsWay
  <2>3. ASSUME NEW n \in reordering', n \notin reordering PROVE Cardinality(HellosOf[n]) > 1
    BY <1>3, <2>1, <2>2, <2>3, TwoOrders DEF Judge
  <2> QED BY <2>1, <2>3 DEF CreditedToItsSender
<1>4. CASE UNCHANGED <<identities, reordering>> /\ ~late
  BY <1>4 DEF CreditedToItsSender
<1>6. CASE Count
  BY <1>1, <1>2, <1>6 DEF Count
<1>5. CASE StartMap
  BY <1>2, <1>5 DEF StartMap, ProbeInv, Stages
<1>7. CASE UNCHANGED <<identities, reordering>>
  BY <1>0, <1>4, <1>5, <1>7
<1> QED
  BY <1>3, <1>5, <1>6, <1>7
  DEF ProbeNext, Prober, probeVars, StartSupport, Build, Get, GetReturns, Verdict, SinkServes

CreditInv == ProbeInv /\ InTime /\ CreditedToItsSender

LEMMA CreditInvInit == ProbeInit => CreditInv
<1> SUFFICES ASSUME ProbeInit PROVE CreditInv
  OBVIOUS
<1>1. InTime
  BY DEF ProbeInit, InTime
<1>2. CreditedToItsSender
  BY DEF ProbeInit, NoIdentities, CreditedToItsSender
<1> QED BY <1>1, <1>2, ProbeInvInit DEF CreditInv

\* The invariant of a prober none of whose gets was too late.
THEOREM CreditInvariant == MirroringSpec => []CreditInv
<1>1. MirroringInit => CreditInv
  BY CreditInvInit DEF MirroringInit
<1>2. CreditInv /\ [MirroringNext]_mirroringVars => CreditInv'
  BY ProbeSteps, ProbeInvStep, InTimeStep, CreditedStep DEF CreditInv
<1> QED BY <1>1, <1>2, PTL DEF MirroringSpec

\* While no get has left its hello unread, identities and reorderings belong to
\* the presets they were measured of (identify.py:75-101, 246-262).
THEOREM CreditIsDue == MirroringSpec => []CreditedToItsSender
<1>1. CreditInv => CreditedToItsSender
  BY DEF CreditInv
<1> QED BY <1>1, CreditInvariant, PTL

-----------------------------------------------------------------------------
(* Presets                                                                  *)

\* The bases a client may be mirrored on are bases.
LEMMA BasesForAreBases == \A profile : BasesFor(profile) \subseteq Bases
  BY DEF BasesFor, Refined

LEMMA MirrorInvStep == MirrorInv /\ [MirroringNext]_mirroringVars => MirrorInv'
<1> SUFFICES ASSUME MirrorInv, [MirroringNext]_mirroringVars PROVE MirrorInv'
  OBVIOUS
<1>1. CASE UNCHANGED mirrorVars
  BY <1>1, StutterKeepsInv
<1>2. CASE MirrorClient
  <2>1. PICK client \in Clients : \E profile \in ProfilesOf(client) :
            \E base \in BasesFor(profile) :
                \E result \in {Key(profile, base, PermutesBase(base)), NoName} :
                    Ensure(profile, base, PermutesBase(base), result)
    BY <1>2 DEF MirrorClient
  <2>2. PICK profile \in Profiles, base \in Bases :
            \E result : Ensure(profile, base, PermutesBase(base), result)
    BY <2>1, BasesForAreBases DEF ProfilesOf
  <2> QED BY <2>2, EnsureKeepsInv
<1>3. CASE CloseMirror
  BY <1>3, CloseKeepsInv
<1>4. ASSUME NEW file \in PresetFiles, LoadPreset(file) PROVE MirrorInv'
  BY <1>4, LoadKeepsInv
<1> QED
  BY <1>1, <1>2, <1>3, <1>4 DEF MirroringNext, mirroringVars

\* The inductive invariant holds in every reachable state.
THEOREM MirrorInvariant == MirroringSpec => []MirrorInv
<1>1. MirroringInit => MirrorInv
  BY MirrorInvInit DEF MirroringInit
<1>2. MirrorInv /\ [MirroringNext]_mirroringVars => MirrorInv'
  BY MirrorInvStep
<1> QED BY <1>1, <1>2, PTL DEF MirroringSpec

\* The registry is type correct: what ensure remembers and httpcloak has under
\* a name is a document (mirror.py:212-303).
THEOREM MirrorTypeCorrect == MirroringSpec => []MirrorTypeOK
<1>1. MirrorInv => MirrorTypeOK
  BY DEF MirrorInv
<1> QED BY <1>1, MirrorInvariant, PTL

\* Every name ensure gives out is registered with httpcloak, whatever is
\* refused, taken or loaded by the user in between.
THEOREM ServedRegistered == MirroringSpec => []ServedIsRegistered
<1>1. MirrorInv => ServedIsRegistered
  BY DEF MirrorInv
<1> QED BY <1>1, MirrorInvariant, PTL

\* A document under a name is of the client the name was made from.
THEOREM NamesIdentify == MirroringSpec => []NameCoversIdentity
<1>1. MirrorInv => NameCoversIdentity
  BY DEF MirrorInv
<1> QED BY <1>1, MirrorInvariant, PTL

\* Blunt mimicry is used exactly for the hellos that need it.
THEOREM BluntJustified == MirroringSpec => []BluntOnlyWhenRefused
<1>1. MirrorInv => BluntOnlyWhenRefused
  BY DEF MirrorInv
<1> QED BY <1>1, MirrorInvariant, PTL

-----------------------------------------------------------------------------
(* The presets minted and what the prober learnt                           *)

\* Nothing is minted before the map is loaded, and the map loaded is final.
MintedAfterLoading == ~loaded => Minted = {}

ReasonInv ==
    /\ CreditInv
    /\ MintedAfterLoading
    /\ PermutesWithReason
    /\ BaseIsOfItsStack

LEMMA LoadedIsFinal ==
  ASSUME ProbeInv, loaded, [ProbeNext]_probeVars
  PROVE  UNCHANGED probeVars
BY DEF ProbeInv, Stages, probeVars, ProbeNext, Prober, StartSupport, StartMap, Build, Get,
       GetReturns, Count, Judge, Verdict, SinkServes

\* A base of which `permutes` says yes has a reordering preset on its stack.
LEMMA PermutesBaseReason ==
  ASSUME CreditInv, ~late, NEW base \in Bases, PermutesBase(base)
  PROVE  \E p \in Presets : HeadOf[p] = HeadOf[base] /\ Cardinality(HellosOf[p]) > 1
<1>1. \E p \in reordering : HeadOf[p] = HeadOf[base]
  BY DEF PermutesBase, Siblings
<1>2. reordering \subseteq Presets
  BY DEF CreditInv, ProbeInv, ProbeTypeOK
<1> QED BY <1>1, <1>2 DEF CreditInv, CreditedToItsSender

\* The name a client is given says why.
LEMMA NameHasReason ==
  ASSUME CreditInv, ~late, NEW client \in Clients, NEW profile \in ProfilesOf(client),
         NEW base \in BasesFor(profile),
         NEW name, name = Key(profile, base, PermutesBase(base))
  PROVE  /\ name.permute =>
              \/ \E p \in Presets : HeadOf[p] = HeadOf[name.base] /\ Cardinality(HellosOf[p]) > 1
              \/ /\ name.id \in {h.id : h \in client}
                 /\ Cardinality({h.order : h \in client}) > 1
         /\ ByTls /\ Match(FamilyOf[name.id]) # NoBase =>
              \E p \in Presets : HeadOf[p] = HeadOf[name.base]
                                 /\ \E h \in HellosOf[p] : h.family = FamilyOf[name.id]
<1>1. /\ name.id = profile.hello.id /\ name.base = base
      /\ name.permute = (PermutesBase(base) \/ Permutes(profile))
  BY DEF Key
<1>2. profile.hello \in client /\ profile.hello \in Hellos
      /\ profile.orders_seen \in SUBSET {h.order : h \in client}
  BY MirroringConstants DEF ProfilesOf
<1>3. base \in Bases
  BY BasesForAreBases
<1>4. ASSUME PermutesBase(base)
      PROVE  \E p \in Presets : HeadOf[p] = HeadOf[name.base] /\ Cardinality(HellosOf[p]) > 1
  BY <1>1, <1>3, <1>4, PermutesBaseReason
<1>5. ASSUME Permutes(profile)
      PROVE  /\ name.id \in {h.id : h \in client}
             /\ Cardinality({h.order : h \in client}) > 1
  <2>1. IsFiniteSet({h.order : h \in client})
    BY MirroringConstants
  <2>2. /\ Cardinality(profile.orders_seen) <= Cardinality({h.order : h \in client})
        /\ Cardinality({h.order : h \in client}) \in Nat
        /\ Cardinality(profile.orders_seen) \in Nat
    BY <1>2, <2>1, FS_Subset, FS_CardinalityType
  <2> QED BY <1>1, <1>2, <1>5, <2>2 DEF Permutes
<1>6. ASSUME ByTls, Match(FamilyOf[name.id]) # NoBase
      PROVE  \E p \in Presets : HeadOf[p] = HeadOf[name.base]
                                /\ \E h \in HellosOf[p] : h.family = FamilyOf[name.id]
  <2> DEFINE p == Match(FamilyOf[name.id])
  <2>1. FamilyOf[name.id] \in Families
    BY <1>1, <1>2, MirroringConstants DEF Ids
  <2>2. p \in Presets /\ \E h \in HellosOf[p] : h.family = FamilyOf[name.id]
    BY <1>6, <2>1 DEF Match, CreditInv, CreditedToItsSender, ProbeInv, ProbeTypeOK
  <2>3. HeadOf[base] = HeadOf[p]
    BY <1>1, <1>6 DEF BasesFor, Refined
  <2> QED BY <1>1, <2>2, <2>3
<1> QED BY <1>1, <1>4, <1>5, <1>6

LEMMA ReasonStep ==
  MirrorTypeOK /\ ReasonInv /\ [MirroringNext]_mirroringVars => ReasonInv'
<1> SUFFICES ASSUME MirrorTypeOK, ReasonInv, [MirroringNext]_mirroringVars PROVE ReasonInv'
  OBVIOUS
<1>0. CreditInv'
  BY ProbeSteps, ProbeInvStep, InTimeStep, CreditedStep DEF ReasonInv, CreditInv
<1>1. CASE UNCHANGED mirrorVars
  <2>1. Minted' = Minted
    BY <1>1 DEF Minted, mirrorVars
  <2>2. CASE loaded
    <3>1. UNCHANGED probeVars
      BY <2>2, ProbeSteps, LoadedIsFinal DEF ReasonInv, CreditInv
    <3> QED
      BY <1>0, <2>1, <3>1
      DEF probeVars, answers, ReasonInv, MintedAfterLoading, PermutesWithReason, BaseIsOfItsStack, Match
  <2>3. CASE ~loaded
    <3>1. Minted' = {}
      BY <2>1, <2>3 DEF ReasonInv, MintedAfterLoading
    <3> QED
      BY <1>0, <3>1 DEF ReasonInv, MintedAfterLoading, PermutesWithReason, BaseIsOfItsStack
  <2> QED BY <2>2, <2>3
<1>2. CASE MirrorClient
  <2>1. PICK client \in Clients : \E profile \in ProfilesOf(client) :
            \E base \in BasesFor(profile) :
                \E result \in {Key(profile, base, PermutesBase(base)), NoName} :
                    Ensure(profile, base, PermutesBase(base), result)
    BY <1>2 DEF MirrorClient
  <2>2. PICK profile \in ProfilesOf(client) : \E base \in BasesFor(profile) :
            \E result \in {Key(profile, base, PermutesBase(base)), NoName} :
                Ensure(profile, base, PermutesBase(base), result)
    BY <2>1
  <2>3. PICK base \in BasesFor(profile) :
            \E result : Ensure(profile, base, PermutesBase(base), result)
    BY <2>2
  <2> DEFINE name == Key(profile, base, PermutesBase(base))
  <2>4. UNCHANGED probeVars /\ loaded
    BY <1>2 DEF MirrorClient
  <2>5. CASE docs[name] # NoDoc
    BY <1>1, <2>3, <2>5 DEF Ensure
  <2>6. CASE docs[name] = NoDoc
    <3>1. PICK answer : Mint(name, profile, base, answer)
      BY <2>3, <2>6 DEF Ensure
    <3>2. \E doc : docs' \in {docs, [docs EXCEPT ![name] = doc]}
      BY <3>1 DEF Mint
    <3>3. Minted' \subseteq Minted \cup {name}
      BY <3>2 DEF Minted, MirrorTypeOK
    <3>4. ~late => /\ PermutesWithReason' /\ BaseIsOfItsStack'
      <4> SUFFICES ASSUME ~late PROVE PermutesWithReason' /\ BaseIsOfItsStack'
        OBVIOUS
      <4>1. PICK n : n = name
        OBVIOUS
      <4>2. /\ n.permute =>
              \/ \E p \in Presets : HeadOf[p] = HeadOf[n.base] /\ Cardinality(HellosOf[p]) > 1
              \/ /\ n.id \in {h.id : h \in client}
                 /\ Cardinality({h.order : h \in client}) > 1
            /\ ByTls /\ Match(FamilyOf[n.id]) # NoBase =>
              \E p \in Presets : HeadOf[p] = HeadOf[n.base]
                                 /\ \E h \in HellosOf[p] : h.family = FamilyOf[n.id]
        BY <4>1, NameHasReason DEF ReasonInv
      <4>3. identities' = identities
        BY <2>4 DEF probeVars, answers
      <4> HIDE DEF name
      <4>4. PermutesWithReason'
        BY <3>3, <4>1, <4>2 DEF ReasonInv, PermutesWithReason
      <4>5. BaseIsOfItsStack'
        BY <3>3, <4>1, <4>2, <4>3 DEF ReasonInv, BaseIsOfItsStack, Match
      <4> QED BY <4>4, <4>5
    <3>5. late' = late /\ loaded' = loaded
      BY <2>4 DEF probeVars, answers
    <3>6. CASE late
      BY <1>0, <2>4, <3>5, <3>6, Zenon
      DEF ReasonInv, MintedAfterLoading, PermutesWithReason, BaseIsOfItsStack
    <3>7. CASE ~late
      BY <1>0, <2>4, <3>4, <3>5, <3>7, Zenon DEF ReasonInv, MintedAfterLoading
    <3> QED BY <3>6, <3>7
  <2> QED BY <2>5, <2>6
<1>3. CASE CloseMirror
  <2>1. Minted' = {}
    BY <1>3 DEF CloseMirror, Minted
  <2> QED
    BY <1>0, <2>1 DEF ReasonInv, MintedAfterLoading, PermutesWithReason, BaseIsOfItsStack
<1>4. ASSUME NEW file \in PresetFiles, LoadPreset(file), UNCHANGED probeVars
      PROVE  ReasonInv'
  <2>1. Minted' = Minted
    BY <1>4 DEF LoadPreset, Minted
  <2> QED
    BY <1>0, <1>4, <2>1
    DEF probeVars, answers, ReasonInv, MintedAfterLoading, PermutesWithReason, BaseIsOfItsStack, Match
<1> QED
  BY <1>1, <1>2, <1>3, <1>4 DEF MirroringNext, mirroringVars

\* The invariant that ties the presets minted to what the prober learnt.
THEOREM ReasonInvariant == MirroringSpec => []ReasonInv
<1>1. MirroringInit => ReasonInv
  <2> SUFFICES ASSUME MirrorInit, ProbeInit PROVE ReasonInv
    BY DEF MirroringInit
  <2>1. Minted = {}
    BY DEF MirrorInit, Minted
  <2> QED
    BY <2>1, CreditInvInit
    DEF ReasonInv, MintedAfterLoading, PermutesWithReason, BaseIsOfItsStack
<1>2. MirrorTypeOK /\ ReasonInv /\ [MirroringNext]_mirroringVars => ReasonInv'
  BY ReasonStep
<1> QED BY <1>1, <1>2, MirrorTypeCorrect, PTL DEF MirroringSpec

\* A preset reshuffles its extensions only when its base's stack or its client
\* does: the samples are not mixed up on the way (mirror.py:222-227).
THEOREM PermutesJustified == MirroringSpec => []PermutesWithReason
<1>1. ReasonInv => PermutesWithReason
  BY DEF ReasonInv
<1> QED BY <1>1, ReasonInvariant, PTL

\* "TLS decides the family" (mirror.py:55): the base of a recognised client is
\* of its stack, whatever its User-Agent says.
THEOREM BaseJustified == MirroringSpec => []BaseIsOfItsStack
<1>1. ReasonInv => BaseIsOfItsStack
  BY DEF ReasonInv
<1> QED BY <1>1, ReasonInvariant, PTL

================================================================================
