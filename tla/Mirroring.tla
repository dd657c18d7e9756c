------------------------------- MODULE Mirroring -------------------------------
(***************************************************************************)
(* How a captured client gets its preset: Bridge._mirror_preset, composed  *)
(* from the identification of its TLS stack (IdentityProbe) and the        *)
(* presets minted for it (MirrorRegistry).  The prober blocks the event    *)
(* loop, so nothing is minted or loaded while it runs.                     *)
(***************************************************************************)
EXTENDS MirrorRegistry, IdentityProbe

CONSTANTS
    Clients,       \* the clients, each the set of hellos it may send
    FamilyOf,      \* FamilyOf[i]: the family of the client with stable_id i
    MaxMinted,     \* bound on the presets minted at a time
    ByTls          \* the option mitmcloak_identify_by_tls

ASSUME MirroringConstants ==
    /\ Clients \subseteq SUBSET Hellos
    /\ \A client \in Clients : IsFiniteSet({h.order : h \in client})
    /\ FamilyOf \in [Ids -> Families] /\ Bases \subseteq Presets
    /\ \A i \in DOMAIN Candidates : Candidates[i] \in Bases
    /\ ByTls \in BOOLEAN /\ MaxMinted \in Nat

mirroringVars == <<mirrorVars, probeVars>>

MirroringInit == MirrorInit /\ ProbeInit

\* Slip: the User-Agent chooses the family too.
RefinedFreely(base) == Bases

\* refine_platform: the User-Agent may choose another platform of the stack.
Refined(base) == {b \in Bases : HeadOf[b] = HeadOf[base]}

\* The bases _mirror_preset may choose: by the TLS stack, or else by the
\* User-Agent and the preset option, which may say anything.
BasesFor(profile) ==
    LET base == Match(FamilyOf[profile.hello.id])
    IN  IF ByTls /\ base # NoBase THEN Refined(base) ELSE Bases

\* What a connection of one client can have shown.
ProfilesOf(client) ==
    {profile \in Profiles :
        /\ Observed(profile)
        /\ profile.hello \in client /\ profile.psk_hello \in client \cup {NoHello}
        /\ profile.orders_seen \subseteq {h.order : h \in client}}

Minted == {n \in Names : docs[n] # NoDoc}

\* The answer of `permutes` loads the map, even when `match` was not asked.
MirrorClient ==
    /\ loaded
    /\ Cardinality(Minted) < MaxMinted
    /\ \E client \in Clients : \E profile \in ProfilesOf(client) :
          \E base \in BasesFor(profile) :
              \E result \in {Key(profile, base, PermutesBase(base)), NoName} :
                  Ensure(profile, base, PermutesBase(base), result)
    /\ UNCHANGED probeVars

MirroringNext ==
    \/ ProbeNext /\ UNCHANGED mirrorVars
    \/ MirrorClient
    \/ /\ stage = "idle"
       /\ CloseMirror \/ \E file \in PresetFiles : LoadPreset(file)
       /\ UNCHANGED probeVars

MirroringSpec ==
    MirroringInit /\ [][MirroringNext]_mirroringVars /\ ProbeFairness

-----------------------------------------------------------------------------
(* Properties                                                              *)

\* A preset is told to reshuffle its extensions only when the presets of its
\* base's stack do, or its client was itself seen in two orders: the prober's
\* samples are not mixed up on the way (mirror.py:222-227, identify.py:259).
PermutesWithReason ==
    ~late => \A n \in Minted : n.permute =>
        \/ \E p \in Presets : HeadOf[p] = HeadOf[n.base] /\ Cardinality(HellosOf[p]) > 1
        \/ \E client \in Clients :
              /\ n.id \in {h.id : h \in client}
              /\ Cardinality({h.order : h \in client}) > 1

\* A client whose stack was recognised is mirrored on a base of that stack,
\* whatever its User-Agent says: "TLS decides the family and the User-Agent
\* decides the variant" (mirror.py:55-56).
BaseIsOfItsStack ==
    ~late /\ ByTls => \A n \in Minted : Match(FamilyOf[n.id]) # NoBase =>
        \E p \in Presets : HeadOf[p] = HeadOf[n.base]
                           /\ \E h \in HellosOf[p] : h.family = FamilyOf[n.id]

=============================================================================
