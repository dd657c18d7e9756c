---------------------------- MODULE MirrorRegistry ----------------------------
(***************************************************************************)
(* mitmcloak/mirror.py: the presets minted from captured clients, and the  *)
(* process-global, name-keyed registry of httpcloak they live in, which    *)
(* preset files share and whose code is not in this repository.            *)
(*                                                                         *)
(* A ClientHello is a record: its stable_id, whether it resumes a session, *)
(* its extension order and whether it is QUIC's.  The name of a preset is  *)
(* the digest of its cache key, so the key stands for the name: two keys   *)
(* with one digest are not modelled.                                       *)
(***************************************************************************)
EXTENDS Integers, FiniteSets

CONSTANTS
    Hellos,        \* parsed hellos: [id, psk, order, quic]
    NoHello,
    Prefaces,      \* captured HTTP/2 openings, each with some setting
    NoPreface,
    Bases,         \* built-in presets a mirror is based on
    Unmodelled,    \* hellos with an extension httpcloak accepts only bluntly
    PresetFiles,   \* preset files the user may load: [name, doc]
    NoDoc,
    NoName

Ids == {h.id : h \in Hellos}

Names == [id : Ids, base : Bases, psk : BOOLEAN, permute : BOOLEAN]

Docs ==
    [hello : Hellos, psk_hello : Hellos \cup {NoHello}, h2 : Prefaces \cup {NoPreface},
     base : Bases, blunt : BOOLEAN, permute : BOOLEAN]

\* doc is of the client that the name n was made from.
Identifies(n, doc) ==
    /\ doc.hello.id = n.id /\ doc.base = n.base /\ doc.permute = n.permute
    /\ (doc.psk_hello # NoHello) = n.psk

\* Extension 41 is part of the identity: no resuming hello shares its id with
\* a fresh one.  A preset file under a name of this registry is a document
\* the registry once exported under it, for this version of httpcloak.
ASSUME MirrorConstants ==
    /\ \A h, g \in Hellos : h.id = g.id => h.psk = g.psk
    /\ NoHello \notin Hellos /\ NoPreface \notin Prefaces
    /\ Unmodelled \subseteq Hellos
    /\ PresetFiles \subseteq [name : Names, doc : Docs]
    /\ \A f \in PresetFiles :
          Identifies(f.name, f.doc) /\ f.doc.blunt = (f.doc.hello \in Unmodelled)
    /\ NoDoc \notin Docs /\ NoName \notin Names

VARIABLES
    docs,          \* self._docs, and with it self._by_id: they have the same names
    registry       \* httpcloak's presets of the names of this module

mirrorVars == <<docs, registry>>

MirrorTypeOK ==
    /\ docs \in [Names -> Docs \cup {NoDoc}]
    /\ registry \in [Names -> Docs \cup {NoDoc}]

MirrorInit ==
    /\ docs = [n \in Names |-> NoDoc]
    /\ registry = [n \in Names |-> NoDoc]

\* ClientProfile: what a connection has shown of its client.
Profiles ==
    [hello : Hellos, psk_hello : Hellos \cup {NoHello}, h2 : Prefaces \cup {NoPreface},
     orders_seen : SUBSET {h.order : h \in Hellos}]

Permutes(profile) == Cardinality(profile.orders_seen) > 1

-----------------------------------------------------------------------------

\* Slip: the resuming half is left out of the key.
NeverResumes(profile) == FALSE

Resumes(profile) == profile.psk_hello # NoHello

\* The key of ensure, and so the name.
Key(profile, base, base_permutes) ==
    [id |-> profile.hello.id, base |-> base, psk |-> Resumes(profile),
     permute |-> base_permutes \/ Permutes(profile)]

BuildPreset(profile, base, blunt, permute) ==
    [hello |-> profile.hello, psk_hello |-> profile.psk_hello, h2 |-> profile.h2,
     base |-> base, blunt |-> blunt, permute |-> permute]

\* What httpcloak.load_preset_from_json answers.  When two refusals apply,
\* either may be the one reported; any other document may be refused for
\* reasons of its own.
Answers(name, doc) ==
    LET taken   == registry[name] # NoDoc
        unknown == doc.hello \in Unmodelled /\ ~doc.blunt
    IN  (IF taken THEN {"already registered"} ELSE {})
            \cup (IF unknown THEN {"unsupported extension"} ELSE {})
            \cup (IF taken \/ unknown THEN {} ELSE {"registered", "refused"})

\* Slip: any refusal but an unsupported extension counts as registered.
AcceptedLoosely == {"registered", "already registered", "refused"}

\* The answers _register turns into True.
Accepted == {"registered", "already registered"}

\* Blunt mimicry is tried after the plain document was refused for an extension.
Attempt(name, plain, blunt) ==
    blunt => "unsupported extension" \in Answers(name, plain)

\* A first registration under a name.
Mint(name, profile, base, answer) ==
    \E blunt \in BOOLEAN :
        LET plain == BuildPreset(profile, base, FALSE, name.permute)
            doc   == BuildPreset(profile, base, blunt, name.permute)
        IN  /\ Attempt(name, plain, blunt)
            /\ answer \in Answers(name, doc)
            /\ ~blunt => answer # "unsupported extension"
            /\ docs' = IF answer \in Accepted THEN [docs EXCEPT ![name] = doc] ELSE docs
            /\ registry' = IF answer = "registered"
                             THEN [registry EXCEPT ![name] = doc] ELSE registry

\* ensure, and the name it returns, NoName for None.
Ensure(profile, base, base_permutes, result) ==
    LET name == Key(profile, base, base_permutes) IN
    IF docs[name] # NoDoc
      THEN result = name /\ UNCHANGED mirrorVars
      ELSE \E answer \in {"registered", "already registered", "unsupported extension", "refused"} :
              /\ Mint(name, profile, base, answer)
              /\ result = IF answer \in Accepted THEN name ELSE NoName

Loaded(file) == file.doc

\* httpcloak.load_preset, from the option mitmcloak_preset_file (which skips a
\* name that is taken) or the command mitmcloak.preset.load (which raises).
LoadPreset(file) ==
    /\ registry' = IF registry[file.name] = NoDoc
                     THEN [registry EXCEPT ![file.name] = Loaded(file)] ELSE registry
    /\ UNCHANGED docs

\* close: unregister everything minted.
CloseMirror ==
    /\ docs' = [n \in Names |-> NoDoc]
    /\ registry' = [n \in Names |-> IF docs[n] # NoDoc THEN NoDoc ELSE registry[n]]

\* A profile tls_clienthello and next_layer can have built: the orders seen
\* include the hello's, and a resuming hello in `hello` is also in `psk_hello`.
Observed(profile) ==
    /\ profile.hello.order \in profile.orders_seen
    /\ profile.psk_hello # NoHello =>
          profile.psk_hello.psk /\ profile.psk_hello.order \in profile.orders_seen
    /\ profile.hello.psk => profile.psk_hello # NoHello

-----------------------------------------------------------------------------
(* Properties                                                              *)

\* A name the cache gives out is registered with httpcloak, whatever presets
\* the user loads: no request is sent under a preset that does not exist.
ServedIsRegistered == \A n \in Names : docs[n] # NoDoc => registry[n] # NoDoc

\* Both documents under a name, the one remembered and the one registered, are
\* of the client the name was made from: its identity, its base, and whether
\* it resumes and permutes (mirror.py:229-236).
NameCoversIdentity ==
    \A n \in Names : \A doc \in {docs[n], registry[n]} \ {NoDoc} : Identifies(n, doc)

\* A hello that needs blunt mimicry is never registered without it, and one
\* that does not is never registered with it: "the caller sets it after a
\* registration has actually been refused" (mirror.py:114-116).
BluntOnlyWhenRefused ==
    \A n \in Names : registry[n] # NoDoc => registry[n].blunt = (registry[n].hello \in Unmodelled)

=============================================================================
