-------------------------- MODULE MirrorRegistryProofs --------------------------
(***************************************************************************)
(* What the operations of the mirror registry keep, for every set of       *)
(* hellos, bases and preset files, and whatever httpcloak answers.         *)
(***************************************************************************)
EXTENDS MirrorRegistry, TLAPS

\* The four invariants need each other: that a served name is registered, that
\* a document under a name is of the right client, and that it is blunt when it
\* must be, are kept by Ensure only because documents are documents.
MirrorInv ==
    /\ MirrorTypeOK
    /\ ServedIsRegistered
    /\ NameCoversIdentity
    /\ BluntOnlyWhenRefused

-----------------------------------------------------------------------------

\* A key made from a profile is a name, whose documents identify its client.
LEMMA KeyIsName ==
  ASSUME NEW profile \in Profiles, NEW base \in Bases, NEW base_permutes,
         NEW blunt \in BOOLEAN
  PROVE  LET name == Key(profile, base, base_permutes)
             doc  == BuildPreset(profile, base, blunt, name.permute)
         IN  name \in Names /\ doc \in Docs /\ Identifies(name, doc)
<1>1. /\ profile.hello \in Hellos /\ profile.psk_hello \in Hellos \cup {NoHello}
      /\ profile.h2 \in Prefaces \cup {NoPreface}
  BY DEF Profiles
<1>2. Key(profile, base, base_permutes) \in Names
  BY <1>1 DEF Key, Names, Resumes, Permutes, Ids
<1> QED
  BY <1>1, <1>2 DEF Key, BuildPreset, Docs, Names, Identifies, Resumes

\* What is registered under a new name was accepted as it is.
LEMMA RegisteredAnswer ==
  ASSUME NEW name, NEW doc, "registered" \in Answers(name, doc)
  PROVE  registry[name] = NoDoc /\ ~(doc.hello \in Unmodelled /\ ~doc.blunt)
  BY DEF Answers

\* A name is said to be taken only when it is.
LEMMA TakenAnswer ==
  ASSUME NEW name, NEW doc, "already registered" \in Answers(name, doc)
  PROVE  registry[name] # NoDoc
  BY DEF Answers

\* Minting keeps the invariant, whatever httpcloak answers.
LEMMA MintKeepsInv ==
  ASSUME MirrorInv,
         NEW profile \in Profiles, NEW base \in Bases, NEW base_permutes,
         NEW answer, Mint(Key(profile, base, base_permutes), profile, base, answer)
  PROVE  MirrorInv'
<1> DEFINE name == Key(profile, base, base_permutes)
           Doc(blunt) == BuildPreset(profile, base, blunt, name.permute)
<1>1. PICK blunt \in BOOLEAN :
        /\ Attempt(name, Doc(FALSE), blunt)
        /\ answer \in Answers(name, Doc(blunt))
        /\ docs' = IF answer \in Accepted THEN [docs EXCEPT ![name] = Doc(blunt)] ELSE docs
        /\ registry' = IF answer = "registered"
                         THEN [registry EXCEPT ![name] = Doc(blunt)] ELSE registry
  BY DEF Mint
<1>2. name \in Names /\ Doc(blunt) \in Docs /\ Identifies(name, Doc(blunt))
  BY KeyIsName
<1>3. Doc(blunt).hello = profile.hello /\ Doc(FALSE).hello = profile.hello
      /\ Doc(blunt).blunt = blunt
  BY DEF BuildPreset
<1>4. NoDoc \notin Docs
  BY MirrorConstants
<1>5. CASE answer = "registered"
  <2>1. docs' = [docs EXCEPT ![name] = Doc(blunt)] /\ registry' = [registry EXCEPT ![name] = Doc(blunt)]
    BY <1>1, <1>5 DEF Accepted
  <2>2. registry[name] = NoDoc /\ ~(profile.hello \in Unmodelled /\ ~blunt)
    BY <1>1, <1>3, <1>5, RegisteredAnswer
  <2>3. blunt => profile.hello \in Unmodelled
    BY <1>1, <1>3, <2>2 DEF Attempt, Answers
  <2> HIDE DEF name, Doc
  <2>4. MirrorTypeOK'
    BY <1>2, <2>1 DEF MirrorInv, MirrorTypeOK
  <2>5. ServedIsRegistered'
    BY <1>2, <1>4, <2>1 DEF MirrorInv, MirrorTypeOK, ServedIsRegistered
  <2>6. NameCoversIdentity'
    BY <1>2, <2>1 DEF MirrorInv, MirrorTypeOK, NameCoversIdentity
  <2>7. Doc(blunt).blunt = (Doc(blunt).hello \in Unmodelled)
    BY <1>3, <2>2, <2>3
  <2>8. BluntOnlyWhenRefused'
    BY <1>2, <2>1, <2>7 DEF MirrorInv, MirrorTypeOK, BluntOnlyWhenRefused
  <2> QED BY <2>4, <2>5, <2>6, <2>8 DEF MirrorInv
<1>6. CASE answer = "already registered"
  <2>1. docs' = [docs EXCEPT ![name] = Doc(blunt)] /\ registry' = registry
    BY <1>1, <1>6 DEF Accepted
  <2>2. registry[name] # NoDoc
    BY <1>1, <1>6, TakenAnswer
  <2> HIDE DEF name, Doc
  <2> QED
    BY <1>2, <2>1, <2>2
    DEF MirrorInv, MirrorTypeOK, ServedIsRegistered, NameCoversIdentity, BluntOnlyWhenRefused
<1>7. CASE answer \notin {"registered", "already registered"}
  <2>1. docs' = docs /\ registry' = registry
    BY <1>1, <1>7 DEF Accepted
  <2> QED
    BY <2>1
    DEF MirrorInv, MirrorTypeOK, ServedIsRegistered, NameCoversIdentity, BluntOnlyWhenRefused
<1> QED BY <1>5, <1>6, <1>7

\* ensure keeps the invariant, and a name it returns has a document.
LEMMA EnsureKeepsInv ==
  ASSUME MirrorInv,
         NEW profile \in Profiles, NEW base \in Bases, NEW base_permutes, NEW result,
         Ensure(profile, base, base_permutes, result)
  PROVE  /\ MirrorInv'
         /\ \A n \in Names : docs[n] # NoDoc => docs'[n] # NoDoc
         /\ result # NoName =>
               /\ result = Key(profile, base, base_permutes)
               /\ docs'[result] # NoDoc
<1> DEFINE name == Key(profile, base, base_permutes)
<1>1. CASE docs[name] # NoDoc
  BY <1>1
  DEF Ensure, mirrorVars, MirrorInv, MirrorTypeOK, ServedIsRegistered, NameCoversIdentity,
      BluntOnlyWhenRefused
<1>2. CASE docs[name] = NoDoc
  <2>1. PICK answer :
            /\ Mint(name, profile, base, answer)
            /\ result = IF answer \in Accepted THEN name ELSE NoName
    BY <1>2 DEF Ensure
  <2>2. MirrorInv'
    BY <2>1, MintKeepsInv
  <2>3. PICK blunt \in BOOLEAN :
            docs' = IF answer \in Accepted
                      THEN [docs EXCEPT ![name] = BuildPreset(profile, base, blunt, name.permute)]
                      ELSE docs
    BY <2>1 DEF Mint
  <2>4. /\ name \in Names /\ BuildPreset(profile, base, blunt, name.permute) \in Docs
        /\ NoDoc \notin Docs /\ docs \in [Names -> Docs \cup {NoDoc}]
    BY KeyIsName, MirrorConstants DEF MirrorInv, MirrorTypeOK
  <2> HIDE DEF name
  <2>5. \A n \in Names : docs[n] # NoDoc => docs'[n] # NoDoc
    BY <2>3, <2>4
  <2>6. result # NoName => result = name /\ docs'[result] # NoDoc
    BY <2>1, <2>3, <2>4
  <2> QED BY <2>2, <2>5, <2>6 DEF name
<1> QED BY <1>1, <1>2

\* A preset file changes what is registered only where nothing was.
LEMMA LoadKeepsInv ==
  ASSUME MirrorInv, NEW file \in PresetFiles, LoadPreset(file)
  PROVE  MirrorInv'
<1>1. /\ file.name \in Names /\ file.doc \in Docs /\ Identifies(file.name, file.doc)
      /\ file.doc.blunt = (file.doc.hello \in Unmodelled)
  BY MirrorConstants
<1>2. docs' = docs /\ registry' = IF registry[file.name] = NoDoc
                                    THEN [registry EXCEPT ![file.name] = file.doc] ELSE registry
  BY DEF LoadPreset, Loaded
<1>3. NoDoc \notin Docs
  BY MirrorConstants
<1>4. MirrorTypeOK'
  BY <1>1, <1>2 DEF MirrorInv, MirrorTypeOK
<1>5. ServedIsRegistered'
  BY <1>1, <1>2, <1>3 DEF MirrorInv, MirrorTypeOK, ServedIsRegistered
<1>6. NameCoversIdentity'
  BY <1>1, <1>2 DEF MirrorInv, MirrorTypeOK, NameCoversIdentity
<1>7. BluntOnlyWhenRefused'
  BY <1>1, <1>2 DEF MirrorInv, MirrorTypeOK, BluntOnlyWhenRefused
<1> QED BY <1>4, <1>5, <1>6, <1>7 DEF MirrorInv

LEMMA CloseKeepsInv ==
  ASSUME MirrorInv, CloseMirror
  PROVE  MirrorInv'
BY DEF CloseMirror, MirrorInv, MirrorTypeOK, ServedIsRegistered, NameCoversIdentity,
       BluntOnlyWhenRefused

LEMMA StutterKeepsInv ==
  ASSUME MirrorInv, UNCHANGED mirrorVars
  PROVE  MirrorInv'
BY DEF mirrorVars, MirrorInv, MirrorTypeOK, ServedIsRegistered, NameCoversIdentity,
       BluntOnlyWhenRefused

LEMMA MirrorInvInit == MirrorInit => MirrorInv
  BY MirrorConstants
  DEF MirrorInit, MirrorInv, MirrorTypeOK, ServedIsRegistered, NameCoversIdentity,
      BluntOnlyWhenRefused

=============================================================================
