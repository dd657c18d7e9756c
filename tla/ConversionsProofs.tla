--------------------------- MODULE ConversionsProofs ---------------------------
(***************************************************************************)
(* Theorems about the conversions, for inputs of any length: what is put   *)
(* together is an inductive invariant, and the rest is about the operators *)
(* of Headers and Wire, by induction on the lists they go through.         *)
(***************************************************************************)
EXTENDS Conversions, ListProofs, FiniteSetTheorems

Fields == [name : HeaderNames, value : Nat]
Answers == [name : HeaderNames, values : Seq(Nat)]

\* What is put together: each value of a field is its place, each header of a
\* response and each extension of a hello has a name or a type of its own.
Inputs ==
    /\ fields \in Seq(Fields) /\ \A i \in DOMAIN fields : fields[i].value = i
    /\ response \in Seq(Answers)
    /\ \A i, j \in DOMAIN response : response[i].name = response[j].name => i = j
    /\ DOMAIN hellos = 1 .. 2
    /\ \A k \in 1 .. 2 :
          /\ hellos[k] \in Hello(BareHellos[k])
          /\ \A i, j \in DOMAIN hellos[k].exts :
                hellos[k].exts[i].type = hellos[k].exts[j].type => i = j
    /\ frames \in Seq(Frames) /\ arrived \in Nat
    /\ arrived <= FrameEnd(frames, Len(frames))
    /\ block \in Seq(Representations)

LEMMA InputsInit == ConversionInit => Inputs
<1> SUFFICES ASSUME ConversionInit PROVE Inputs
  OBVIOUS
<1> USE DEF ConversionInit
<1>1. fields \in Seq(Fields) /\ response \in Seq(Answers) /\ frames \in Seq(Frames) /\ arrived = 0
      /\ block \in Seq(Representations)
  BY EmptySeq
<1>2. DOMAIN fields = {} /\ DOMAIN response = {}
  BY EmptySeq
<1>3. ASSUME NEW k \in 1 .. 2
      PROVE  hellos[k] \in Hello(BareHellos[k]) /\ DOMAIN hellos[k].exts = {}
  BY <1>3, ConversionInputs, EmptySeq
<1>4. FrameEnd(frames, Len(frames)) = PrefaceLen
  <2>1. Len(frames) = 0
    BY EmptySeq
  <2>2. [j \in 1 .. 0 |-> FrameLen(frames[j])] = <<>>
    OBVIOUS
  <2>3. FrameEnd(frames, 0) = PrefaceLen
    BY <2>2, TotalEmpty DEF FrameEnd, PrefaceLen
  <2> QED BY <2>1, <2>3
<1> QED BY <1>1, <1>2, <1>3, <1>4, ConversionInputs DEF Inputs, PrefaceLen

-----------------------------------------------------------------------------
(* Frames                                                                  *)

Sizes(s) == [j \in 1 .. Len(s) |-> FrameLen(s[j])]

LEMMA FrameLenNat == ASSUME NEW frame \in Frames PROVE FrameLen(frame) \in Nat
<1>1. frame.body \in Seq(ToSet(frame.body))
  BY ConversionInputs
<1>2. Len(frame.body) \in Nat
  BY <1>1, LenProperties
<1> QED BY <1>2 DEF FrameLen

LEMMA FrameEndIs ==
  ASSUME NEW s \in Seq(Frames), NEW N \in Nat, N = Len(s), NEW n \in 0 .. N
  PROVE  Sizes(s) \in Seq(Nat) /\ Len(Sizes(s)) = N
         /\ FrameEnd(s, n) = PrefaceLen + Total(SubSeq(Sizes(s), 1, n))
<1>1. Sizes(s) \in Seq(Nat) /\ Len(Sizes(s)) = N
  BY FrameLenNat DEF Sizes
<1>2. [j \in 1 .. n |-> FrameLen(s[j])] = SubSeq(Sizes(s), 1, n)
  <2>1. SubSeq(Sizes(s), 1, n) = [j \in 1 .. n |-> Sizes(s)[j]]
    BY <1>1, PrefixIs
  <2>2. \A j \in 1 .. N : Sizes(s)[j] = FrameLen(s[j])
    BY DEF Sizes
  <2> QED BY <2>1, <2>2
<1> QED BY <1>1, <1>2 DEF FrameEnd

LEMMA FrameEndsGrow ==
  ASSUME NEW s \in Seq(Frames), NEW N \in Nat, N = Len(s), NEW n \in 0 .. N, NEW m \in n .. N
  PROVE  /\ FrameEnd(s, n) \in Nat /\ FrameEnd(s, m) \in Nat
         /\ PrefaceLen <= FrameEnd(s, n) /\ FrameEnd(s, n) <= FrameEnd(s, m)
<1>1. PICK z \in Seq(Nat) : z = Sizes(s) /\ Len(z) = N
  <2>1. 0 \in 0 .. N
    OBVIOUS
  <2> QED BY <2>1, FrameEndIs
<1>2. m \in 0 .. N
  OBVIOUS
<1>3. /\ FrameEnd(s, n) = PrefaceLen + Total(SubSeq(z, 1, n))
      /\ FrameEnd(s, m) = PrefaceLen + Total(SubSeq(z, 1, m))
  BY <1>1, <1>2, FrameEndIs
<1>4. /\ Total(SubSeq(z, 1, n)) \in Nat /\ Total(SubSeq(z, 1, m)) \in Nat
      /\ Total(SubSeq(z, 1, n)) <= Total(SubSeq(z, 1, m))
  BY <1>1, TotalGrows
<1> QED BY <1>3, <1>4 DEF PrefaceLen

\* What has arrived is the first frames, and in the end all of them.
LEMMA ArrivedIsFirst ==
  ASSUME NEW s \in Seq(Frames), NEW size
  PROVE  Arrived(s, size) \in Seq(Frames) /\ IsPrefix(Arrived(s, size), s)
<1>1. PICK N \in Nat : N = Len(s)
  BY LenProperties
<1> DEFINE whole == {i \in DOMAIN s : FrameEnd(s, i) <= size}
<1>2. Cardinality(whole) \in 0 .. N
  <2>1. IsFiniteSet(1 .. N) /\ Cardinality(1 .. N) = N
    BY FS_Interval
  <2>2. whole \subseteq 1 .. N
    BY <1>1
  <2> HIDE DEF whole
  <2>3. IsFiniteSet(whole) /\ Cardinality(whole) <= N
    BY <2>1, <2>2, FS_Subset
  <2>4. Cardinality(whole) \in Nat
    BY <2>3, FS_CardinalityType
  <2> QED BY <2>3, <2>4
<1>3. PICK c \in 0 .. N : Arrived(s, size) = SubSeq(s, 1, c)
  BY <1>2 DEF Arrived
<1>4. SubSeq(s, 1, c) \in Seq(Frames) /\ Len(SubSeq(s, 1, c)) = c
      /\ \A i \in 1 .. c : SubSeq(s, 1, c)[i] = s[i]
  BY <1>1, <1>3
<1>5. PICK a \in Seq(Frames) : a = SubSeq(s, 1, c)
  BY <1>4
<1>6. Len(a) = c /\ \A i \in 1 .. c : a[i] = s[i]
  BY <1>4, <1>5
<1>7. Len(a) <= Len(s) /\ \A i \in 1 .. Len(a) : a[i] = s[i]
  BY <1>1, <1>6
<1>8. IsPrefix(a, s)
  BY <1>7, PrefixIff
<1> QED BY <1>3, <1>5, <1>8

LEMMA AllArrive ==
  ASSUME NEW s \in Seq(Frames)
  PROVE  Arrived(s, FrameEnd(s, Len(s))) = s
<1>1. PICK N \in Nat : N = Len(s)
  BY LenProperties
<1>2. ASSUME NEW i \in 1 .. N PROVE FrameEnd(s, i) <= FrameEnd(s, N)
  BY <1>1, FrameEndsGrow
<1>3. {i \in DOMAIN s : FrameEnd(s, i) <= FrameEnd(s, N)} = 1 .. N
  BY <1>1, <1>2
<1>4. Cardinality(1 .. N) = N
  BY FS_Interval
<1>5. Arrived(s, FrameEnd(s, N)) = SubSeq(s, 1, N)
  BY <1>3, <1>4 DEF Arrived
<1> QED BY <1>1, <1>5, SubSeqFull

-----------------------------------------------------------------------------
(* What is put together                                                    *)

LEMMA InputsStep == Inputs /\ [ConversionNext]_conversionVars => Inputs'
<1> SUFFICES ASSUME Inputs, [ConversionNext]_conversionVars PROVE Inputs'
  OBVIOUS
<1> USE DEF Inputs
<1>1. ASSUME NEW name \in HeaderNames, AddField(name) PROVE Inputs'
  <2>1. PICK N \in Nat : N = Len(fields)
    BY LenProperties
  <2>2. PICK x \in Fields : x = [name |-> name, value |-> N + 1]
    <3>1. [name |-> name, value |-> N + 1] \in Fields
      BY DEF Fields
    <3> QED BY <3>1
  <2>3. fields' = Append(fields, x)
    BY <1>1, <2>1, <2>2 DEF AddField
  <2>4. /\ fields' \in Seq(Fields) /\ DOMAIN fields' = 1 .. N + 1 /\ fields'[N + 1] = x
        /\ \A i \in 1 .. N : fields'[i] = fields[i]
    BY <2>1, <2>3, AppendProperties
  <2>5. \A i \in DOMAIN fields' : fields'[i].value = i
    <3>1. PICK new : new = fields'
      OBVIOUS
    <3>2. PICK old : old = fields /\ \A i \in DOMAIN old : old[i].value = i
      OBVIOUS
    <3>3. \A i \in 1 .. N : new[i] = old[i] /\ old[i].value = i
      <4>1. DOMAIN old = 1 .. N
        BY <2>1, <3>2
      <4>2. \A i \in 1 .. N : new[i] = old[i]
        BY <2>4, <3>1, <3>2
      <4> QED BY <3>2, <4>1, <4>2
    <3>4. new[N + 1].value = N + 1
      BY <2>2, <2>4, <3>1
    <3>5. \A i \in 1 .. N + 1 : i = N + 1 \/ i \in 1 .. N
      OBVIOUS
    <3>6. DOMAIN new = 1 .. N + 1
      BY <2>4, <3>1
    <3>7. \A i \in 1 .. N + 1 : new[i].value = i
      BY <3>3, <3>4, <3>5
    <3> QED BY <3>1, <3>6, <3>7
  <2> QED BY <1>1, <2>4, <2>5 DEF AddField
<1>2. ASSUME NEW name \in HeaderNames, NEW count \in 1 .. 2, AddResponse(name, count)
      PROVE  Inputs'
  <2>0. \A i, j \in DOMAIN response : response[i].name = response[j].name => i = j
    OBVIOUS
  <2>1. PICK N \in Nat : N = Len(response) /\ DOMAIN response = 1 .. N
    BY LenProperties
  <2>2. PICK x \in Answers : x.name = name /\ response' = Append(response, x)
    <3>1. PICK v : v = [i \in 1 .. count |-> 10 * N + i]
      OBVIOUS
    <3>2. v \in Seq(Nat)
      <4>1. v = [i \in 1 .. count |-> v[i]] /\ \A i \in 1 .. count : v[i] \in Nat
        BY <3>1
      <4>2. PICK c \in Nat : c = count
        OBVIOUS
      <4> QED BY <4>1, <4>2, ListIs
    <3>3. [name |-> name, values |-> v] \in Answers
      BY <3>2 DEF Answers
    <3>4. response' = Append(response, [name |-> name, values |-> v])
      BY <1>2, <2>1, <3>1 DEF AddResponse
    <3> QED BY <3>3, <3>4
  <2>3. /\ response' \in Seq(Answers) /\ DOMAIN response' = 1 .. N + 1 /\ response'[N + 1] = x
        /\ \A i \in 1 .. N : response'[i] = response[i]
    BY <2>1, <2>2, AppendProperties
  <2>4. \A i \in 1 .. N : response[i].name # name
    BY <1>2, <2>1 DEF AddResponse
  <2>5. \A i, j \in DOMAIN response' : response'[i].name = response'[j].name => i = j
    <3>1. ASSUME NEW i \in 1 .. N + 1, NEW j \in 1 .. N + 1,
                 response'[i].name = response'[j].name
          PROVE  i = j
      <4>1. (i \in 1 .. N \/ i = N + 1) /\ (j \in 1 .. N \/ j = N + 1)
        OBVIOUS
      <4>2. \A k, l \in 1 .. N : response[k].name = response[l].name => k = l
        BY <2>0, <2>1
      <4> QED BY <2>2, <2>3, <2>4, <3>1, <4>1, <4>2
    <3> QED BY <2>3, <3>1
  <2> QED BY <1>2, <2>3, <2>5 DEF AddResponse
<1>3. ASSUME NEW k \in 1 .. 2, NEW ext \in Extensions, AddExtension(k, ext) PROVE Inputs'
  <2>0. hellos[k] \in Hello(BareHellos[k]) /\ DOMAIN hellos = 1 .. 2
    OBVIOUS
  <2>1. PICK exts \in Seq(Extensions) : exts = hellos[k].exts
    BY DEF Hello
  <2>2. PICK N \in Nat : N = Len(exts) /\ DOMAIN exts = 1 .. N
    BY LenProperties
  <2>3. PICK more : more = Append(exts, ext)
    OBVIOUS
  <2>4. /\ more \in Seq(Extensions) /\ DOMAIN more = 1 .. N + 1 /\ more[N + 1] = ext
        /\ \A i \in 1 .. N : more[i] = exts[i]
    BY <2>2, <2>3, AppendProperties
  <2>5. hellos' = [hellos EXCEPT ![k] = [hellos[k] EXCEPT !.exts = more]]
    BY <1>3, <2>1, <2>3 DEF AddExtension
  <2>6. hellos'[k] \in Hello(BareHellos[k]) /\ hellos'[k].exts = more
    <3>1. PICK old \in Hello(BareHellos[k]) : old = hellos[k]
      BY <2>0
    <3>2. hellos'[k] = [old EXCEPT !.exts = more]
      BY <2>0, <2>5, <3>1
    <3> QED BY <2>4, <3>2 DEF Hello
  <2>7. \A i, j \in DOMAIN more : more[i].type = more[j].type => i = j
    <3>1. ASSUME NEW i \in 1 .. N + 1, NEW j \in 1 .. N + 1, more[i].type = more[j].type
          PROVE  i = j
      <4>1. (i \in 1 .. N \/ i = N + 1) /\ (j \in 1 .. N \/ j = N + 1)
        OBVIOUS
      <4>2. \A m, l \in 1 .. N : exts[m].type = exts[l].type => m = l
        <5>1. \A m, l \in DOMAIN exts : exts[m].type = exts[l].type => m = l
          BY <2>1
        <5> QED BY <2>2, <5>1
      <4>3. \A m \in 1 .. N : exts[m].type # ext.type
        BY <1>3, <2>1, <2>2 DEF AddExtension
      <4> QED BY <2>4, <3>1, <4>1, <4>2, <4>3
    <3> QED BY <2>4, <3>1
  <2>8. \A l \in 1 .. 2 \ {k} : hellos'[l] = hellos[l]
    BY <2>5
  <2>9. DOMAIN hellos' = 1 .. 2
    BY <2>5
  <2>10. ASSUME NEW l \in 1 .. 2
         PROVE  /\ hellos'[l] \in Hello(BareHellos[l])
                /\ \A i, j \in DOMAIN hellos'[l].exts :
                      hellos'[l].exts[i].type = hellos'[l].exts[j].type => i = j
    BY <2>6, <2>7, <2>8
  <2> QED BY <1>3, <2>9, <2>10 DEF AddExtension
<1>4. ASSUME NEW frame \in Frames, AddFrame(frame) PROVE Inputs'
  <2>1. PICK s \in Seq(Frames) : s = frames'
    BY <1>4, AppendProperties DEF AddFrame
  <2>2. PICK N \in Nat : N = Len(s)
    BY LenProperties
  <2>3. FrameEnd(s, N) \in Nat
    BY <2>2, FrameEndsGrow
  <2> QED BY <1>4, <2>1, <2>2, <2>3 DEF AddFrame
<1>5. ASSUME NEW size \in 1 .. FrameEnd(frames, Len(frames)), Arrive(size) PROVE Inputs'
  <2>1. PICK N \in Nat : N = Len(frames)
    BY LenProperties
  <2>2. FrameEnd(frames, N) \in Nat
    BY <2>1, FrameEndsGrow
  <2> QED BY <1>5, <2>1, <2>2 DEF Arrive
<1>6. CASE NextLayer
  BY <1>6 DEF NextLayer
<1>7. ASSUME NEW repr \in Representations, AddRepresentation(repr) PROVE Inputs'
  <2>1. block' \in Seq(Representations)
    BY <1>7, AppendProperties DEF AddRepresentation
  <2> QED BY <1>7, <2>1 DEF AddRepresentation
<1>8. CASE UNCHANGED conversionVars
  BY <1>8 DEF conversionVars
<1> QED
  BY <1>1, <1>2, <1>3, <1>4, <1>5, <1>6, <1>7, <1>8 DEF ConversionNext

\* Whatever is put together is a request, a response, two hellos and an opening
\* that the code could be given; the other theorems are about such inputs.
THEOREM InputsAreSound == ConversionSpec => []Inputs
  BY InputsInit, InputsStep, PTL DEF ConversionSpec

-----------------------------------------------------------------------------
(* Identities                                                              *)

\* The extensions 41 and 57 and the ALPN names, by which a hello is treated, are
\* part of its identity.
LEMMA IdDecides ==
  ASSUME NEW a, NEW b, StableId(a) = StableId(b)
  PROVE  HasPsk(a) = HasPsk(b) /\ IsQuic(a) = IsQuic(b)
<1>1. FamilyId(a) = FamilyId(b) /\ a.alpn = b.alpn
  BY DEF StableId
<1>2. Offered(a) = Offered(b)
  BY <1>1 DEF FamilyId
<1>3. \A n \in {41, 57} : n \in ToSet(a.extension_order) <=> n \in ToSet(b.extension_order)
  BY <1>2 DEF Offered
<1> QED BY <1>1, <1>3 DEF HasPsk, IsQuic

\* Whatever is cut off a hello: if it has the identity of a whole one, it resumes
\* if that does, and is QUIC's if that is.
THEOREM IdTreatsAlike == ConversionSpec => []SameIdSameTreatment
<1>1. SameIdSameTreatment
  BY IdDecides DEF SameIdSameTreatment
<1> QED BY <1>1, PTL

-----------------------------------------------------------------------------
(* Openings                                                                *)

\* The frames of a kind among the first frames are the first ones of that kind.
LEMMA FirstOfKind ==
  ASSUME NEW s \in Seq(Frames), NEW t \in Seq(Frames), IsPrefix(s, t), NEW Kind
  PROVE  /\ Only(s, ToSet(s) \cap Kind) \in Seq(Frames)
         /\ Only(t, ToSet(t) \cap Kind) \in Seq(Frames)
         /\ IsPrefix(Only(s, ToSet(s) \cap Kind), Only(t, ToSet(t) \cap Kind))
<1>1. Only(s, ToSet(s) \cap Kind) = Only(s, Kind)
  <2>1. \A i \in 1 .. Len(s) : s[i] \in ToSet(s) \cap Kind <=> s[i] \in Kind
    BY DEF ToSet
  <2> QED BY <2>1, OnlySame
<1>2. Only(t, ToSet(t) \cap Kind) = Only(t, Kind)
  <2>1. \A i \in 1 .. Len(t) : t[i] \in ToSet(t) \cap Kind <=> t[i] \in Kind
    BY DEF ToSet
  <2> QED BY <2>1, OnlySame
<1>3. IsPrefix(Only(s, Kind), Only(t, Kind))
  BY OnlyPrefix
<1>4. Only(s, Kind) \in Seq(Frames) /\ Only(t, Kind) \in Seq(Frames)
  BY OnlyInList
<1> QED BY <1>1, <1>2, <1>3, <1>4

Parts == UNION {ToSet(frame.body) : frame \in Frames}
Bodies(s) == FlattenSeq([i \in DOMAIN s |-> s[i].body])

LEMMA BodiesPrefix ==
  ASSUME NEW s \in Seq(Frames), NEW t \in Seq(Frames), IsPrefix(s, t)
  PROVE  IsPrefix(Bodies(s), Bodies(t))
<1>1. ASSUME NEW frame \in Frames PROVE frame.body \in Seq(Parts)
  <2>1. frame.body \in Seq(ToSet(frame.body)) /\ ToSet(frame.body) \subseteq Parts
    BY ConversionInputs DEF Parts
  <2> QED BY <2>1, SeqMonotonic
<1>2. PICK N \in Nat, M \in Nat : N = Len(s) /\ M = Len(t) /\ N <= M
  BY LenProperties, PrefixIff
<1>3. \A i \in 1 .. N : s[i] = t[i] /\ t[i] \in Frames
  BY <1>2, PrefixIff
<1>4. DOMAIN s = 1 .. N /\ DOMAIN t = 1 .. M
  BY <1>2
<1>5. PICK a : a = [i \in 1 .. N |-> s[i].body]
  OBVIOUS
<1>6. PICK b : b = [i \in 1 .. M |-> t[i].body]
  OBVIOUS
<1>7. \A i \in 1 .. M : t[i] \in Frames
  BY <1>2
<1>8. /\ a \in Seq(Seq(Parts)) /\ Len(a) = N /\ b \in Seq(Seq(Parts)) /\ Len(b) = M
      /\ \A i \in 1 .. N : a[i] = b[i]
  BY <1>1, <1>2, <1>3, <1>5, <1>6, <1>7
<1>9. IsPrefix(a, b)
  BY <1>2, <1>8, PrefixIff
<1>10. Bodies(s) = FlattenSeq(a) /\ Bodies(t) = FlattenSeq(b)
  BY <1>4, <1>5, <1>6 DEF Bodies
<1> QED BY <1>8, <1>9, <1>10, FlattenPrefix

LEMMA PrefixFirst ==
  ASSUME NEW T, NEW s \in Seq(T), NEW t \in Seq(T), IsPrefix(s, t), s # <<>>
  PROVE  t # <<>> /\ s[1] = t[1]
<1>1. PICK N \in Nat, M \in Nat : N = Len(s) /\ M = Len(t) /\ N <= M /\ \A i \in 1 .. N : s[i] = t[i]
  BY LenProperties, PrefixIff
<1>2. N # 0
  BY <1>1, EmptySeq
<1> QED BY <1>1, <1>2, EmptySeq

Settings(s) == Only(s, {f \in ToSet(s) : f.type = "SETTINGS"})
Priorities(s) == Only(s, {f \in ToSet(s) : f.type = "PRIORITY"})
Blocks(s) == Only(s, {f \in ToSet(s) : f.type = "HEADERS" /\ HeaderBlock(f) # <<>>})

LEMMA FirstOfEach ==
  ASSUME NEW s \in Seq(Frames), NEW t \in Seq(Frames), IsPrefix(s, t)
  PROVE  /\ Settings(s) \in Seq(Frames) /\ Settings(t) \in Seq(Frames)
         /\ IsPrefix(Settings(s), Settings(t))
         /\ Priorities(s) \in Seq(Frames) /\ Priorities(t) \in Seq(Frames)
         /\ IsPrefix(Priorities(s), Priorities(t))
         /\ Blocks(s) \in Seq(Frames) /\ Blocks(t) \in Seq(Frames)
         /\ IsPrefix(Blocks(s), Blocks(t))
<1>1. ToSet(s) \subseteq Frames /\ ToSet(t) \subseteq Frames
  BY DEF ToSet
<1>2. PICK K : K = {f \in Frames : f.type = "SETTINGS"}
  OBVIOUS
<1>3. PICK L : L = {f \in Frames : f.type = "PRIORITY"}
  OBVIOUS
<1>4. PICK M : M = {f \in Frames : f.type = "HEADERS" /\ HeaderBlock(f) # <<>>}
  OBVIOUS
<1>5. Settings(s) = Only(s, ToSet(s) \cap K) /\ Settings(t) = Only(t, ToSet(t) \cap K)
  <2>1. /\ {f \in ToSet(s) : f.type = "SETTINGS"} = ToSet(s) \cap K
        /\ {f \in ToSet(t) : f.type = "SETTINGS"} = ToSet(t) \cap K
    BY <1>1, <1>2
  <2> QED BY <2>1 DEF Settings
<1>6. Priorities(s) = Only(s, ToSet(s) \cap L) /\ Priorities(t) = Only(t, ToSet(t) \cap L)
  <2>1. /\ {f \in ToSet(s) : f.type = "PRIORITY"} = ToSet(s) \cap L
        /\ {f \in ToSet(t) : f.type = "PRIORITY"} = ToSet(t) \cap L
    BY <1>1, <1>3
  <2> QED BY <2>1 DEF Priorities
<1>7. Blocks(s) = Only(s, ToSet(s) \cap M) /\ Blocks(t) = Only(t, ToSet(t) \cap M)
  <2>1. /\ {f \in ToSet(s) : f.type = "HEADERS" /\ HeaderBlock(f) # <<>>} = ToSet(s) \cap M
        /\ {f \in ToSet(t) : f.type = "HEADERS" /\ HeaderBlock(f) # <<>>} = ToSet(t) \cap M
    BY <1>1, <1>4
  <2> QED BY <2>1 DEF Blocks
<1> QED BY <1>5, <1>6, <1>7, FirstOfKind

LEMMA PrefaceIs ==
  ASSUME NEW size, ~ (size < PrefaceLen)
  PROVE  LET whole  == Arrived(frames, size)
             parsed == ParseH2Preface(frames, size)
         IN  /\ parsed.settings = Bodies(Settings(whole))
             /\ parsed.priority_frames = Len(Priorities(whole))
             /\ parsed.pseudo_order = IF Blocks(whole) = <<>> THEN None
                                      ELSE PseudoOrder(HeaderBlock(Blocks(whole)[1]))
  BY DEF ParseH2Preface, Bodies, Settings, Priorities, Blocks

\* The opening that is kept was read from the frames as they are.
ReadFrom(opening, size) == \E k \in 0 .. size : preface = ParseH2Preface(opening, k)

KeptInv == Inputs /\ (preface = None \/ (arrived > 0 /\ ReadFrom(frames, arrived)))

LEMMA KeptStep == KeptInv /\ [ConversionNext]_conversionVars => KeptInv'
<1> SUFFICES ASSUME KeptInv, [ConversionNext]_conversionVars PROVE KeptInv'
  OBVIOUS
<1>1. Inputs'
  BY InputsStep DEF KeptInv
<1>2. arrived \in Nat
  BY DEF KeptInv, Inputs
<1>3. ASSUME NEW frame \in Frames, AddFrame(frame) PROVE KeptInv'
  <2>1. preface = None /\ preface' = preface
    BY <1>2, <1>3 DEF KeptInv, AddFrame
  <2> QED BY <1>1, <2>1 DEF KeptInv
<1>4. ASSUME NEW size, Arrive(size) PROVE KeptInv'
  <2>1. size > arrived /\ arrived' = size /\ arrived' \in Nat /\ UNCHANGED <<frames, preface>>
    BY <1>1, <1>4 DEF Arrive, Inputs
  <2>2. CASE preface = None
    BY <1>1, <2>1, <2>2 DEF KeptInv
  <2>3. ASSUME NEW k \in 0 .. arrived, preface = ParseH2Preface(frames, k) PROVE KeptInv'
    <3>1. k \in 0 .. arrived' /\ preface' = ParseH2Preface(frames', k) /\ arrived' > 0
      BY <1>2, <2>1, <2>3
    <3> QED BY <1>1, <3>1 DEF KeptInv, ReadFrom
  <2> QED BY <2>2, <2>3 DEF KeptInv, ReadFrom
<1>5. CASE NextLayer
  <2>1. arrived > 0 /\ UNCHANGED <<frames, arrived>>
    BY <1>5 DEF NextLayer
  <2>2. CASE preface = None
    <3>1. preface' = ParseH2Preface(frames', arrived) /\ arrived \in 0 .. arrived'
      BY <1>2, <1>5, <2>1, <2>2 DEF NextLayer
    <3> QED BY <1>1, <2>1, <3>1 DEF KeptInv, ReadFrom
  <2>3. CASE preface # None
    <3>1. preface' = preface
      BY <1>5, <2>3 DEF NextLayer
    <3> QED BY <1>1, <2>1, <2>3, <3>1 DEF KeptInv, ReadFrom
  <2> QED BY <2>2, <2>3
<1>6. CASE UNCHANGED <<frames, arrived, preface>>
  BY <1>1, <1>6 DEF KeptInv, ReadFrom
<1>7. \/ \E frame \in Frames : AddFrame(frame)
      \/ \E size : Arrive(size)
      \/ NextLayer
      \/ UNCHANGED <<frames, arrived, preface>>
  BY DEF ConversionNext, AddField, AddResponse, AddExtension, AddRepresentation, conversionVars
<1> QED BY <1>3, <1>4, <1>5, <1>6, <1>7

\* Whenever next_layer looked: the opening that is kept has the client's first
\* settings, and its pseudo-header order, if any, is that of the whole opening.
THEOREM KeptIsTrue == ConversionSpec => []KeptIsOfTheOpening
<1>1. ASSUME KeptInv PROVE KeptIsOfTheOpening
  <2> SUFFICES ASSUME preface # None PROVE KeptIsOfTheOpening
    BY DEF KeptIsOfTheOpening
  <2>1. PICK k \in 0 .. arrived : preface = ParseH2Preface(frames, k)
    BY <1>1 DEF KeptInv, ReadFrom
  <2>2. frames \in Seq(Frames)
    BY <1>1 DEF KeptInv, Inputs
  <2>3. PICK N \in Nat : N = Len(frames)
    BY <2>2, LenProperties
  <2>4. FrameEnd(frames, N) \in Nat /\ PrefaceLen <= FrameEnd(frames, N)
    BY <2>2, <2>3, FrameEndsGrow
  <2>5. ~ (k < PrefaceLen)
    BY <2>1 DEF ParseH2Preface
  <2>6. PICK s \in Seq(Frames) : s = Arrived(frames, k) /\ IsPrefix(s, frames)
    BY <2>2, ArrivedIsFirst
  <2>7. /\ preface.settings = Bodies(Settings(s))
        /\ preface.priority_frames = Len(Priorities(s))
        /\ preface.pseudo_order = IF Blocks(s) = <<>> THEN None
                                  ELSE PseudoOrder(HeaderBlock(Blocks(s)[1]))
    BY <2>1, <2>5, <2>6, PrefaceIs
  <2>8. /\ Whole.settings = Bodies(Settings(frames))
        /\ Whole.priority_frames = Len(Priorities(frames))
        /\ Whole.pseudo_order = IF Blocks(frames) = <<>> THEN None
                                ELSE PseudoOrder(HeaderBlock(Blocks(frames)[1]))
    <3>1. ~ (FrameEnd(frames, N) < PrefaceLen)
      BY <2>4 DEF PrefaceLen
    <3>2. Arrived(frames, FrameEnd(frames, N)) = frames
      BY <2>2, <2>3, AllArrive
    <3> QED BY <2>3, <3>1, <3>2, PrefaceIs DEF Whole
  <2>9. IsPrefix(preface.settings, Whole.settings)
    BY <2>2, <2>6, <2>7, <2>8, FirstOfEach, BodiesPrefix
  <2>10. preface.priority_frames <= Whole.priority_frames
    BY <2>2, <2>6, <2>7, <2>8, FirstOfEach, PrefixIff
  <2>11. preface.pseudo_order \in {None, Whole.pseudo_order}
    <3>1. Blocks(s) # <<>> => Blocks(frames) # <<>> /\ Blocks(s)[1] = Blocks(frames)[1]
      BY <2>2, <2>6, FirstOfEach, PrefixFirst
    <3> QED BY <2>7, <2>8, <3>1
  <2> QED BY <2>9, <2>10, <2>11 DEF KeptIsOfTheOpening
<1>2. ConversionInit => KeptInv
  BY InputsInit DEF ConversionInit, KeptInv
<1> QED BY <1>1, <1>2, KeptStep, PTL DEF ConversionSpec

\* A whole opening, of any frames: the connection's last window update, and the
\* pseudo-headers of the first HEADERS frame, however many others there are.
THEOREM OpeningIsTrue == ConversionSpec => []OpeningIsRead
<1>1. ASSUME Inputs PROVE OpeningIsRead
  <2> DEFINE Heads    == {f \in ToSet(frames) : f.type = "HEADERS"}
             Updates  == {f \in ToSet(frames) : f.type = "WINDOW_UPDATE" /\ f.stream = 0}
             headers  == Only(frames, Heads)
             windows  == Only(frames, Updates)
             fragment == IF headers[1].priority THEN After(headers[1].body, 5)
                         ELSE headers[1].body
             pseudo   == Only(fragment, 129 .. 142)
  <2>1. PICK N \in Nat : N = Len(frames) /\ frames \in Seq(Frames)
    BY <1>1, LenProperties DEF Inputs
  <2>2. Arrived(frames, FrameEnd(frames, N)) = frames /\ ~ (FrameEnd(frames, N) < PrefaceLen)
    <3>1. FrameEnd(frames, N) \in Nat /\ PrefaceLen <= FrameEnd(frames, N)
      BY <2>1, FrameEndsGrow
    <3>2. ~ (FrameEnd(frames, N) < PrefaceLen)
      BY <3>1 DEF PrefaceLen
    <3> QED BY <2>1, <3>2, AllArrive
  <2>3. Whole.window_update = IF windows = <<>> THEN None ELSE Last(windows).body[1]
    <3>1. Updates = {f \in ToSet(frames) : IsConnectionWindow(f)}
      BY DEF IsConnectionWindow
    <3>2. windows = Only(frames, {f \in ToSet(frames) : IsConnectionWindow(f)})
      BY <3>1
    <3> HIDE DEF windows
    <3>3. Whole.window_update = IF windows = <<>> THEN None ELSE windows[Len(windows)].body[1]
      BY <2>1, <2>2, <3>2 DEF Whole, ParseH2Preface
    <3> QED BY <3>3 DEF Last
  <2>4. Whole.pseudo_order = IF Blocks(frames) = <<>> THEN None
                             ELSE PseudoOrder(HeaderBlock(Blocks(frames)[1]))
    BY <2>1, <2>2, PrefaceIs DEF Whole
  <2>5. ASSUME headers # <<>>, ~headers[1].padded, pseudo # <<>>,
               ToSet(fragment) \subseteq 129 .. 189
        PROVE  Whole.pseudo_order = pseudo
    <3> DEFINE Full == {f \in ToSet(frames) : f.type = "HEADERS" /\ HeaderBlock(f) # <<>>}
    <3>1. headers[1] \in Heads
      <4>1. headers \in Seq(Frames \cap Heads)
        BY <2>1, OnlyType
      <4> HIDE DEF headers, Heads
      <4> QED BY <2>5, <4>1, EmptySeq
    <3>2. HeaderBlock(headers[1]) = fragment
      <4> HIDE DEF headers
      <4> QED BY <2>5 DEF HeaderBlock
    <3>3. fragment # <<>>
      BY <2>5, OnlyEmpty
    <3>4. headers[1] \in Full
      BY <3>1, <3>2, <3>3
    <3>5. Only(frames, Full) # <<>> /\ Only(frames, Full)[1] = headers[1]
      <4>1. Full \subseteq Heads
        OBVIOUS
      <4> HIDE DEF Full, Heads
      <4> QED BY <2>1, <2>5, <3>4, <4>1, OnlyFirst
    <3>6. Blocks(frames) = Only(frames, Full)
      BY DEF Blocks
    <3>7. PseudoOrder(fragment) = pseudo
      <4> HIDE DEF fragment
      <4> QED BY <2>5 DEF PseudoOrder
    <3> HIDE DEF headers, fragment, pseudo, Full
    <3> QED BY <2>4, <3>2, <3>5, <3>6, <3>7
  <2> QED BY <2>3, <2>5 DEF OpeningIsRead
<1> QED BY <1>1, InputsAreSound, PTL

-----------------------------------------------------------------------------
(* Hellos                                                                  *)

SoundHello(h) ==
    /\ h.session \in Nat /\ h.compression \in Nat
    /\ h.ciphers \in Seq(ToSet(h.ciphers)) /\ h.exts \in Seq(Extensions)
    /\ \A i, j \in DOMAIN h.exts : h.exts[i].type = h.exts[j].type => i = j

LEMMA HellosAreSound == Inputs => \A k \in 1 .. 2 : SoundHello(hellos[k])
  BY ConversionInputs DEF Inputs, Hello, SoundHello

LEMMA SizesAre ==
  ASSUME NEW ext \in Extensions
  PROVE  /\ Prefix(ext.type) \in Nat /\ ItemSize(ext.type) \in Nat \ {0}
         /\ ItemHead(ext.type) \in 1 .. ItemSize(ext.type) /\ Len(ext.items) \in Nat
         /\ DataLen(ext) \in Nat
<1>1. ext.type \in Nat /\ ext.items \in Seq(ToSet(ext.items))
  BY ConversionInputs
<1>2. Len(ext.items) \in Nat
  BY <1>1, LenProperties
<1>3. PICK n \in Nat : n = Len(ext.items)
  BY <1>2
<1>4. Prefix(ext.type) \in Nat
  BY DEF Prefix
<1>5. ItemSize(ext.type) \in Nat \ {0}
  BY ConversionConstants DEF ItemSize
<1>6. ItemHead(ext.type) \in 1 .. ItemSize(ext.type)
  BY ConversionConstants DEF ItemSize, ItemHead
<1>7. DataLen(ext) = Prefix(ext.type) + ItemSize(ext.type) * n
  BY <1>3 DEF DataLen
<1>8. ItemSize(ext.type) * n \in Nat
  BY <1>5
<1> QED BY <1>2, <1>4, <1>5, <1>6, <1>7, <1>8

\* Where the extensions of a hello are.
ExtSizes(h) == [j \in 1 .. Len(h.exts) |-> 4 + DataLen(h.exts[j])]

LEMMA ExtensionsFollow ==
  ASSUME NEW h, SoundHello(h), NEW N \in Nat, N = Len(h.exts), NEW n \in 1 .. N
  PROVE  /\ ExtensionAt(h, n) \in Nat /\ HelloLen(h) \in Nat
         /\ ExtensionAt(h, n) + 4 + DataLen(h.exts[n]) <= HelloLen(h)
<1>1. PICK exts \in Seq(Extensions) : exts = h.exts /\ DOMAIN exts = 1 .. N
  BY DEF SoundHello
<1>2. ASSUME NEW j \in 1 .. N PROVE exts[j] \in Extensions /\ DataLen(exts[j]) \in Nat
  <2>1. PICK x \in Extensions : x = exts[j]
    BY <1>1
  <2> QED BY <2>1, SizesAre
<1>3. PICK z \in Seq(Nat) : z = ExtSizes(h) /\ Len(z) = N
                            /\ \A j \in 1 .. N : z[j] = 4 + DataLen(h.exts[j])
  <2>1. PICK z : z = [j \in 1 .. N |-> 4 + DataLen(exts[j])]
    OBVIOUS
  <2>2. z \in Seq(Nat) /\ Len(z) = N /\ \A j \in 1 .. N : z[j] = 4 + DataLen(exts[j])
    BY <1>2, <2>1
  <2>3. z = ExtSizes(h)
    BY <1>1, <2>1 DEF ExtSizes
  <2> QED BY <1>1, <2>2, <2>3
<1>4. ASSUME NEW i \in 0 .. N
      PROVE  [j \in 1 .. i |-> 4 + DataLen(h.exts[j])] = SubSeq(z, 1, i)
  <2>1. SubSeq(z, 1, i) = [j \in 1 .. i |-> z[j]]
    BY <1>3, PrefixIs
  <2> QED BY <1>3, <2>1
<1>5. CiphersAt(h) \in Nat /\ CompressionAt(h) \in Nat /\ ExtensionsAt(h) \in Nat
  <2>1. PICK c \in Nat : c = Len(h.ciphers)
    BY LenProperties DEF SoundHello
  <2>2. PICK a \in Nat, b \in Nat : a = h.session /\ b = h.compression
    BY DEF SoundHello
  <2>3. CiphersAt(h) = 39 + a
    BY <2>2 DEF SessionAt, CiphersAt
  <2>4. CompressionAt(h) = 39 + a + 2 + 2 * c
    BY <2>1, <2>3 DEF CompressionAt
  <2>5. ExtensionsAt(h) = 39 + a + 2 + 2 * c + 1 + b
    BY <2>2, <2>4 DEF ExtensionsAt
  <2> QED BY <2>3, <2>4, <2>5
<1>6. /\ ExtensionAt(h, n) = ExtensionsAt(h) + 2 + Total(SubSeq(z, 1, n - 1))
      /\ ExtensionAt(h, N + 1) = ExtensionsAt(h) + 2 + Total(SubSeq(z, 1, N))
  <2>1. n - 1 \in 0 .. N /\ N \in 0 .. N
    OBVIOUS
  <2>2. [j \in 1 .. n - 1 |-> 4 + DataLen(h.exts[j])] = SubSeq(z, 1, n - 1)
    BY <1>4, <2>1
  <2>3. [j \in 1 .. N |-> 4 + DataLen(h.exts[j])] = SubSeq(z, 1, N)
    BY <1>4, <2>1
  <2>4. PICK m \in Nat : m = N + 1 /\ m - 1 = N
    OBVIOUS
  <2>5. ExtensionAt(h, m) = ExtensionsAt(h) + 2 + Total(SubSeq(z, 1, N))
    BY <2>3, <2>4 DEF ExtensionAt
  <2>6. ExtensionAt(h, n) = ExtensionsAt(h) + 2 + Total(SubSeq(z, 1, n - 1))
    BY <2>2 DEF ExtensionAt
  <2> QED BY <2>4, <2>5, <2>6
<1>7. /\ Total(SubSeq(z, 1, n)) = Total(SubSeq(z, 1, n - 1)) + z[n]
      /\ Total(SubSeq(z, 1, n - 1)) \in Nat
      /\ Total(SubSeq(z, 1, n)) <= Total(SubSeq(z, 1, N)) /\ Total(SubSeq(z, 1, N)) \in Nat
  <2>1. n \in 1 .. Len(z) /\ n - 1 \in 0 .. N /\ n \in 0 .. N /\ N \in n .. N /\ n \in n - 1 .. N
    BY <1>3
  <2>2. Total(SubSeq(z, 1, n)) = Total(SubSeq(z, 1, n - 1)) + z[n]
    BY <2>1, TotalOfNext
  <2>3. Total(SubSeq(z, 1, n - 1)) \in Nat
    <3>1. PICK m \in 0 .. N : m = n - 1 /\ n \in m .. N
      BY <2>1
    <3>2. Total(SubSeq(z, 1, m)) \in Nat
      BY <1>3, <3>1, TotalGrows
    <3> QED BY <3>1, <3>2
  <2>4. Total(SubSeq(z, 1, n)) <= Total(SubSeq(z, 1, N)) /\ Total(SubSeq(z, 1, N)) \in Nat
    BY <1>3, <2>1, TotalGrows
  <2> HIDE DEF ExtSizes
  <2> QED BY <2>2, <2>3, <2>4
<1>8. z[n] = 4 + DataLen(h.exts[n]) /\ z[n] \in Nat /\ DataLen(h.exts[n]) \in Nat
  BY <1>1, <1>2, <1>3
<1>9. PICK d \in Nat, a \in Nat, b \in Nat :
        d = DataLen(h.exts[n]) /\ a = ExtensionAt(h, n) /\ b = ExtensionAt(h, N + 1) /\ a + 4 + d <= b
  <2>1. PICK d \in Nat : d = DataLen(h.exts[n]) /\ z[n] = 4 + d
    BY <1>8
  <2>2. PICK k \in Nat, m \in Nat, x \in Nat :
          /\ k = Total(SubSeq(z, 1, n - 1)) /\ m = Total(SubSeq(z, 1, N)) /\ x = ExtensionsAt(h)
          /\ k + z[n] <= m
    BY <1>5, <1>7
  <2>3. ExtensionAt(h, n) = x + 2 + k /\ ExtensionAt(h, N + 1) = x + 2 + m
    BY <1>6, <2>2
  <2>4. k + (4 + d) <= m
    BY <2>1, <2>2
  <2>5. PICK a \in Nat, b \in Nat : a = x + 2 + k /\ b = x + 2 + m /\ a + 4 + d <= b
    BY <2>4
  <2> QED BY <2>1, <2>3, <2>5
<1> QED BY <1>9 DEF HelloLen

\* How many items are found in some of the bytes of an extension, and in all.
Count(ext, size) ==
    IF size - Prefix(ext.type) < 0 THEN 0
    ELSE (size - Prefix(ext.type) + ItemSize(ext.type) - ItemHead(ext.type)) \div ItemSize(ext.type)

LEMMA CountIs ==
  ASSUME NEW ext \in Extensions, NEW N \in Nat, N = Len(ext.items), NEW size \in Int,
         size <= DataLen(ext)
  PROVE  Count(ext, size) \in 0 .. N /\ (size = DataLen(ext) => Count(ext, size) = N)
<1>1. PICK p \in Nat, d \in Nat \ {0} : p = Prefix(ext.type) /\ d = ItemSize(ext.type)
  BY SizesAre
<1>2. PICK a \in 1 .. d : a = ItemHead(ext.type)
  BY <1>1, SizesAre
<1>3. size <= p + d * N /\ (size = DataLen(ext) => size = p + d * N)
  BY <1>1 DEF DataLen
<1>4. d * N \in Nat
  OBVIOUS
<1>5. CASE size - p < 0
  <2>1. size # DataLen(ext)
    BY <1>3, <1>4, <1>5
  <2> QED BY <1>1, <1>5, <2>1 DEF Count
<1>6. CASE ~ (size - p < 0)
  <2>1. PICK x \in Nat : x = size - p + d - a /\ x < d * N + d
    BY <1>3, <1>4, <1>6
  <2>2. Count(ext, size) = x \div d
    BY <1>1, <1>2, <1>6, <2>1 DEF Count
  <2>3. x \div d \in 0 .. N
    BY <2>1, DivLess
  <2>4. size = p + d * N => x \div d = N
    <3> SUFFICES ASSUME size = p + d * N PROVE x \div d = N
      OBVIOUS
    <3>1. PICK r \in 0 .. d - 1 : r = d - a
      OBVIOUS
    <3>2. x = d * N + r
      BY <1>4, <2>1, <3>1
    <3> QED BY <3>2, DivUnique
  <2> QED BY <1>3, <2>2, <2>3, <2>4
<1> QED BY <1>5, <1>6

\* All items are read of the whole of an extension.
LEMMA AllItems ==
  ASSUME NEW ext \in Extensions
  PROVE  ItemsRead(ext, DataLen(ext)) = ext.items
<1>1. PICK N \in Nat : N = Len(ext.items) /\ SubSeq(ext.items, 1, N) = ext.items
  <2>1. ext.items \in Seq(ToSet(ext.items))
    BY ConversionInputs
  <2> QED BY <2>1, LenProperties, SubSeqFull
<1>2. PICK p \in Nat, d \in Nat \ {0} : p = Prefix(ext.type) /\ d = ItemSize(ext.type)
  BY SizesAre
<1>3. DataLen(ext) = p + d * N /\ d * N \in Nat
  BY <1>1, <1>2 DEF DataLen
<1>4. Count(ext, DataLen(ext)) = N
  BY <1>1, <1>3, CountIs
<1>5. PICK room \in Nat : room = DataLen(ext) - p /\ room = d * N
  BY <1>3
<1>6. room % d = 0
  <2>1. (d * N + 0) % d = 0
    BY DivUnique
  <2> QED BY <1>5, <2>1
<1>7. /\ DataLen(ext) - Prefix(ext.type) >= 0
      /\ (DataLen(ext) - Prefix(ext.type)) % ItemSize(ext.type) = 0
  BY <1>2, <1>5, <1>6
<1>8. ItemsRead(ext, DataLen(ext)) = SubSeq(ext.items, 1, Count(ext, DataLen(ext)))
  BY <1>7 DEF ItemsRead, Count
<1> QED BY <1>1, <1>4, <1>8

\* Of the first bytes of an extension the first items are read, and perhaps a
\* torn name.
LEMMA SomeItems ==
  ASSUME NEW ext \in Extensions, NEW size \in Int, size <= DataLen(ext)
  PROVE  \E first, read :
            /\ read = ItemsRead(ext, size)
            /\ first \in Seq(ToSet(ext.items)) /\ IsPrefix(first, ext.items)
            /\ read = first \/ (ext.type = 16 /\ read = Append(first, TornName))
<1>1. ext.items \in Seq(ToSet(ext.items))
  BY ConversionInputs
<1>2. PICK N \in Nat : N = Len(ext.items)
  BY <1>1, LenProperties
<1>3. PICK c \in 0 .. N : c = Count(ext, size)
  BY <1>2, CountIs
<1>4. ASSUME NEW n \in 0 .. N
      PROVE  SubSeq(ext.items, 1, n) \in Seq(ToSet(ext.items)) /\ IsPrefix(SubSeq(ext.items, 1, n), ext.items)
  <2>1. PICK s \in Seq(ToSet(ext.items)) : s = ext.items
    BY <1>1
  <2>2. PICK u : u = SubSeq(s, 1, n)
    OBVIOUS
  <2>3. u \in Seq(ToSet(ext.items)) /\ Len(u) = n /\ \A i \in 1 .. n : u[i] = s[i]
    BY <1>2, <2>1, <2>2
  <2>4. Len(u) <= Len(s) /\ \A i \in 1 .. Len(u) : u[i] = s[i]
    BY <1>2, <2>1, <2>3
  <2>5. IsPrefix(u, s)
    BY <2>3, <2>4, PrefixIff
  <2> QED BY <2>1, <2>2, <2>3, <2>5
<1>5. \/ ItemsRead(ext, size) = SubSeq(ext.items, 1, c)
      \/ /\ ext.type = 16 /\ c > 0
         /\ ItemsRead(ext, size) = Append(SubSeq(ext.items, 1, c - 1), TornName)
  BY <1>3 DEF ItemsRead, Count
<1>6. CASE ItemsRead(ext, size) = SubSeq(ext.items, 1, c)
  <2>1. PICK first : first = SubSeq(ext.items, 1, c)
    OBVIOUS
  <2> QED BY <1>4, <1>6, <2>1
<1>7. CASE ext.type = 16 /\ c > 0
           /\ ItemsRead(ext, size) = Append(SubSeq(ext.items, 1, c - 1), TornName)
  <2>1. PICK first : first = SubSeq(ext.items, 1, c - 1)
    OBVIOUS
  <2>2. c - 1 \in 0 .. N
    BY <1>7
  <2> QED BY <1>4, <1>7, <2>1, <2>2
<1> QED BY <1>5, <1>6, <1>7

\* What parse_client_hello has read of the extension of a type.
At(h, size, type) == {i \in 1 .. ExtensionsRead(h, size) : h.exts[i].type = type}
Body(h, size, i) ==
    ItemsRead(h.exts[i], Least(DataLen(h.exts[i]), size - ExtensionAt(h, i) - 4))
ItemsOf(h, size, type) ==
    IF At(h, size, type) = {} THEN <<>> ELSE Body(h, size, CHOOSE i \in At(h, size, type) : TRUE)

\* The extensions that have come, without GREASE.
Seen(h, size) ==
    Only(SubSeq(h.exts, 1, ExtensionsRead(h, size)), {e \in ToSet(h.exts) : ~IsGrease(e.type)})

IsRead(info, h, size) ==
    /\ info.version = h.version
    /\ info.ciphers =
          SubSeq(h.ciphers, 1, Least(Len(h.ciphers), (size - CiphersAt(h) - 2) \div 2))
    /\ info.extension_order = [i \in DOMAIN Seen(h, size) |-> Seen(h, size)[i].type]
    /\ info.curves = Kept(10, ItemsOf(h, size, 10))
    /\ info.point_formats = Kept(11, ItemsOf(h, size, 11))
    /\ info.signature_algorithms = Kept(13, ItemsOf(h, size, 13))
    /\ info.alpn = Kept(16, ItemsOf(h, size, 16))
    /\ info.cert_compression = Kept(27, ItemsOf(h, size, 27))
    /\ info.record_size_limit = Kept(28, ItemsOf(h, size, 28))
    /\ info.supported_versions = Kept(43, ItemsOf(h, size, 43))
    /\ info.key_share_curves = Kept(51, ItemsOf(h, size, 51))

LEMMA ParsedIs == ASSUME NEW h, NEW size PROVE IsRead(ParseClientHello(h, size), h, size)
<1>1. PICK info : info = ParseClientHello(h, size)
  OBVIOUS
<1>2. IsRead(info, h, size)
  BY <1>1 DEF ParseClientHello, ItemsOf, At, Body, Seen, IsRead
<1> QED BY <1>1, <1>2

LEMMA ReadIsFirst ==
  ASSUME NEW h, SoundHello(h), NEW size
  PROVE  ExtensionsRead(h, size) \in 0 .. Len(h.exts)
<1>1. PICK N \in Nat : N = Len(h.exts) /\ DOMAIN h.exts = 1 .. N
  BY LenProperties DEF SoundHello
<1>2. PICK S : S = {i \in DOMAIN h.exts : ExtensionAt(h, i) + 4 <= size}
  OBVIOUS
<1>3. IsFiniteSet(1 .. N) /\ Cardinality(1 .. N) = N /\ S \subseteq 1 .. N
  <2>1. IsFiniteSet(1 .. N) /\ Cardinality(1 .. N) = N
    BY FS_Interval
  <2>2. S \subseteq 1 .. N
    BY <1>1, <1>2
  <2> QED BY <2>1, <2>2
<1>4. IsFiniteSet(S) /\ Cardinality(S) <= N
  BY <1>3, FS_Subset
<1>5. Cardinality(S) \in Nat
  BY <1>4, FS_CardinalityType
<1> QED BY <1>1, <1>2, <1>4, <1>5 DEF ExtensionsRead

LEMMA AllRead ==
  ASSUME NEW h, SoundHello(h)
  PROVE  ExtensionsRead(h, HelloLen(h)) = Len(h.exts)
<1>1. PICK N \in Nat : N = Len(h.exts) /\ DOMAIN h.exts = 1 .. N /\ h.exts \in Seq(Extensions)
  BY LenProperties DEF SoundHello
<1>2. ASSUME NEW i \in 1 .. N PROVE ExtensionAt(h, i) + 4 <= HelloLen(h)
  <2>1. /\ ExtensionAt(h, i) \in Nat /\ HelloLen(h) \in Nat
        /\ ExtensionAt(h, i) + 4 + DataLen(h.exts[i]) <= HelloLen(h)
    BY <1>1, ExtensionsFollow
  <2>2. PICK x \in Extensions : x = h.exts[i]
    BY <1>1
  <2>3. DataLen(h.exts[i]) \in Nat
    BY <2>2, SizesAre
  <2> QED BY <2>1, <2>3
<1>3. {i \in DOMAIN h.exts : ExtensionAt(h, i) + 4 <= HelloLen(h)} = 1 .. N
  BY <1>1, <1>2
<1>4. Cardinality(1 .. N) = N
  BY FS_Interval
<1> QED BY <1>1, <1>3, <1>4 DEF ExtensionsRead

\* Of a whole hello the items of every extension are read.
LEMMA WholeItems ==
  ASSUME NEW h, SoundHello(h), NEW N \in Nat, N = Len(h.exts), NEW type
  PROVE  /\ \A i \in 1 .. N :
               h.exts[i].type = type => ItemsOf(h, HelloLen(h), type) = h.exts[i].items
         /\ (\A i \in 1 .. N : h.exts[i].type # type) => ItemsOf(h, HelloLen(h), type) = <<>>
<1>1. h.exts \in Seq(Extensions) /\ DOMAIN h.exts = 1 .. N
  BY DEF SoundHello
<1>2. At(h, HelloLen(h), type) = {i \in 1 .. N : h.exts[i].type = type}
  BY AllRead DEF At
<1>3. ASSUME NEW i \in 1 .. N, h.exts[i].type = type
      PROVE  ItemsOf(h, HelloLen(h), type) = h.exts[i].items
  <2>1. PICK x \in Extensions : x = h.exts[i]
    BY <1>1
  <2>2. At(h, HelloLen(h), type) = {i}
    BY <1>1, <1>2, <1>3 DEF SoundHello
  <2>3. ItemsOf(h, HelloLen(h), type) = Body(h, HelloLen(h), i)
    BY <2>2 DEF ItemsOf
  <2>4. Least(DataLen(x), HelloLen(h) - ExtensionAt(h, i) - 4) = DataLen(x)
    <3>1. /\ ExtensionAt(h, i) \in Nat /\ HelloLen(h) \in Nat
          /\ ExtensionAt(h, i) + 4 + DataLen(x) <= HelloLen(h)
      BY <2>1, ExtensionsFollow
    <3>2. DataLen(x) \in Nat
      BY SizesAre
    <3> QED BY <3>1, <3>2 DEF Least
  <2>5. Body(h, HelloLen(h), i) = ItemsRead(x, DataLen(x))
    BY <2>1, <2>4 DEF Body
  <2> QED BY <2>1, <2>3, <2>5, AllItems
<1>4. ASSUME \A i \in 1 .. N : h.exts[i].type # type PROVE ItemsOf(h, HelloLen(h), type) = <<>>
  BY <1>2, <1>4 DEF ItemsOf
<1> QED BY <1>3, <1>4

\* Of a part of it the first items of some.
LEMMA PartItems ==
  ASSUME NEW h, SoundHello(h), NEW N \in Nat, N = Len(h.exts), NEW size \in Int, NEW type
  PROVE  \/ ItemsOf(h, size, type) = <<>>
         \/ \E i \in 1 .. N, room \in Int :
               /\ h.exts[i].type = type /\ room <= DataLen(h.exts[i])
               /\ ItemsOf(h, size, type) = ItemsRead(h.exts[i], room)
<1>1. h.exts \in Seq(Extensions) /\ DOMAIN h.exts = 1 .. N
  BY DEF SoundHello
<1>2. CASE At(h, size, type) = {}
  BY <1>2 DEF ItemsOf
<1>3. CASE At(h, size, type) # {}
  <2>1. PICK i : i = CHOOSE j \in At(h, size, type) : TRUE
    OBVIOUS
  <2>2. i \in At(h, size, type)
    BY <1>3, <2>1
  <2>3. i \in 1 .. N /\ h.exts[i].type = type
    <3>1. ExtensionsRead(h, size) \in 0 .. N
      BY ReadIsFirst
    <3> QED BY <2>2, <3>1 DEF At
  <2>4. ItemsOf(h, size, type) = Body(h, size, i)
    BY <1>3, <2>1 DEF ItemsOf
  <2>5. PICK room : room = Least(DataLen(h.exts[i]), size - ExtensionAt(h, i) - 4)
    OBVIOUS
  <2>6. PICK x \in Extensions : x = h.exts[i]
    BY <1>1, <2>3
  <2>7. DataLen(x) \in Nat /\ ExtensionAt(h, i) \in Nat
    BY <2>3, <2>6, SizesAre, ExtensionsFollow
  <2>8. room \in Int /\ room <= DataLen(x)
    BY <2>5, <2>6, <2>7 DEF Least
  <2>9. ItemsOf(h, size, type) = ItemsRead(h.exts[i], room)
    BY <2>4, <2>5 DEF Body
  <2> QED BY <2>3, <2>6, <2>8, <2>9
<1> QED BY <1>2, <1>3

\* The ciphers come before the compression methods, and those before the end.
LEMMA CiphersRead ==
  ASSUME NEW h, SoundHello(h), NEW size \in Int, size > CompressionAt(h)
  PROVE  SubSeq(h.ciphers, 1, Least(Len(h.ciphers), (size - CiphersAt(h) - 2) \div 2)) = h.ciphers
<1>1. PICK c \in Nat : c = Len(h.ciphers) /\ SubSeq(h.ciphers, 1, c) = h.ciphers
  BY LenProperties, SubSeqFull DEF SoundHello
<1>2. PICK a \in Nat : a = CiphersAt(h) /\ CompressionAt(h) = a + 2 + 2 * c
  <2>1. PICK b \in Nat : b = h.session
    BY DEF SoundHello
  <2>2. CiphersAt(h) = 39 + b
    BY <2>1 DEF CiphersAt, SessionAt
  <2>3. PICK a \in Nat : a = CiphersAt(h)
    BY <2>2
  <2> QED BY <1>1, <2>3 DEF CompressionAt
<1>3. PICK x \in Nat : x = size - CiphersAt(h) - 2 /\ x > 2 * c
  BY <1>2
<1>4. PICK q \in Nat, r \in 0 .. 1 : q = x \div 2 /\ x = 2 * q + r
  OBVIOUS
<1>5. Least(c, q) = c
  BY <1>3, <1>4 DEF Least
<1> QED BY <1>1, <1>3, <1>4, <1>5

LEMMA CompressionComes ==
  ASSUME NEW h, SoundHello(h)
  PROVE  HelloLen(h) \in Nat /\ HelloLen(h) > CompressionAt(h)
<1>1. PICK N \in Nat : N = Len(h.exts) /\ DOMAIN h.exts = 1 .. N
  BY LenProperties DEF SoundHello
<1>2. PICK exts \in Seq(Extensions) : exts = h.exts
  BY DEF SoundHello
<1>3. PICK z : z = [j \in 1 .. N |-> 4 + DataLen(exts[j])]
  OBVIOUS
<1>4. z \in Seq(Nat)
  <2>1. ASSUME NEW j \in 1 .. N PROVE 4 + DataLen(exts[j]) \in Nat
    <3>1. PICK x \in Extensions : x = exts[j]
      BY <1>1, <1>2
    <3>2. DataLen(x) \in Nat
      BY SizesAre
    <3> QED BY <3>1, <3>2
  <2> QED BY <1>3, <2>1
<1>5. PICK sum \in Nat : sum = Total(z)
  BY <1>4, TotalNat
<1>6. PICK m \in Nat : m = N + 1 /\ m - 1 = N
  OBVIOUS
<1>7. HelloLen(h) = ExtensionsAt(h) + 2 + sum
  BY <1>1, <1>2, <1>3, <1>5, <1>6 DEF HelloLen, ExtensionAt
<1>8. PICK c \in Nat : c = Len(h.ciphers)
  BY LenProperties DEF SoundHello
<1>9. PICK a \in Nat, b \in Nat : a = h.session /\ b = h.compression
  BY DEF SoundHello
<1>10. CompressionAt(h) = 39 + a + 2 + 2 * c
  BY <1>8, <1>9 DEF SessionAt, CiphersAt, CompressionAt
<1>11. ExtensionsAt(h) = CompressionAt(h) + 1 + b
  BY <1>9 DEF ExtensionsAt
<1> QED BY <1>7, <1>10, <1>11

\* What a hello offers of a type is what is kept of it, and what it offers at all
\* are the types that identify it.
LEMMA OfferIsKept ==
  ASSUME NEW h, SoundHello(h), NEW type \in Nat, type # 0, ~IsGrease(type)
  PROVE  /\ \A e \in OffersOf(h).exts :
               e.type = type => e.items = Kept(type, ItemsOf(h, HelloLen(h), type))
         /\ (\A e \in OffersOf(h).exts : e.type # type) => ItemsOf(h, HelloLen(h), type) = <<>>
<1>1. PICK N \in Nat : N = Len(h.exts) /\ DOMAIN h.exts = 1 .. N
  BY LenProperties DEF SoundHello
<1>2. PICK offers : offers = OffersOf(h).exts
  OBVIOUS
<1>3. offers = {[type |-> e.type, items |-> Kept(e.type, e.items)] :
                   e \in {e \in ToSet(h.exts) : e.type # 0 /\ ~IsGrease(e.type)}}
  BY <1>2 DEF OffersOf
<1>4. ToSet(h.exts) = {h.exts[i] : i \in 1 .. N}
  BY <1>1 DEF ToSet
<1>5. ASSUME NEW e \in offers, e.type = type
      PROVE  e.items = Kept(type, ItemsOf(h, HelloLen(h), type))
  <2>1. PICK i \in 1 .. N :
          e = [type |-> h.exts[i].type, items |-> Kept(h.exts[i].type, h.exts[i].items)]
    BY <1>3, <1>4
  <2>2. h.exts[i].type = type /\ e.items = Kept(type, h.exts[i].items)
    BY <1>5, <2>1
  <2>3. ItemsOf(h, HelloLen(h), type) = h.exts[i].items
    BY <1>1, <2>2, WholeItems
  <2> QED BY <2>2, <2>3
<1>6. ASSUME \A e \in offers : e.type # type
      PROVE  ItemsOf(h, HelloLen(h), type) = <<>>
  <2>1. ASSUME NEW i \in 1 .. N, h.exts[i].type = type PROVE FALSE
    <3>1. PICK x : x = h.exts[i]
      OBVIOUS
    <3>2. x \in {e \in ToSet(h.exts) : e.type # 0 /\ ~IsGrease(e.type)}
      BY <1>4, <2>1, <3>1
    <3>3. [type |-> x.type, items |-> Kept(x.type, x.items)] \in offers
      BY <1>3, <3>2
    <3> QED BY <1>6, <2>1, <3>1, <3>3
  <2> QED BY <1>1, <2>1, WholeItems
<1> QED BY <1>2, <1>5, <1>6

LEMMA SeenIs ==
  ASSUME NEW h, SoundHello(h)
  PROVE  Seen(h, HelloLen(h)) = Only(h.exts, {e \in ToSet(h.exts) : ~IsGrease(e.type)})
<1>1. h.exts \in Seq(Extensions)
  BY DEF SoundHello
<1>2. SubSeq(h.exts, 1, ExtensionsRead(h, HelloLen(h))) = h.exts
  BY <1>1, AllRead, SubSeqFull
<1> QED BY <1>2 DEF Seen

LEMMA OfferedIs ==
  ASSUME NEW h, SoundHello(h), NEW info, info = ParseClientHello(h, HelloLen(h))
  PROVE  Offered(info) = {e.type : e \in OffersOf(h).exts}
<1>1. PICK exts \in Seq(Extensions) : exts = h.exts
  BY DEF SoundHello
<1>2. PICK true : true = {e \in ToSet(exts) : ~IsGrease(e.type)}
  OBVIOUS
<1>3. PICK seen : seen = Only(exts, true)
  OBVIOUS
<1>4. ToSet(seen) = ToSet(exts) \cap true
  BY <1>3, OnlyToSet
<1>5. ToSet(seen) = true
  BY <1>2, <1>4
<1>6. info.extension_order = [i \in DOMAIN seen |-> seen[i].type]
  <2>1. seen = Seen(h, HelloLen(h))
    BY <1>1, <1>2, <1>3, SeenIs
  <2>2. IsRead(info, h, HelloLen(h))
    BY ParsedIs
  <2> QED BY <2>1, <2>2 DEF IsRead
<1>7. ToSet(info.extension_order) = {e.type : e \in ToSet(seen)}
  BY <1>6 DEF ToSet
<1>8. OffersOf(h).exts = {[type |-> e.type, items |-> Kept(e.type, e.items)] :
                             e \in {e \in ToSet(exts) : e.type # 0 /\ ~IsGrease(e.type)}}
  BY <1>1 DEF OffersOf
<1>9. PICK told : told = {e \in ToSet(exts) : e.type # 0 /\ ~IsGrease(e.type)}
  OBVIOUS
<1>10. {e.type : e \in OffersOf(h).exts} = {e.type : e \in told}
  <2>1. PICK offers : offers = OffersOf(h).exts
    OBVIOUS
  <2>2. offers = {[type |-> e.type, items |-> Kept(e.type, e.items)] : e \in told}
    BY <1>8, <1>9, <2>1
  <2>3. ASSUME NEW e \in told PROVE \E o \in offers : o.type = e.type
    <3>1. PICK o : o = [type |-> e.type, items |-> Kept(e.type, e.items)]
      OBVIOUS
    <3>2. o \in offers /\ o.type = e.type
      BY <2>2, <3>1
    <3> QED BY <3>2
  <2>4. ASSUME NEW o \in offers PROVE \E e \in told : o.type = e.type
    BY <2>2
  <2> QED BY <2>1, <2>3, <2>4
<1>11. told = {e \in true : e.type # 0}
  BY <1>2, <1>9
<1> QED BY <1>5, <1>7, <1>10, <1>11 DEF Offered

\* What a hello offers decides its identity: the bytes of a whole hello are read
\* to the last item, in whatever order its extensions are.
LEMMA OfferDecides ==
  ASSUME NEW g, SoundHello(g), NEW h, SoundHello(h), OffersOf(g) = OffersOf(h)
  PROVE  StableId(ParseClientHello(g, HelloLen(g))) = StableId(ParseClientHello(h, HelloLen(h)))
<1>1. PICK a, b : a = ParseClientHello(g, HelloLen(g)) /\ b = ParseClientHello(h, HelloLen(h))
  OBVIOUS
<1>2. g.version = h.version /\ Ungreased(g.ciphers) = Ungreased(h.ciphers)
  <2>1. OffersOf(g).version = OffersOf(h).version /\ OffersOf(g).ciphers = OffersOf(h).ciphers
    OBVIOUS
  <2> QED BY <2>1 DEF OffersOf
<1>3. ASSUME NEW type \in {10, 11, 13, 16, 27, 28, 43, 51}
      PROVE  Kept(type, ItemsOf(g, HelloLen(g), type)) = Kept(type, ItemsOf(h, HelloLen(h), type))
  <2>1. type \in Nat /\ type # 0 /\ ~IsGrease(type)
    BY DEF IsGrease
  <2>2. PICK offers : offers = OffersOf(g).exts /\ offers = OffersOf(h).exts
    OBVIOUS
  <2>3. PICK x : x = ItemsOf(g, HelloLen(g), type)
    OBVIOUS
  <2>4. PICK y : y = ItemsOf(h, HelloLen(h), type)
    OBVIOUS
  <2>5. /\ \A e \in offers : e.type = type => e.items = Kept(type, x)
        /\ (\A e \in offers : e.type # type) => x = <<>>
    BY <2>1, <2>2, <2>3, OfferIsKept
  <2>6. /\ \A e \in offers : e.type = type => e.items = Kept(type, y)
        /\ (\A e \in offers : e.type # type) => y = <<>>
    BY <2>1, <2>2, <2>4, OfferIsKept
  <2> QED BY <2>3, <2>4, <2>5, <2>6
<1>4. a.ciphers = g.ciphers /\ b.ciphers = h.ciphers
  <2>1. HelloLen(g) \in Int /\ HelloLen(g) > CompressionAt(g)
    BY CompressionComes
  <2>2. HelloLen(h) \in Int /\ HelloLen(h) > CompressionAt(h)
    BY CompressionComes
  <2>3. a.ciphers = g.ciphers
    <3>1. PICK m \in Int : m = HelloLen(g) /\ m > CompressionAt(g)
      BY <2>1
    <3>2. a = ParseClientHello(g, m)
      BY <1>1, <3>1
    <3>3. a.ciphers = SubSeq(g.ciphers, 1, Least(Len(g.ciphers), (m - CiphersAt(g) - 2) \div 2))
      <4>1. IsRead(a, g, m)
        BY <3>2, ParsedIs
      <4> QED BY <4>1 DEF IsRead
    <3> QED BY <3>1, <3>3, CiphersRead
  <2>4. b.ciphers = h.ciphers
    <3>1. PICK m \in Int : m = HelloLen(h) /\ m > CompressionAt(h)
      BY <2>2
    <3>2. b = ParseClientHello(h, m)
      BY <1>1, <3>1
    <3>3. b.ciphers = SubSeq(h.ciphers, 1, Least(Len(h.ciphers), (m - CiphersAt(h) - 2) \div 2))
      <4>1. IsRead(b, h, m)
        BY <3>2, ParsedIs
      <4> QED BY <4>1 DEF IsRead
    <3> QED BY <3>1, <3>3, CiphersRead
  <2> QED BY <2>3, <2>4
<1>5. Offered(a) = Offered(b)
  <2>1. Offered(a) = {e.type : e \in OffersOf(g).exts}
    BY <1>1, OfferedIs
  <2>2. Offered(b) = {e.type : e \in OffersOf(h).exts}
    BY <1>1, OfferedIs
  <2> QED BY <2>1, <2>2
<1>6. /\ a.version = b.version
      /\ a.curves = b.curves /\ a.point_formats = b.point_formats
      /\ a.signature_algorithms = b.signature_algorithms /\ a.alpn = b.alpn
      /\ a.cert_compression = b.cert_compression
      /\ a.record_size_limit = b.record_size_limit
      /\ a.key_share_curves = b.key_share_curves
  <2>1. PICK m, n : m = HelloLen(g) /\ n = HelloLen(h)
                    /\ a = ParseClientHello(g, m) /\ b = ParseClientHello(h, n)
    BY <1>1
  <2>2. /\ a.version = g.version /\ a.curves = Kept(10, ItemsOf(g, m, 10))
        /\ a.point_formats = Kept(11, ItemsOf(g, m, 11))
        /\ a.signature_algorithms = Kept(13, ItemsOf(g, m, 13))
        /\ a.alpn = Kept(16, ItemsOf(g, m, 16))
        /\ a.cert_compression = Kept(27, ItemsOf(g, m, 27))
        /\ a.record_size_limit = Kept(28, ItemsOf(g, m, 28))
        /\ a.key_share_curves = Kept(51, ItemsOf(g, m, 51))
    <3>1. IsRead(a, g, m)
      BY <2>1, ParsedIs
    <3> QED BY <3>1 DEF IsRead
  <2>3. /\ b.version = h.version /\ b.curves = Kept(10, ItemsOf(h, n, 10))
        /\ b.point_formats = Kept(11, ItemsOf(h, n, 11))
        /\ b.signature_algorithms = Kept(13, ItemsOf(h, n, 13))
        /\ b.alpn = Kept(16, ItemsOf(h, n, 16))
        /\ b.cert_compression = Kept(27, ItemsOf(h, n, 27))
        /\ b.record_size_limit = Kept(28, ItemsOf(h, n, 28))
        /\ b.key_share_curves = Kept(51, ItemsOf(h, n, 51))
    <3>1. IsRead(b, h, n)
      BY <2>1, ParsedIs
    <3> QED BY <3>1 DEF IsRead
  <2> QED BY <1>2, <1>3, <2>1, <2>2, <2>3
<1>7. FamilyId(a) = FamilyId(b)
  BY <1>2, <1>4, <1>5, <1>6 DEF FamilyId
<1>8. StableId(a) = StableId(b)
  BY <1>6, <1>7 DEF StableId
<1> QED BY <1>1, <1>8

\* Two hellos of a client, whatever the order of their extensions, their GREASE
\* and the name they ask for, have one identity (ClientHelloInfo.stable_id).
THEOREM OfferIsIdentity == ConversionSpec => []OneClientOneIdentity
<1>1. ASSUME Inputs PROVE OneClientOneIdentity
  <2>1. SoundHello(hellos[1]) /\ SoundHello(hellos[2])
    BY <1>1, HellosAreSound
  <2> QED BY <2>1, OfferDecides DEF OneClientOneIdentity, Info
<1> QED BY <1>1, InputsAreSound, PTL

-----------------------------------------------------------------------------
(* Hellos cut short                                                        *)

LEMMA EmptyPrefix == ASSUME NEW T, NEW s \in Seq(T) PROVE IsPrefix(<<>>, s)
<1>1. PICK e \in Seq(T) : e = <<>> /\ Len(e) = 0
  BY EmptySeq
<1>2. Len(s) \in Nat
  BY LenProperties
<1>3. Len(e) <= Len(s) /\ \A i \in 1 .. Len(e) : e[i] = s[i]
  BY <1>1, <1>2
<1>4. IsPrefix(e, s)
  BY <1>3, PrefixIff
<1> QED BY <1>1, <1>4

\* The items read of a cut hello are the first ones of those read of it whole,
\* and perhaps a torn name.
LEMMA CutItems ==
  ASSUME NEW h, SoundHello(h), NEW size \in Int, NEW type
  PROVE  \E first, whole :
            /\ whole = ItemsOf(h, HelloLen(h), type) /\ whole \in Seq(ToSet(whole))
            /\ first \in Seq(ToSet(whole)) /\ IsPrefix(first, whole)
            /\ type = 16 => TornName \notin ToSet(whole)
            /\ \/ ItemsOf(h, size, type) = first
               \/ type = 16 /\ ItemsOf(h, size, type) = Append(first, TornName)
<1>1. PICK N \in Nat : N = Len(h.exts) /\ DOMAIN h.exts = 1 .. N
  BY LenProperties DEF SoundHello
<1>2. PICK exts \in Seq(Extensions) : exts = h.exts
  BY DEF SoundHello
<1>3. PICK whole : whole = ItemsOf(h, HelloLen(h), type)
  OBVIOUS
<1>4. /\ \A i \in 1 .. N : h.exts[i].type = type => whole = h.exts[i].items
      /\ (\A i \in 1 .. N : h.exts[i].type # type) => whole = <<>>
  BY <1>1, <1>3, WholeItems
<1>5. whole \in Seq(ToSet(whole)) /\ (type = 16 => TornName \notin ToSet(whole))
  <2>1. CASE \A i \in 1 .. N : h.exts[i].type # type
    <3>1. whole = <<>>
      BY <1>4, <2>1
    <3> QED BY <3>1, ToSetEmpty, EmptySeq
  <2>2. CASE ~ (\A i \in 1 .. N : h.exts[i].type # type)
    <3>1. PICK i \in 1 .. N : h.exts[i].type = type
      BY <2>2
    <3>2. PICK x \in Extensions : x = h.exts[i]
      BY <1>1, <1>2
    <3>3. whole = x.items /\ x.type = type
      BY <1>4, <3>1, <3>2
    <3> QED BY <3>3, ConversionInputs
  <2> QED BY <2>1, <2>2
<1>6. CASE ItemsOf(h, size, type) = <<>>
  <2>1. PICK first : first = <<>>
    OBVIOUS
  <2>2. first \in Seq(ToSet(whole)) /\ IsPrefix(first, whole)
    BY <1>5, <2>1, EmptyPrefix, EmptySeq
  <2> QED BY <1>3, <1>5, <1>6, <2>1, <2>2
<1>7. ASSUME NEW i \in 1 .. N, NEW room \in Int, h.exts[i].type = type,
             room <= DataLen(h.exts[i]), ItemsOf(h, size, type) = ItemsRead(h.exts[i], room)
      PROVE  \E first :
                /\ first \in Seq(ToSet(whole)) /\ IsPrefix(first, whole)
                /\ \/ ItemsOf(h, size, type) = first
                   \/ type = 16 /\ ItemsOf(h, size, type) = Append(first, TornName)
  <2>1. PICK x \in Extensions : x = h.exts[i]
    BY <1>1, <1>2
  <2>2. whole = x.items /\ x.type = type /\ room <= DataLen(x)
    BY <1>4, <1>7, <2>1
  <2>3. PICK first, read :
          /\ read = ItemsRead(x, room)
          /\ first \in Seq(ToSet(x.items)) /\ IsPrefix(first, x.items)
          /\ read = first \/ (x.type = 16 /\ read = Append(first, TornName))
    BY <2>2, SomeItems
  <2> QED BY <1>7, <2>1, <2>2, <2>3
<1>8. \/ ItemsOf(h, size, type) = <<>>
      \/ \E i \in 1 .. N, room \in Int :
            /\ h.exts[i].type = type /\ room <= DataLen(h.exts[i])
            /\ ItemsOf(h, size, type) = ItemsRead(h.exts[i], room)
  BY <1>1, PartItems
<1> QED BY <1>3, <1>5, <1>6, <1>7, <1>8

LEMMA UngreasedPrefix ==
  ASSUME NEW T, NEW s \in Seq(T), NEW t \in Seq(T), IsPrefix(s, t)
  PROVE  IsPrefix(Ungreased(s), Ungreased(t))
<1>1. PICK true : true = {v \in T : ~IsGrease(v)}
  OBVIOUS
<1>2. ASSUME NEW r \in Seq(T) PROVE Ungreased(r) = Only(r, true)
  <2>1. \A i \in 1 .. Len(r) : r[i] \in T /\ r[i] \in ToSet(r)
    BY DEF ToSet
  <2>2. PICK kept : kept = {v \in ToSet(r) : ~IsGrease(v)}
    OBVIOUS
  <2>3. \A i \in 1 .. Len(r) : r[i] \in kept <=> r[i] \in true
    BY <1>1, <2>1, <2>2
  <2>4. Only(r, kept) = Only(r, true)
    BY <2>3, OnlySame
  <2> QED BY <2>2, <2>4 DEF Ungreased
<1> QED BY <1>2, OnlyPrefix

LEMMA TornIsLast ==
  ASSUME NEW T, NEW s \in Seq(T), NEW x, x \notin T
  PROVE  Without(s, {x}) = s /\ Without(Append(s, x), {x}) = s
<1>1. s \in Seq(T \cup {x})
  BY SeqMonotonic
<1>2. PICK N \in Nat : N = Len(s) /\ DOMAIN s = 1 .. N
  BY LenProperties
<1>3. \A i \in 1 .. N : s[i] \in T
  BY <1>2
<1>4. Without(s, {x}) = s
  <2>1. PICK S : S = {s[i] : i \in DOMAIN s} \ {x}
    OBVIOUS
  <2>2. \A i \in 1 .. Len(s) : s[i] \in S
    BY <1>2, <1>3, <2>1
  <2>3. Only(s, S) = s
    BY <2>2, OnlyAll
  <2> QED BY <2>1, <2>3 DEF Without
<1>5. Without(Append(s, x), {x}) = s
  <2>1. PICK t : t = Append(s, x)
    OBVIOUS
  <2>2. DOMAIN t = 1 .. N + 1 /\ \A i \in 1 .. N : t[i] = s[i]
    BY <1>2, <2>1
  <2>3. PICK S : S = {t[i] : i \in DOMAIN t} \ {x}
    OBVIOUS
  <2>4. \A i \in 1 .. Len(s) : s[i] \in S
    <3>1. ASSUME NEW i \in 1 .. N PROVE s[i] \in S
      <4>1. i \in DOMAIN t /\ t[i] = s[i] /\ s[i] # x
        BY <1>3, <2>2
      <4> QED BY <2>3, <4>1
    <3> QED BY <1>2, <3>1
  <2>5. Only(s, S) = s
    BY <2>4, OnlyAll
  <2>6. x \notin S
    BY <2>3
  <2>7. Only(Append(s, x), S) = Only(s, S)
    BY <1>1, <2>6, OnlyAppend
  <2> QED BY <2>1, <2>3, <2>5, <2>7 DEF Without
<1> QED BY <1>4, <1>5

LEMMA CutOrder ==
  ASSUME NEW h, SoundHello(h), NEW size, NEW a, NEW b,
         IsRead(a, h, size), IsRead(b, h, HelloLen(h))
  PROVE  IsPrefix(a.extension_order, b.extension_order)
<1>0. PICK exts \in Seq(Extensions) : exts = h.exts
  BY DEF SoundHello
<1>1. PICK true :
        /\ exts \in Seq(Extensions) /\ exts = h.exts
        /\ true = {e \in ToSet(exts) : ~IsGrease(e.type)}
  BY <1>0
<1>2. PICK N \in Nat : N = Len(exts) /\ DOMAIN exts = 1 .. N
  BY LenProperties
<1>3. PICK k \in 0 .. N : k = ExtensionsRead(h, size)
  BY <1>1, <1>2, ReadIsFirst
<1>4. PICK come : come = SubSeq(exts, 1, k)
  OBVIOUS
<1>5. come \in Seq(Extensions) /\ IsPrefix(come, exts)
  <2>1. come \in Seq(Extensions) /\ Len(come) = k /\ \A i \in 1 .. k : come[i] = exts[i]
    BY <1>2, <1>4
  <2>2. Len(come) <= Len(exts) /\ \A i \in 1 .. Len(come) : come[i] = exts[i]
    BY <1>2, <2>1
  <2> QED BY <2>1, <2>2, PrefixIff
<1>6. PICK sa \in Seq(Extensions), sb \in Seq(Extensions) :
        sa = Only(come, true) /\ sb = Only(exts, true)
  <2>1. Only(come, true) \in Seq(Extensions) /\ Only(exts, true) \in Seq(Extensions)
    BY <1>5, OnlyInList
  <2> QED BY <2>1
<1>7. IsPrefix(sa, sb)
  BY <1>5, <1>6, OnlyPrefix
<1>8. sa = Seen(h, size) /\ sb = Seen(h, HelloLen(h))
  <2>1. sa = Seen(h, size)
    BY <1>1, <1>3, <1>4, <1>6 DEF Seen
  <2>2. sb = Seen(h, HelloLen(h))
    BY <1>1, <1>6, SeenIs
  <2> QED BY <2>1, <2>2
<1>9. PICK n \in Nat, m \in Nat :
        n = Len(sa) /\ m = Len(sb) /\ DOMAIN sa = 1 .. n /\ DOMAIN sb = 1 .. m
  BY LenProperties
<1>10. n <= m /\ \A i \in 1 .. n : sa[i] = sb[i]
  BY <1>7, <1>9, PrefixIff
<1>11. PICK u : u = [i \in 1 .. n |-> sa[i].type]
  OBVIOUS
<1>12. PICK v : v = [i \in 1 .. m |-> sb[i].type]
  OBVIOUS
<1>13. u = a.extension_order /\ v = b.extension_order
  BY <1>8, <1>9, <1>11, <1>12 DEF IsRead
<1>14. u \in Seq(Nat) /\ Len(u) = n /\ v \in Seq(Nat) /\ Len(v) = m
  <2>1. \A e \in Extensions : e.type \in Nat
    BY ConversionInputs
  <2>2. ASSUME NEW i \in 1 .. n PROVE sa[i].type \in Nat
    BY <1>9, <2>1
  <2>3. ASSUME NEW i \in 1 .. m PROVE sb[i].type \in Nat
    BY <1>9, <2>1
  <2>4. u \in Seq(Nat) /\ Len(u) = n
    BY <1>11, <2>2
  <2>5. v \in Seq(Nat) /\ Len(v) = m
    BY <1>12, <2>3
  <2> QED BY <2>4, <2>5
<1>15. Len(u) <= Len(v) /\ \A i \in 1 .. Len(u) : u[i] = v[i]
  <2>1. \A i \in 1 .. n : u[i] = v[i]
    BY <1>10, <1>11, <1>12
  <2> QED BY <1>10, <1>14, <2>1
<1>16. IsPrefix(u, v)
  BY <1>14, <1>15, PrefixIff
<1> QED BY <1>13, <1>16

\* A hello cut where it likes is either refused or read without some of its last
\* extensions and of their last items (parse_client_hello, _read_extension).
THEOREM CutIsPrefix == ConversionSpec => []CutLosesOnlyTheTail
<1>1. ASSUME Inputs PROVE CutLosesOnlyTheTail
  <2>1. PICK h : h = hellos[1] /\ SoundHello(h)
    BY <1>1, HellosAreSound
  <2>2. HelloLen(h) \in Nat /\ HelloLen(h) > CompressionAt(h)
    BY <2>1, CompressionComes
  <2>3. ASSUME NEW a \in CutInfos(1)
        PROVE  LET b == Info(1)
               IN  /\ a.ciphers = b.ciphers
                   /\ IsPrefix(a.extension_order, b.extension_order)
                   /\ \A field \in {"curves", "signature_algorithms", "supported_versions"} :
                         IsPrefix(a[field], b[field])
                   /\ IsPrefix(Without(a.alpn, {TornName}), b.alpn)
    <3>1. PICK size \in 0 .. HelloLen(h) :
            a = ParseClientHello(h, size) /\ Outcome(h, size) = "parsed"
      BY <2>1 DEF CutInfos
    <3>2. PICK b : b = Info(1) /\ b = ParseClientHello(h, HelloLen(h))
      BY <2>1 DEF Info
    <3>3. IsRead(a, h, size) /\ IsRead(b, h, HelloLen(h))
      BY <3>1, <3>2, ParsedIs
    <3>4. size \in Int /\ HelloLen(h) \in Int /\ size > CompressionAt(h)
      <4>1. PICK c \in Nat : c = Len(h.ciphers)
        BY <2>1, LenProperties DEF SoundHello
      <4>2. PICK s \in Nat : s = h.session
        BY <2>1 DEF SoundHello
      <4>3. CiphersAt(h) = 39 + s
        BY <4>2 DEF CiphersAt, SessionAt
      <4>4. CompressionAt(h) = 39 + s + 2 + 2 * c
        BY <4>1, <4>3 DEF CompressionAt
      <4>5. size \in Nat
        BY <2>2
      <4>6. ~ (size <= CompressionAt(h))
        BY <3>1 DEF Outcome
      <4> QED BY <2>2, <4>4, <4>5, <4>6
    <3>5. a.ciphers = h.ciphers
      BY <2>1, <3>3, <3>4, CiphersRead DEF IsRead
    <3>6. b.ciphers = h.ciphers
      BY <2>1, <2>2, <3>3, <3>4, CiphersRead DEF IsRead
    <3>7. IsPrefix(a.extension_order, b.extension_order)
      BY <2>1, <3>3, CutOrder
    <3>8. IsPrefix(a.curves, b.curves) /\ IsPrefix(a.supported_versions, b.supported_versions)
      <4>1. ASSUME NEW type \in {10, 43}
            PROVE  IsPrefix(Kept(type, ItemsOf(h, size, type)),
                            Kept(type, ItemsOf(h, HelloLen(h), type)))
        <5>1. PICK first, whole :
                /\ whole = ItemsOf(h, HelloLen(h), type) /\ whole \in Seq(ToSet(whole))
                /\ first \in Seq(ToSet(whole)) /\ IsPrefix(first, whole)
                /\ type # 16 => ItemsOf(h, size, type) = first
          BY <2>1, <3>4, CutItems
        <5>2. IsPrefix(Ungreased(first), Ungreased(whole))
          BY <5>1, UngreasedPrefix
        <5>3. ItemsOf(h, size, type) = first
          BY <5>1
        <5> QED BY <5>1, <5>2, <5>3 DEF Kept
      <4> QED BY <3>3, <4>1 DEF IsRead
    <3>9. IsPrefix(a.signature_algorithms, b.signature_algorithms)
      <4>1. PICK first, whole :
              /\ whole = ItemsOf(h, HelloLen(h), 13)
              /\ IsPrefix(first, whole)
              /\ ItemsOf(h, size, 13) = first
        BY <2>1, <3>4, CutItems
      <4> QED BY <3>3, <4>1 DEF IsRead, Kept
    <3>10. IsPrefix(Without(a.alpn, {TornName}), b.alpn)
      <4>1. PICK first, whole :
              /\ whole = ItemsOf(h, HelloLen(h), 16) /\ whole \in Seq(ToSet(whole))
              /\ first \in Seq(ToSet(whole)) /\ IsPrefix(first, whole)
              /\ TornName \notin ToSet(whole)
              /\ \/ ItemsOf(h, size, 16) = first
                 \/ ItemsOf(h, size, 16) = Append(first, TornName)
        BY <2>1, <3>4, CutItems
      <4>2. a.alpn = ItemsOf(h, size, 16) /\ b.alpn = whole
        BY <3>3, <4>1 DEF IsRead, Kept
      <4>3. Without(first, {TornName}) = first /\ Without(Append(first, TornName), {TornName}) = first
        BY <4>1, TornIsLast
      <4>4. Without(a.alpn, {TornName}) = first
        BY <4>1, <4>2, <4>3
      <4> QED BY <4>1, <4>2, <4>4
    <3> QED BY <3>2, <3>5, <3>6, <3>7, <3>8, <3>9, <3>10
  <2> QED BY <2>3 DEF CutLosesOnlyTheTail
<1> QED BY <1>1, InputsAreSound, PTL

-----------------------------------------------------------------------------
(* The order of a request's headers                                        *)

Lowers == {name.lower : name \in HeaderNames}
IsNoted(f, s, N) == f[0] = <<>> /\ \A n \in 1 .. N : f[n] = Noted(f[n - 1], s[n])

LEMMA NotedType ==
  ASSUME NEW seen \in Seq(Lowers), NEW field \in Fields
  PROVE  Noted(seen, field) \in Seq(Lowers)
  BY DEF Noted, Fields, Lowers

LEMMA NotedLoop ==
  ASSUME NEW s \in Seq(Fields), NEW N \in Nat
  PROVE  N = Len(s) => \E f : /\ HeaderOrder(s) = f[N] /\ IsNoted(f, s, N)
                              /\ f[N] \in Seq(Lowers)
<1> DEFINE Eq(f) == f = [n \in 0 .. N |-> IF n = 0 THEN <<>> ELSE Noted(f[n - 1], s[n])]
           State == CHOOSE f : Eq(f)
           g == [p \in Seq(Lowers) \X Fields |-> Noted(p[1], p[2])]
<1> SUFFICES ASSUME N = Len(s)
             PROVE  \E f : HeaderOrder(s) = f[N] /\ IsNoted(f, s, N) /\ f[N] \in Seq(Lowers)
  OBVIOUS
<1>1. \A n \in 1 .. N : s[n] \in Fields
  OBVIOUS
<1>2. HeaderOrder(s) = State[N]
  BY DEF HeaderOrder, Loop
<1>3. g \in [Seq(Lowers) \X Fields -> Seq(Lowers)]
  BY NotedType
<1>4. \E f \in [0 .. N -> Seq(Lowers)] : LoopOf(f, g, <<>>, s, N)
  <2>1. PICK D : D = Seq(Lowers)
    OBVIOUS
  <2>2. PICK e \in D : e = <<>>
    BY <2>1, EmptySeq
  <2>3. PICK T : T = Fields
    OBVIOUS
  <2> HIDE DEF g
  <2>4. g \in [D \X T -> D] /\ \A n \in 1 .. N : s[n] \in T
    BY <1>1, <1>3, <2>1, <2>3
  <2>5. \E f \in [0 .. N -> D] : LoopOf(f, g, e, s, N)
    BY <2>4, LoopExists, ZenonT(30)
  <2> QED BY <2>1, <2>2, <2>5
<1>5. PICK f \in [0 .. N -> Seq(Lowers)] : LoopOf(f, g, <<>>, s, N)
  BY <1>4
<1>6. Eq(f)
  <2>1. ASSUME NEW n \in 1 .. N PROVE g[<<f[n - 1], s[n]>>] = Noted(f[n - 1], s[n])
    <3>1. f[n - 1] \in Seq(Lowers) /\ s[n] \in Fields
      BY <1>1
    <3> QED BY <3>1
  <2>2. ASSUME NEW n \in 0 .. N
        PROVE  (IF n = 0 THEN <<>> ELSE g[<<f[n - 1], s[n]>>])
                  = IF n = 0 THEN <<>> ELSE Noted(f[n - 1], s[n])
    <3>1. n = 0 \/ n \in 1 .. N
      OBVIOUS
    <3> HIDE DEF g
    <3> QED BY <2>1, <3>1
  <2> HIDE DEF g
  <2> QED BY <1>5, <2>2 DEF LoopOf
<1>7. Eq(State)
  <2> HIDE DEF Eq
  <2> QED BY <1>6
<1>8. State = f
  <2>1. ASSUME NEW h, Eq(h) PROVE h = f
    <3> DEFINE P == {n \in 0 .. N : h[n] = f[n]}
    <3>1. 0 \in P
      BY <1>6, <2>1
    <3>2. ASSUME NEW n \in 1 .. N, n - 1 \in P PROVE n \in P
      <4>1. n \in 0 .. N /\ n # 0
        OBVIOUS
      <4>2. h[n] = Noted(h[n - 1], s[n]) /\ f[n] = Noted(f[n - 1], s[n])
        BY <1>6, <2>1, <4>1
      <4> QED BY <3>2, <4>2
    <3>3. 0 .. N \subseteq P
      <4> HIDE DEF P
      <4> QED BY <3>1, <3>2, UpTo
    <3> QED BY <2>1, <3>3
  <2> HIDE DEF Eq, State
  <2> QED BY <1>7, <2>1
<1> HIDE DEF State
<1>9. IsNoted(State, s, N)
  <2>1. State[0] = <<>>
    BY <1>7
  <2>2. ASSUME NEW n \in 1 .. N PROVE State[n] = Noted(State[n - 1], s[n])
    <3>1. n \in 0 .. N /\ n # 0
      OBVIOUS
    <3> QED BY <1>7, <3>1
  <2> QED BY <2>1, <2>2 DEF IsNoted
<1>10. State[N] \in Seq(Lowers)
  BY <1>8
<1> QED BY <1>2, <1>9, <1>10

LEMMA OrderAppend ==
  ASSUME NEW s \in Seq(Fields), NEW x \in Fields
  PROVE  HeaderOrder(Append(s, x)) = Noted(HeaderOrder(s), x) /\ HeaderOrder(s) \in Seq(Lowers)
<1>1. PICK N \in Nat : N = Len(s)
  BY LenProperties
<1>2. PICK t \in Seq(Fields) : t = Append(s, x)
  BY AppendProperties
<1>3. Len(t) = N + 1 /\ t[N + 1] = x /\ \A n \in 1 .. N : t[n] = s[n]
  BY <1>1, <1>2, AppendProperties
<1>4. PICK f : HeaderOrder(s) = f[N] /\ IsNoted(f, s, N) /\ f[N] \in Seq(Lowers)
  BY <1>1, NotedLoop
<1>5. PICK h : HeaderOrder(t) = h[N + 1] /\ IsNoted(h, t, N + 1)
  BY <1>3, NotedLoop
<1> DEFINE P == {n \in 0 .. N : f[n] = h[n]}
<1>6. 0 \in P
  BY <1>4, <1>5 DEF IsNoted
<1>7. ASSUME NEW n \in 1 .. N, n - 1 \in P PROVE n \in P
  <2>1. h[n] = Noted(h[n - 1], t[n]) /\ f[n] = Noted(f[n - 1], s[n])
    BY <1>4, <1>5 DEF IsNoted
  <2> QED BY <1>3, <1>7, <2>1
<1>8. 0 .. N \subseteq P
  <2> HIDE DEF P
  <2> QED BY <1>6, <1>7, UpTo
<1>9. f[N] = h[N]
  BY <1>8
<1>10. h[N + 1] = Noted(h[N], x)
  BY <1>3, <1>5 DEF IsNoted
<1> QED BY <1>2, <1>4, <1>5, <1>9, <1>10

LEMMA OrderEmpty == HeaderOrder(<<>>) = <<>>
<1>1. PICK s \in Seq(Fields) : s = <<>> /\ Len(s) = 0
  BY EmptySeq
<1>2. PICK f : HeaderOrder(s) = f[0] /\ IsNoted(f, s, 0)
  <2>1. 0 \in Nat
    OBVIOUS
  <2> QED BY <1>1, <2>1, NotedLoop
<1> QED BY <1>1, <1>2 DEF IsNoted

\* The fields that go end to end, and whether one name comes before another among
\* them.
EndToEnd == {f \in Fields : f.name.lower \notin HopByHop}
Before(e, x, y) ==
    \E p \in DOMAIN e : e[p].name.lower = x /\ \A q \in DOMAIN e : e[q].name.lower = y => p < q

Fits(o, e) ==
    /\ o \in Seq(Lowers) /\ e \in Seq(Fields)
    /\ ToSet(o) = {e[i].name.lower : i \in DOMAIN e}
    /\ \A i, j \in DOMAIN o : i < j => Before(e, o[i], o[j])

LEMMA NotedFits ==
  ASSUME NEW o, NEW e, Fits(o, e), NEW x \in Fields, NEW p, NEW d,
         p = Noted(o, x), d = IF x \in EndToEnd THEN Append(e, x) ELSE e
  PROVE  Fits(p, d)
<1>1. CASE x \notin EndToEnd
  <2>1. p = o /\ d = e
    BY <1>1 DEF Noted, EndToEnd
  <2> QED BY <2>1
<1>2. CASE x \in EndToEnd
  <2>1. PICK M \in Nat : M = Len(e) /\ DOMAIN e = 1 .. M /\ e \in Seq(Fields)
    BY LenProperties DEF Fits
  <2>2. /\ d \in Seq(Fields) /\ DOMAIN d = 1 .. M + 1 /\ d[M + 1] = x
        /\ \A q \in 1 .. M : d[q] = e[q]
    BY <1>2, <2>1, AppendProperties
  <2>3. PICK low : low = x.name.lower
    OBVIOUS
  <2>4. {d[q].name.lower : q \in DOMAIN d} = {e[q].name.lower : q \in DOMAIN e} \cup {low}
    BY <2>1, <2>2, <2>3
  <2>5. \A a, b : Before(e, a, b) => Before(d, a, b)
    <3> SUFFICES ASSUME NEW a, NEW b, Before(e, a, b) PROVE Before(d, a, b)
      OBVIOUS
    <3>1. PICK k \in 1 .. M :
            e[k].name.lower = a /\ \A q \in 1 .. M : e[q].name.lower = b => k < q
      BY <2>1 DEF Before
    <3>2. d[k].name.lower = a /\ \A q \in 1 .. M + 1 : d[q].name.lower = b => k < q
      BY <2>2, <3>1
    <3>3. k \in DOMAIN d
      BY <2>2
    <3> QED BY <2>2, <3>2, <3>3 DEF Before
  <2>6. CASE low \in ToSet(o)
    <3>1. p = o
      BY <2>3, <2>6 DEF Noted
    <3> QED BY <2>2, <2>4, <2>5, <2>6, <3>1 DEF Fits
  <2>7. CASE low \notin ToSet(o)
    <3>1. PICK N \in Nat : N = Len(o) /\ DOMAIN o = 1 .. N /\ o \in Seq(Lowers)
      BY LenProperties DEF Fits
    <3>2. low \in Lowers
      BY <2>3 DEF Lowers, Fields
    <3>3. p = Append(o, low)
      BY <1>2, <2>3, <2>7 DEF Noted, EndToEnd
    <3>4. /\ p \in Seq(Lowers) /\ DOMAIN p = 1 .. N + 1 /\ p[N + 1] = low
          /\ \A q \in 1 .. N : p[q] = o[q]
      BY <3>1, <3>2, <3>3, AppendProperties
    <3>5. ToSet(p) = ToSet(o) \cup {low}
      BY <3>1, <3>2, <3>3, ToSetAppend
    <3>6. ASSUME NEW i \in 1 .. N + 1, NEW j \in 1 .. N + 1, i < j
          PROVE  Before(d, p[i], p[j])
      <4>1. CASE j # N + 1
        <5>1. i \in 1 .. N /\ j \in 1 .. N
          BY <3>6, <4>1
        <5>2. Before(e, o[i], o[j])
          BY <3>1, <3>6, <5>1 DEF Fits
        <5> QED BY <2>5, <3>4, <5>1, <5>2
      <4>2. CASE j = N + 1
        <5>1. i \in 1 .. N /\ p[i] = o[i] /\ p[j] = low
          BY <3>4, <3>6, <4>2
        <5>2. o[i] \in ToSet(o)
          BY <3>1, <5>1 DEF ToSet
        <5>3. PICK k \in 1 .. M : e[k].name.lower = o[i]
          BY <2>1, <5>2 DEF Fits
        <5>4. ASSUME NEW q \in 1 .. M + 1, d[q].name.lower = low PROVE k < q
          <6>1. CASE q \in 1 .. M
            <7>1. e[q].name.lower = low
              BY <2>2, <5>4, <6>1
            <7>2. low \in ToSet(o)
              BY <2>1, <6>1, <7>1 DEF Fits
            <7> QED BY <2>7, <7>2
          <6>2. CASE q = M + 1
            BY <6>2
          <6> QED BY <6>1, <6>2
        <5>5. k \in DOMAIN d /\ d[k].name.lower = o[i]
          BY <2>2, <5>3
        <5> QED BY <2>2, <5>1, <5>4, <5>5 DEF Before
      <4> QED BY <4>1, <4>2
    <3> QED BY <2>2, <2>4, <3>4, <3>5, <3>6 DEF Fits
  <2> QED BY <2>6, <2>7
<1> QED BY <1>1, <1>2

LEMMA OrderFits ==
  ASSUME NEW s \in Seq(Fields)
  PROVE  Fits(HeaderOrder(s), Only(s, EndToEnd))
<1> DEFINE P == {r \in Seq(Fields) : Fits(HeaderOrder(r), Only(r, EndToEnd))}
<1>1. <<>> \in P
  <2>1. PICK o : o = <<>>
    OBVIOUS
  <2>2. Fits(o, o)
    BY <2>1, EmptySeq DEF Fits, ToSet
  <2> QED BY <2>1, <2>2, OrderEmpty, OnlyEmpty, EmptySeq
<1>2. ASSUME NEW r \in Seq(Fields), NEW x \in Fields, r \in P PROVE Append(r, x) \in P
  <2>1. PICK o, e : o = HeaderOrder(r) /\ e = Only(r, EndToEnd) /\ Fits(o, e)
    BY <1>2
  <2>2. PICK p, d : p = HeaderOrder(Append(r, x)) /\ d = Only(Append(r, x), EndToEnd)
    OBVIOUS
  <2>3. p = Noted(o, x)
    BY <2>1, <2>2, OrderAppend
  <2>4. d = IF x \in EndToEnd THEN Append(e, x) ELSE e
    BY <2>1, <2>2, OnlyAppend
  <2>5. Fits(p, d)
    BY <2>1, <2>3, <2>4, NotedFits
  <2>6. Append(r, x) \in Seq(Fields)
    OBVIOUS
  <2> QED BY <2>2, <2>5, <2>6
<1>3. Seq(Fields) \subseteq P
  <2> HIDE DEF P
  <2> QED BY <1>1, <1>2, ListInduction
<1> QED BY <1>3

-----------------------------------------------------------------------------
(* A request's headers                                                     *)

Sent == Nat \cup {Crumbs, Comma}
Outs == UNION {[names -> Seq(Sent)] : names \in SUBSET HeaderNames}
Request(s) == Loop(Put, <<>>, s)
IsPut(f, s, N) == f[0] = <<>> /\ \A n \in 1 .. N : f[n] = Put(f[n - 1], s[n])

\* The value a name gets from one more field.
NewValue(out, field) ==
    IF {field.name, Lower(field.name)} \cap DOMAIN out = {} THEN <<field.value>>
    ELSE Existing(out, field.name) \o <<Joiner(field.name), field.value>>

LEMMA PutIs ==
  ASSUME NEW out, NEW field
  PROVE  /\ DOMAIN Put(out, field) = DOMAIN out \cup {field.name}
         /\ Put(out, field)[field.name] = NewValue(out, field)
         /\ \A n \in DOMAIN out \ {field.name} : Put(out, field)[n] = out[n]
  BY DEF Put, NewValue

LEMMA PutType ==
  ASSUME NEW out \in Outs, NEW field \in Fields
  PROVE  Put(out, field) \in Outs
<1>1. PICK names \in SUBSET HeaderNames : out \in [names -> Seq(Sent)]
  BY DEF Outs
<1>2. PICK name \in HeaderNames, v \in Nat : name = field.name /\ v = field.value
  BY DEF Fields
<1>3. Existing(out, name) \in Seq(Sent)
  BY <1>1 DEF Existing, Got
<1>4. PICK old \in Seq(Sent) : old = Existing(out, name)
  BY <1>3
<1>5. PICK j \in Sent : j = Joiner(name)
  BY DEF Joiner, Sent
<1>6. v \in Sent
  BY DEF Sent
<1>7. <<v>> \in Seq(Sent) /\ <<j, v>> \in Seq(Sent)
  BY <1>6
<1>8. old \o <<j, v>> \in Seq(Sent)
  BY <1>7, ConcatProperties
<1>9. NewValue(out, field) \in Seq(Sent)
  BY <1>2, <1>4, <1>5, <1>7, <1>8 DEF NewValue
<1>10. Put(out, field) \in [names \cup {name} -> Seq(Sent)]
  <2>1. Put(out, field) = [n \in names \cup {name} |-> IF n = name THEN NewValue(out, field) ELSE out[n]]
    BY <1>1, <1>2 DEF Put, NewValue
  <2>2. PICK w \in Seq(Sent) : w = NewValue(out, field)
    BY <1>9
  <2> QED BY <1>1, <2>1, <2>2
<1> QED BY <1>10 DEF Outs

LEMMA PutLoop ==
  ASSUME NEW s \in Seq(Fields), NEW N \in Nat
  PROVE  N = Len(s) => \E f : Request(s) = f[N] /\ IsPut(f, s, N) /\ f[N] \in Outs
<1> DEFINE Eq(f) == f = [n \in 0 .. N |-> IF n = 0 THEN <<>> ELSE Put(f[n - 1], s[n])]
           State == CHOOSE f : Eq(f)
           g == [p \in Outs \X Fields |-> Put(p[1], p[2])]
<1> SUFFICES ASSUME N = Len(s)
             PROVE  \E f : Request(s) = f[N] /\ IsPut(f, s, N) /\ f[N] \in Outs
  OBVIOUS
<1>1. \A n \in 1 .. N : s[n] \in Fields
  OBVIOUS
<1>2. Request(s) = State[N]
  BY DEF Request, Loop
<1>3. g \in [Outs \X Fields -> Outs]
  BY PutType
<1>4. \E f \in [0 .. N -> Outs] : LoopOf(f, g, <<>>, s, N)
  <2>1. <<>> \in [{} -> Seq(Sent)]
    BY EmptySeq
  <2>2. PICK e \in Outs : e = <<>>
    BY <2>1 DEF Outs
  <2>3. PICK T : T = Fields
    OBVIOUS
  <2> HIDE DEF g
  <2>4. g \in [Outs \X T -> Outs] /\ \A n \in 1 .. N : s[n] \in T
    BY <1>1, <1>3, <2>3
  <2>5. \E f \in [0 .. N -> Outs] : LoopOf(f, g, e, s, N)
    BY <2>4, LoopExists, ZenonT(30)
  <2> QED BY <2>2, <2>5
<1>5. PICK f \in [0 .. N -> Outs] : LoopOf(f, g, <<>>, s, N)
  BY <1>4
<1>6. Eq(f)
  <2>1. ASSUME NEW n \in 1 .. N PROVE g[<<f[n - 1], s[n]>>] = Put(f[n - 1], s[n])
    <3>1. f[n - 1] \in Outs /\ s[n] \in Fields
      BY <1>1
    <3> QED BY <3>1
  <2>2. ASSUME NEW n \in 0 .. N
        PROVE  (IF n = 0 THEN <<>> ELSE g[<<f[n - 1], s[n]>>])
                  = IF n = 0 THEN <<>> ELSE Put(f[n - 1], s[n])
    <3>1. n = 0 \/ n \in 1 .. N
      OBVIOUS
    <3> HIDE DEF g
    <3> QED BY <2>1, <3>1
  <2> HIDE DEF g
  <2> QED BY <1>5, <2>2 DEF LoopOf
<1>7. Eq(State)
  <2> HIDE DEF Eq
  <2> QED BY <1>6
<1>8. State = f
  <2>1. ASSUME NEW h, Eq(h) PROVE h = f
    <3> DEFINE P == {n \in 0 .. N : h[n] = f[n]}
    <3>1. 0 \in P
      BY <1>6, <2>1
    <3>2. ASSUME NEW n \in 1 .. N, n - 1 \in P PROVE n \in P
      <4>1. n \in 0 .. N /\ n # 0
        OBVIOUS
      <4>2. h[n] = Put(h[n - 1], s[n]) /\ f[n] = Put(f[n - 1], s[n])
        BY <1>6, <2>1, <4>1
      <4> QED BY <3>2, <4>2
    <3>3. 0 .. N \subseteq P
      <4> HIDE DEF P
      <4> QED BY <3>1, <3>2, UpTo
    <3> QED BY <2>1, <3>3
  <2> HIDE DEF Eq, State
  <2> QED BY <1>7, <2>1
<1> HIDE DEF State
<1>9. IsPut(State, s, N)
  <2>1. State[0] = <<>>
    BY <1>7
  <2>2. ASSUME NEW n \in 1 .. N PROVE State[n] = Put(State[n - 1], s[n])
    <3>1. n \in 0 .. N /\ n # 0
      OBVIOUS
    <3> QED BY <1>7, <3>1
  <2> QED BY <2>1, <2>2 DEF IsPut
<1>10. State[N] \in Outs
  BY <1>8
<1> QED BY <1>2, <1>9, <1>10

LEMMA RequestAppend ==
  ASSUME NEW s \in Seq(Fields), NEW x \in Fields
  PROVE  Request(Append(s, x)) = Put(Request(s), x) /\ Request(s) \in Outs
<1>1. PICK N \in Nat : N = Len(s)
  BY LenProperties
<1>2. PICK t \in Seq(Fields) : t = Append(s, x)
  BY AppendProperties
<1>3. Len(t) = N + 1 /\ t[N + 1] = x /\ \A n \in 1 .. N : t[n] = s[n]
  BY <1>1, <1>2, AppendProperties
<1>4. PICK f : Request(s) = f[N] /\ IsPut(f, s, N) /\ f[N] \in Outs
  BY <1>1, PutLoop
<1>5. PICK h : Request(t) = h[N + 1] /\ IsPut(h, t, N + 1)
  BY <1>3, PutLoop
<1> DEFINE P == {n \in 0 .. N : f[n] = h[n]}
<1>6. 0 \in P
  BY <1>4, <1>5 DEF IsPut
<1>7. ASSUME NEW n \in 1 .. N, n - 1 \in P PROVE n \in P
  <2>1. h[n] = Put(h[n - 1], t[n]) /\ f[n] = Put(f[n - 1], s[n])
    BY <1>4, <1>5 DEF IsPut
  <2> QED BY <1>3, <1>7, <2>1
<1>8. 0 .. N \subseteq P
  <2> HIDE DEF P
  <2> QED BY <1>6, <1>7, UpTo
<1>9. f[N] = h[N]
  BY <1>8
<1>10. h[N + 1] = Put(h[N], x)
  BY <1>3, <1>5 DEF IsPut
<1> QED BY <1>2, <1>4, <1>5, <1>9, <1>10

LEMMA RequestEmpty == Request(<<>>) = <<>>
<1>1. PICK s \in Seq(Fields) : s = <<>> /\ Len(s) = 0
  BY EmptySeq
<1>2. PICK f : Request(s) = f[0] /\ IsPut(f, s, 0)
  <2>1. 0 \in Nat
    OBVIOUS
  <2> QED BY <1>1, <2>1, PutLoop
<1> QED BY <1>1, <1>2 DEF IsPut

\* A name is there if a field of the list has it.
LEMMA RequestNames ==
  ASSUME NEW s \in Seq(Fields)
  PROVE  DOMAIN Request(s) = {f.name : f \in ToSet(s)}
<1> DEFINE P == {r \in Seq(Fields) : DOMAIN Request(r) = {f.name : f \in ToSet(r)}}
<1>1. <<>> \in P
  <2>1. PICK e \in Seq(Fields) : e = <<>> /\ DOMAIN e = {} /\ ToSet(e) = {}
    <3>1. <<>> \in Seq(Fields) /\ DOMAIN <<>> = {}
      BY EmptySeq
    <3> QED BY <3>1, ToSetEmpty
  <2>2. Request(e) = e
    BY <2>1, RequestEmpty
  <2>3. e \in P
    BY <2>1, <2>2
  <2> QED BY <2>1, <2>3
<1>2. ASSUME NEW r \in Seq(Fields), NEW x \in Fields, r \in P PROVE Append(r, x) \in P
  <2>1. DOMAIN Request(Append(r, x)) = DOMAIN Request(r) \cup {x.name}
    BY RequestAppend, PutIs
  <2>2. ToSet(Append(r, x)) = ToSet(r) \cup {x}
    BY ToSetAppend
  <2>3. Append(r, x) \in Seq(Fields)
    OBVIOUS
  <2>4. PICK t, names : t = Append(r, x) /\ names = DOMAIN Request(t)
    OBVIOUS
  <2>5. names = {f.name : f \in ToSet(t)}
    BY <1>2, <2>1, <2>2, <2>4
  <2> QED BY <2>3, <2>4, <2>5
<1>3. Seq(Fields) \subseteq P
  <2> HIDE DEF P
  <2> QED BY <1>1, <1>2, ListInduction
<1> QED BY <1>3

\* What goes to httpcloak in a mode is what is forwarded of the fields in it.
Mode(mode) == {f \in Fields : Forwarded(f, mode)}

LEMMA RequestIs ==
  ASSUME NEW s \in Seq(Fields), NEW mode
  PROVE  RequestHeaders(s, mode) = Request(Only(s, Mode(mode)))
<1>1. PICK sent : sent = {f \in ToSet(s) : Forwarded(f, mode)}
  OBVIOUS
<1>2. \A i \in 1 .. Len(s) : s[i] \in sent <=> s[i] \in Mode(mode)
  <2>1. \A i \in 1 .. Len(s) : s[i] \in Fields /\ s[i] \in ToSet(s)
    BY DEF ToSet
  <2> QED BY <1>1, <2>1 DEF Mode
<1>3. Only(s, sent) = Only(s, Mode(mode))
  BY <1>2, OnlySame
<1> QED BY <1>1, <1>3 DEF RequestHeaders, Request

LEMMA ExactIs == ASSUME NEW s \in Seq(Fields) PROVE ExactHeaders(s) = Only(s, EndToEnd)
<1>1. PICK sent : sent = {f \in ToSet(s) : f.name.lower \notin HopByHop}
  OBVIOUS
<1>2. \A i \in 1 .. Len(s) : s[i] \in sent <=> s[i] \in EndToEnd
  <2>1. \A i \in 1 .. Len(s) : s[i] \in Fields /\ s[i] \in ToSet(s)
    BY DEF ToSet
  <2> QED BY <1>1, <2>1 DEF EndToEnd
<1>3. Only(s, sent) = Only(s, EndToEnd)
  BY <1>2, OnlySame
<1> QED BY <1>1, <1>3 DEF ExactHeaders

\* The first place of a name that a list has is where it is had first.
FirstAt(e, n) ==
    CHOOSE i \in DOMAIN e : e[i].name.lower = n /\ \A j \in 1 .. i - 1 : e[j].name.lower # n

LEMMA FirstIs ==
  ASSUME NEW e \in Seq(Fields), NEW n, NEW p \in DOMAIN e, e[p].name.lower = n
  PROVE  FirstAt(e, n) \in 1 .. p /\ e[FirstAt(e, n)].name.lower = n
<1>1. PICK N \in Nat : N = Len(e) /\ DOMAIN e = 1 .. N
  BY LenProperties
<1>2. PICK places : places = {i \in 1 .. N : e[i].name.lower = n}
  OBVIOUS
<1>3. PICK m \in places : \A k \in places : m <= k
  <2>1. places \subseteq Nat /\ places # {}
    BY <1>1, <1>2
  <2> QED BY <2>1, LeastExists
<1>4. m \in DOMAIN e /\ e[m].name.lower = n /\ \A j \in 1 .. m - 1 : e[j].name.lower # n
  <2>1. m \in 1 .. N /\ e[m].name.lower = n
    BY <1>2
  <2>2. ASSUME NEW j \in 1 .. m - 1, e[j].name.lower = n PROVE FALSE
    <3>1. j \in places
      BY <1>2, <2>1, <2>2
    <3> QED BY <1>3, <2>1, <3>1
  <2> QED BY <1>1, <2>1, <2>2
<1>5. PICK first : first = FirstAt(e, n)
  OBVIOUS
<1>6. first \in DOMAIN e /\ e[first].name.lower = n /\ \A j \in 1 .. first - 1 : e[j].name.lower # n
  BY <1>4, <1>5 DEF FirstAt
<1>7. first <= p
  <2>1. first \in 1 .. N /\ p \in 1 .. N
    BY <1>1, <1>6
  <2>2. ~ (p < first)
    BY <1>6, <2>1
  <2> QED BY <2>1, <2>2
<1> QED BY <1>1, <1>5, <1>6, <1>7

\* header_order and the headers it orders agree, in exact mode and in merge mode
\* (header_order, exact_headers, request_headers).
THEOREM OrderIsOfHeaders == ConversionSpec => []OrderFitsHeaders
<1>1. ASSUME Inputs PROVE OrderFitsHeaders
  <2>1. PICK s \in Seq(Fields) : s = fields
    BY <1>1 DEF Inputs
  <2>2. PICK order : order = HeaderOrder(s)
    OBVIOUS
  <2>3. PICK exact \in Seq(Fields) : exact = Only(s, EndToEnd)
    BY OnlyInList
  <2>4. Fits(order, exact)
    BY <2>2, <2>3, OrderFits
  <2>5. HeaderKwargs(fields, "merge", "mirror").header_order = order
    BY <2>1, <2>2 DEF HeaderKwargs
  <2>6. HeaderKwargs(fields, "exact", "mirror").exact_headers = exact
    BY <2>1, <2>3, ExactIs DEF HeaderKwargs
  <2>7. ToSet(order) = {exact[i].name.lower : i \in DOMAIN exact}
    BY <2>4 DEF Fits
  <2>8. {n.lower : n \in DOMAIN RequestHeaders(fields, "merge")}
           = {exact[i].name.lower : i \in DOMAIN exact}
    <3>1. Mode("merge") = EndToEnd
      BY DEF Mode, Forwarded, EndToEnd
    <3>2. RequestHeaders(fields, "merge") = Request(exact)
      BY <2>1, <2>3, <3>1, RequestIs
    <3>3. DOMAIN Request(exact) = {f.name : f \in ToSet(exact)}
      BY RequestNames
    <3>4. DOMAIN RequestHeaders(fields, "merge") = {exact[i].name : i \in DOMAIN exact}
      BY <3>2, <3>3 DEF ToSet
    <3>5. PICK names : names = DOMAIN RequestHeaders(fields, "merge")
      OBVIOUS
    <3> QED BY <3>4, <3>5
  <2>9. ASSUME NEW i \in DOMAIN order, NEW j \in DOMAIN order, i < j
        PROVE  FirstAt(exact, order[i]) < FirstAt(exact, order[j])
    <3>1. PICK p \in DOMAIN exact :
            /\ exact[p].name.lower = order[i]
            /\ \A q \in DOMAIN exact : exact[q].name.lower = order[j] => p < q
      BY <2>4, <2>9 DEF Fits, Before
    <3>2. order[j] \in ToSet(order)
      BY <2>9 DEF ToSet
    <3>3. PICK q \in DOMAIN exact : exact[q].name.lower = order[j]
      BY <2>7, <3>2
    <3>4. FirstAt(exact, order[i]) \in 1 .. p
      BY <3>1, FirstIs
    <3>5. FirstAt(exact, order[j]) \in 1 .. q /\ exact[FirstAt(exact, order[j])].name.lower = order[j]
      BY <3>3, FirstIs
    <3>6. PICK N \in Nat : DOMAIN exact = 1 .. N
      BY LenProperties
    <3>7. PICK a, b : a = FirstAt(exact, order[i]) /\ b = FirstAt(exact, order[j])
      OBVIOUS
    <3>8. b \in DOMAIN exact /\ a \in 1 .. p /\ exact[b].name.lower = order[j]
      BY <3>4, <3>5, <3>6, <3>7
    <3>9. a < b
      BY <3>1, <3>6, <3>8
    <3> QED BY <3>7, <3>9
  <2> DEFINE o == HeaderKwargs(fields, "merge", "mirror").header_order
             e == HeaderKwargs(fields, "exact", "mirror").exact_headers
  <2>10. /\ ToSet(o) = {e[i].name.lower : i \in DOMAIN e}
         /\ ToSet(o) = {n.lower : n \in DOMAIN RequestHeaders(fields, "merge")}
         /\ \A i, j \in DOMAIN o : i < j => FirstAt(e, o[i]) < FirstAt(e, o[j])
    <3>1. o = order /\ e = exact
      BY <2>5, <2>6
    <3> HIDE DEF o, e
    <3> QED BY <2>7, <2>8, <2>9, <3>1
  <2> QED BY <2>10 DEF OrderFitsHeaders, FirstAt
<1> QED BY <1>1, InputsAreSound, PTL

-----------------------------------------------------------------------------
(* Repeated headers of a request                                           *)

\* No value of a list is lost, and none is under another name.
Lossless(out, s) ==
    /\ \A f \in ToSet(s) : \E n \in DOMAIN out : f.value \in ToSet(out[n])
    /\ \A n \in DOMAIN out : \A v \in ToSet(out[n]) :
          v \in {Crumbs, Comma} \/ \E f \in ToSet(s) : f.value = v /\ f.name.lower = n.lower

LEMMA LowerIs ==
  ASSUME NEW name \in HeaderNames
  PROVE  Lower(name).lower = name.lower
  BY ConversionInputs DEF Lower

LEMMA ToSetConcat ==
  ASSUME NEW T, NEW s \in Seq(T), NEW t \in Seq(T)
  PROVE  ToSet(s \o t) = ToSet(s) \cup ToSet(t)
<1> DEFINE P == {r \in Seq(T) : ToSet(s \o r) = ToSet(s) \cup ToSet(r)}
<1>1. <<>> \in P
  <2>1. PICK e \in Seq(T) : e = <<>> /\ s \o e = s /\ ToSet(e) = {}
    BY ConcatEmptySeq, ToSetEmpty, EmptySeq
  <2>2. e \in P
    BY <2>1
  <2> QED BY <2>1, <2>2
<1>2. ASSUME NEW r \in Seq(T), NEW x \in T, r \in P PROVE Append(r, x) \in P
  <2>1. PICK c \in Seq(T) : c = s \o r /\ s \o Append(r, x) = Append(c, x)
    <3>1. s \o Append(r, x) = Append(s \o r, x)
      OBVIOUS
    <3> QED BY <3>1, ConcatProperties
  <2>2. ToSet(Append(c, x)) = ToSet(c) \cup {x} /\ ToSet(Append(r, x)) = ToSet(r) \cup {x}
    BY ToSetAppend
  <2>3. ToSet(c) = ToSet(s) \cup ToSet(r)
    BY <1>2, <2>1
  <2>4. PICK u \in Seq(T) : u = Append(r, x)
    BY AppendProperties
  <2>5. ToSet(s \o u) = ToSet(c) \cup {x}
    BY <2>1, <2>2, <2>4
  <2>6. ToSet(s \o u) = ToSet(s) \cup ToSet(u)
    BY <2>2, <2>3, <2>4, <2>5
  <2> QED BY <2>4, <2>6
<1>3. Seq(T) \subseteq P
  <2> HIDE DEF P
  <2> QED BY <1>1, <1>2, ListInduction
<1> QED BY <1>3

LEMMA PutLossless ==
  ASSUME NEW out \in Outs, NEW s \in Seq(Fields), Lossless(out, s), NEW x \in Fields,
         NEW p, NEW t, p = Put(out, x), ToSet(t) = ToSet(s) \cup {x}
  PROVE  Lossless(p, t)
<1>1. PICK names \in SUBSET HeaderNames : out \in [names -> Seq(Sent)]
  BY DEF Outs
<1>2. PICK name \in HeaderNames, v \in Nat : name = x.name /\ v = x.value
  BY DEF Fields
<1>3. PICK new : new = NewValue(out, x)
  OBVIOUS
<1>4. /\ DOMAIN p = names \cup {name} /\ p[name] = new
      /\ \A n \in names \ {name} : p[n] = out[n]
  <2>1. DOMAIN out = names
    BY <1>1
  <2>2. /\ DOMAIN p = DOMAIN out \cup {x.name} /\ p[x.name] = NewValue(out, x)
        /\ \A n \in DOMAIN out \ {x.name} : p[n] = out[n]
    BY PutIs
  <2> QED BY <1>2, <1>3, <2>1, <2>2
<1>5. PICK low : low = Lower(name) /\ low.lower = name.lower
  BY LowerIs
<1>6. PICK j : j = Joiner(name) /\ j \in {Crumbs, Comma}
  BY DEF Joiner
<1>7. CASE name \in names
  <2>1. PICK old \in Seq(Sent) : old = out[name]
    BY <1>1, <1>7
  <2>2. new = old \o <<j, v>>
    BY <1>1, <1>2, <1>3, <1>5, <1>6, <1>7, <2>1 DEF NewValue, Existing, Got
  <2>3. <<j, v>> \in Seq(Sent) /\ ToSet(<<j, v>>) = {j, v}
    BY <1>6 DEF Sent, ToSet
  <2>4. ToSet(new) = ToSet(old) \cup {j, v}
    <3>1. PICK pair \in Seq(Sent) : pair = <<j, v>>
      BY <2>3
    <3>2. ToSet(old \o pair) = ToSet(old) \cup ToSet(pair)
      BY ToSetConcat
    <3> QED BY <2>2, <2>3, <3>1, <3>2
  <2>5. \A f \in ToSet(t) : \E n \in DOMAIN p : f.value \in ToSet(p[n])
    <3>1. ASSUME NEW f \in ToSet(s) PROVE \E n \in DOMAIN p : f.value \in ToSet(p[n])
      <4>1. PICK n \in names : f.value \in ToSet(out[n])
        BY <1>1 DEF Lossless
      <4>2. f.value \in ToSet(p[n])
        BY <1>4, <2>1, <2>4, <4>1
      <4> QED BY <1>4, <4>1, <4>2
    <3>2. x.value \in ToSet(p[name])
      BY <1>2, <1>4, <2>4
    <3> QED BY <1>4, <3>1, <3>2
  <2>6. ASSUME NEW n \in DOMAIN p, NEW w \in ToSet(p[n])
        PROVE  w \in {Crumbs, Comma} \/ \E f \in ToSet(t) : f.value = w /\ f.name.lower = n.lower
    <3>1. CASE w \in ToSet(out[n])
      <4>1. n \in names
        BY <1>4, <1>7
      <4> QED BY <1>1, <3>1, <4>1 DEF Lossless
    <3>2. CASE n = name /\ w \in {j, v}
      BY <1>2, <1>6, <3>2
    <3> QED BY <1>4, <2>1, <2>4, <3>1, <3>2
  <2> QED BY <2>5, <2>6 DEF Lossless
<1>8. CASE name \notin names
  <2>1. PICK old \in Seq(Sent) :
          /\ new = <<v>> \/ new = old \o <<j, v>>
          /\ old = <<>> \/ (low \in names /\ old = out[low])
    <3>1. CASE low \in names
      <4>1. new = out[low] \o <<j, v>>
        BY <1>1, <1>2, <1>3, <1>5, <1>6, <1>8, <3>1 DEF NewValue, Existing, Got
      <4> QED BY <1>1, <3>1, <4>1
    <3>2. CASE low \notin names
      <4>1. new = <<v>>
        BY <1>1, <1>2, <1>3, <1>5, <1>8, <3>2 DEF NewValue
      <4> QED BY <4>1, EmptySeq
    <3> QED BY <3>1, <3>2
  <2>2. /\ <<j, v>> \in Seq(Sent) /\ ToSet(<<j, v>>) = {j, v} /\ ToSet(<<v>>) = {v}
    BY <1>6 DEF Sent, ToSet
  <2>3. v \in ToSet(new) /\ ToSet(new) \subseteq ToSet(old) \cup {j, v}
    <3>1. ToSet(old \o <<j, v>>) = ToSet(old) \cup {j, v}
      <4>1. PICK pair \in Seq(Sent) : pair = <<j, v>>
        BY <2>2
      <4>2. ToSet(old \o pair) = ToSet(old) \cup ToSet(pair)
        BY ToSetConcat
      <4> QED BY <2>2, <4>1, <4>2
    <3> QED BY <2>1, <2>2, <3>1
  <2>4. \A f \in ToSet(t) : \E n \in DOMAIN p : f.value \in ToSet(p[n])
    <3>1. ASSUME NEW f \in ToSet(s) PROVE \E n \in DOMAIN p : f.value \in ToSet(p[n])
      <4>1. PICK n \in names : f.value \in ToSet(out[n])
        BY <1>1 DEF Lossless
      <4>2. f.value \in ToSet(p[n])
        BY <1>4, <1>8, <4>1
      <4> QED BY <1>4, <4>1, <4>2
    <3>2. x.value \in ToSet(p[name])
      BY <1>2, <1>4, <2>3
    <3> QED BY <1>4, <3>1, <3>2
  <2>5. ASSUME NEW n \in DOMAIN p, NEW w \in ToSet(p[n])
        PROVE  w \in {Crumbs, Comma} \/ \E f \in ToSet(t) : f.value = w /\ f.name.lower = n.lower
    <3>1. CASE n # name
      <4>1. n \in names /\ w \in ToSet(out[n])
        BY <1>4, <3>1
      <4> QED BY <1>1, <4>1 DEF Lossless
    <3>2. CASE n = name /\ w \in {j, v}
      BY <1>2, <1>6, <3>2
    <3>3. CASE n = name /\ w \in ToSet(old)
      <4>1. low \in names /\ w \in ToSet(out[low])
        BY <2>1, <3>3, ToSetEmpty
      <4>2. w \in {Crumbs, Comma} \/ \E f \in ToSet(s) : f.value = w /\ f.name.lower = low.lower
        BY <1>1, <4>1 DEF Lossless
      <4> QED BY <1>5, <3>3, <4>2
    <3> QED BY <1>4, <2>3, <3>1, <3>2, <3>3
  <2> QED BY <2>4, <2>5 DEF Lossless
<1> QED BY <1>7, <1>8

LEMMA FieldsAppend ==
  ASSUME NEW s \in Seq(Fields), NEW x \in Fields
  PROVE  Append(s, x) \in Seq(Fields) /\ ToSet(Append(s, x)) = ToSet(s) \cup {x}
<1>1. PICK T : T = Fields
  OBVIOUS
<1>2. s \in Seq(T) /\ x \in T
  BY <1>1
<1>3. Append(s, x) \in Seq(T)
  BY <1>2, AppendProperties
<1>4. ToSet(Append(s, x)) = ToSet(s) \cup {x}
  BY <1>2, ToSetAppend
<1> QED BY <1>1, <1>3, <1>4

LEMMA RequestLossless == ASSUME NEW s \in Seq(Fields) PROVE Lossless(Request(s), s)
<1> DEFINE P == {r \in Seq(Fields) : Lossless(Request(r), r)}
<1>1. <<>> \in P
  <2>1. PICK e \in Seq(Fields) : e = <<>> /\ DOMAIN e = {} /\ ToSet(e) = {}
    <3>1. <<>> \in Seq(Fields) /\ DOMAIN <<>> = {}
      BY EmptySeq
    <3> QED BY <3>1, ToSetEmpty
  <2>2. Request(e) = e
    BY <2>1, RequestEmpty
  <2>3. Lossless(e, e)
    BY <2>1 DEF Lossless
  <2> QED BY <2>1, <2>2, <2>3
<1>2. ASSUME NEW r \in Seq(Fields), NEW x \in Fields, r \in P PROVE Append(r, x) \in P
  <2>1. PICK out \in Outs : out = Request(r) /\ Lossless(out, r)
    BY <1>2, RequestAppend
  <2>2. PICK t \in Seq(Fields) : t = Append(r, x) /\ ToSet(t) = ToSet(r) \cup {x}
    BY FieldsAppend
  <2>3. Request(t) = Put(out, x)
    BY <2>1, <2>2, RequestAppend
  <2>4. Lossless(Request(t), t)
    BY <2>1, <2>2, <2>3, PutLossless
  <2> QED BY <2>2, <2>4
<1>3. Seq(Fields) \subseteq P
  <2> HIDE DEF P
  <2> QED BY <1>1, <1>2, ListInduction
<1> QED BY <1>3

LEMMA AllValues == Inputs => NoValueLost
<1> SUFFICES ASSUME Inputs, NEW mode \in Modes, NEW i \in DOMAIN fields
             PROVE  LET headers == RequestHeaders(fields, mode)
                        at(i_) == {n \in DOMAIN headers : fields[i_].value \in ToSet(headers[n])}
                    IN  /\ Forwarded(fields[i], mode) <=> at(i) # {}
                        /\ \A n \in at(i) : n.lower = fields[i].name.lower
  BY DEF NoValueLost
<1>1. PICK s \in Seq(Fields) : s = fields
  BY DEF Inputs
<1>2. PICK kept \in Seq(Fields) : kept = Only(s, Mode(mode)) /\ ToSet(kept) = ToSet(s) \cap Mode(mode)
  BY OnlyInList, OnlyToSet
<1>3. PICK headers : headers = RequestHeaders(fields, mode) /\ headers = Request(kept)
  BY <1>1, <1>2, RequestIs
<1>4. Lossless(headers, kept)
  BY <1>2, <1>3, RequestLossless
<1>5. PICK f : f = fields[i] /\ f \in Fields /\ f \in ToSet(s) /\ f.value = i /\ i \in Nat
  BY <1>1 DEF Inputs, ToSet
<1>6. \A e \in ToSet(s) : e.value = i => e = f
  BY <1>1, <1>5 DEF Inputs, ToSet
<1>7. f.value \notin {Crumbs, Comma}
  BY <1>5, ConversionConstants
<1>8. PICK at : at = {n \in DOMAIN headers : fields[i].value \in ToSet(headers[n])}
  OBVIOUS
<1>9. ASSUME NEW n \in at PROVE Forwarded(f, mode) /\ n.lower = f.name.lower
  <2>1. n \in DOMAIN headers /\ f.value \in ToSet(headers[n])
    BY <1>5, <1>8
  <2>2. PICK e \in ToSet(kept) : e.value = f.value /\ e.name.lower = n.lower
    BY <1>4, <1>7, <2>1 DEF Lossless
  <2>3. e = f
    BY <1>2, <1>5, <1>6, <2>2
  <2> QED BY <1>2, <2>2, <2>3 DEF Mode
<1>10. ASSUME Forwarded(f, mode) PROVE at # {}
  <2>1. f \in ToSet(kept)
    BY <1>2, <1>5, <1>10 DEF Mode
  <2>2. PICK n \in DOMAIN headers : f.value \in ToSet(headers[n])
    BY <1>4, <2>1 DEF Lossless
  <2> QED BY <1>5, <1>8, <2>2
<1> QED BY <1>3, <1>5, <1>8, <1>9, <1>10

\* The values of a list, with one more, and joined.
LEMMA ValuesAppend ==
  ASSUME NEW T, \A e \in T : e.value \in Nat, NEW s \in Seq(T), NEW x \in T
  PROVE  Values(s) \in Seq(Nat) /\ Values(Append(s, x)) = Append(Values(s), x.value)
<1>1. PICK N \in Nat : N = Len(s) /\ DOMAIN s = 1 .. N
  BY LenProperties
<1>2. PICK u : u = Values(s)
  OBVIOUS
<1>3. u = [i \in 1 .. N |-> s[i].value]
  BY <1>1, <1>2 DEF Values
<1>4. ASSUME NEW i \in 1 .. N PROVE s[i].value \in Nat
  BY <1>1
<1>5. u \in Seq(Nat) /\ Len(u) = N
  BY <1>3, <1>4
<1>6. PICK t : t = Append(s, x)
  OBVIOUS
<1>7. DOMAIN t = 1 .. N + 1 /\ t[N + 1] = x /\ \A i \in 1 .. N : t[i] = s[i]
  BY <1>1, <1>6, AppendProperties
<1>8. PICK v \in Nat : v = x.value
  OBVIOUS
<1>9. PICK a : a = Append(u, v)
  OBVIOUS
<1>10. a \in Seq(Nat) /\ DOMAIN a = 1 .. N + 1 /\ a[N + 1] = v /\ \A i \in 1 .. N : a[i] = u[i]
  BY <1>5, <1>9, AppendProperties
<1>11. a = [i \in 1 .. N + 1 |-> t[i].value]
  <2>1. ASSUME NEW i \in 1 .. N + 1 PROVE a[i] = t[i].value
    <3>1. i \in 1 .. N \/ i = N + 1
      OBVIOUS
    <3> QED BY <1>3, <1>7, <1>8, <1>10, <3>1
  <2>2. a = [i \in 1 .. N + 1 |-> a[i]]
    BY <1>10
  <2> QED BY <2>1, <2>2
<1>12. Values(t) = a
  BY <1>7, <1>11 DEF Values
<1> QED BY <1>2, <1>5, <1>6, <1>8, <1>9, <1>12

JoinOf(name, values) ==
    [k \in 1 .. 2 * Len(values) - 1 |->
        IF k % 2 = 1 THEN values[(k + 1) \div 2] ELSE Joiner(name)]

LEMMA JoinOfOne == ASSUME NEW name, NEW v \in Nat PROVE JoinOf(name, <<v>>) = <<v>>
<1>1. PICK s : s = <<v>> /\ Len(s) = 1 /\ s[1] = v
  <2>1. PICK s : s = <<v>>
    OBVIOUS
  <2> QED BY <2>1
<1>2. 2 * 1 - 1 = 1 /\ 1 % 2 = 1 /\ (1 + 1) \div 2 = 1
  OBVIOUS
<1>3. JoinOf(name, s) = [k \in 1 .. 1 |-> v]
  <2>1. JoinOf(name, s) = [k \in 1 .. 1 |-> IF k % 2 = 1 THEN s[(k + 1) \div 2] ELSE Joiner(name)]
    BY <1>1, <1>2 DEF JoinOf
  <2>2. ASSUME NEW k \in 1 .. 1
        PROVE  (IF k % 2 = 1 THEN s[(k + 1) \div 2] ELSE Joiner(name)) = v
    <3>1. k = 1
      OBVIOUS
    <3> QED BY <1>1, <1>2, <3>1
  <2> QED BY <2>1, <2>2
<1> QED BY <1>1, <1>3

LEMMA JoinOfMore ==
  ASSUME NEW name, NEW values \in Seq(Nat), values # <<>>, NEW v \in Nat
  PROVE  JoinOf(name, Append(values, v)) = JoinOf(name, values) \o <<Joiner(name), v>>
<1>1. PICK m \in Nat : m = Len(values) /\ m > 0
  BY EmptySeq, LenProperties
<1>2. PICK more \in Seq(Nat) : more = Append(values, v)
  BY AppendProperties
<1>3. Len(more) = m + 1 /\ more[m + 1] = v /\ \A i \in 1 .. m : more[i] = values[i]
  BY <1>1, <1>2, AppendProperties
<1>4. PICK j : j = Joiner(name)
  OBVIOUS
<1>5. PICK c \in Nat : c = 2 * m - 1 /\ 2 * (m + 1) - 1 = c + 2 /\ c > 0
  <2>1. 2 * m - 1 \in Nat /\ 2 * m - 1 > 0
    BY <1>1
  <2>2. PICK c \in Nat : c = 2 * m - 1 /\ c > 0
    BY <2>1
  <2>3. 2 * (m + 1) - 1 = c + 2
    BY <2>2
  <2> QED BY <2>2, <2>3
<1>6. PICK a, b : a = JoinOf(name, values) /\ b = JoinOf(name, more)
  OBVIOUS
<1>7. a = [k \in 1 .. c |-> IF k % 2 = 1 THEN values[(k + 1) \div 2] ELSE j]
  BY <1>1, <1>4, <1>5, <1>6 DEF JoinOf
<1>8. b = [k \in 1 .. c + 2 |-> IF k % 2 = 1 THEN more[(k + 1) \div 2] ELSE j]
  BY <1>3, <1>4, <1>5, <1>6 DEF JoinOf
<1>9. ASSUME NEW k \in 1 .. c PROVE a[k] = b[k] /\ a[k] \in Nat \cup {j}
  <2>1. k % 2 = 1 => (k + 1) \div 2 \in 1 .. m
    BY <1>1, <1>5
  <2>2. PICK h : h = (k + 1) \div 2
    OBVIOUS
  <2>3. k % 2 = 1 => values[h] = more[h] /\ values[h] \in Nat
    BY <1>1, <1>3, <2>1, <2>2
  <2> QED BY <1>7, <1>8, <2>2, <2>3
<1>10. b[c + 1] = j /\ b[c + 2] = v
  <2>1. (c + 1) % 2 = 0 /\ (c + 2) % 2 = 1 /\ (c + 2 + 1) \div 2 = m + 1
    BY <1>1, <1>5
  <2>2. c + 1 \in 1 .. c + 2 /\ c + 2 \in 1 .. c + 2
    OBVIOUS
  <2> QED BY <1>3, <1>8, <2>1, <2>2
<1>11. PICK pair \in Seq(Nat \cup {j}) : pair = <<j, v>> /\ Len(pair) = 2 /\ pair[1] = j /\ pair[2] = v
  <2>1. PICK pair : pair = <<j, v>>
    OBVIOUS
  <2>2. pair \in Seq(Nat \cup {j}) /\ Len(pair) = 2 /\ pair[1] = j /\ pair[2] = v
    BY <2>1
  <2> QED BY <2>1, <2>2
<1>12. a \in Seq(Nat \cup {j}) /\ Len(a) = c
  <2>1. a = [k \in 1 .. c |-> a[k]]
    BY <1>7
  <2> HIDE <1>7
  <2> QED BY <1>9, <2>1
<1>13. PICK d : d = a \o pair
  OBVIOUS
<1>14. /\ d \in Seq(Nat \cup {j}) /\ Len(d) = c + 2 /\ DOMAIN d = 1 .. c + 2
       /\ \A i \in 1 .. c + 2 : d[i] = IF i <= c THEN a[i] ELSE pair[i - c]
  BY <1>11, <1>12, <1>13, ConcatProperties
<1>15. ASSUME NEW i \in 1 .. c + 2 PROVE d[i] = b[i]
  <2>1. i \in 1 .. c \/ i = c + 1 \/ i = c + 2
    OBVIOUS
  <2>2. CASE i \in 1 .. c
    BY <1>9, <1>14, <2>2
  <2>3. CASE i = c + 1
    <3>1. ~ (i <= c) /\ i - c = 1
      BY <2>3
    <3> QED BY <1>10, <1>11, <1>14, <2>3, <3>1
  <2>4. CASE i = c + 2
    <3>1. ~ (i <= c) /\ i - c = 2
      BY <2>4
    <3> QED BY <1>10, <1>11, <1>14, <2>4, <3>1
  <2> QED BY <2>1, <2>2, <2>3, <2>4
<1>16. d = b
  <2>1. d = [i \in 1 .. c + 2 |-> d[i]]
    BY <1>14
  <2>2. b = [i \in 1 .. c + 2 |-> b[i]]
    BY <1>8
  <2> QED BY <1>15, <2>1, <2>2
<1> QED BY <1>2, <1>4, <1>6, <1>11, <1>13, <1>16

\* The values a list has for a name.
Of(name) == {f \in Fields : f.name = name}
OneSpelling(s) == \A f, g \in ToSet(s) : f.name.lower = g.name.lower => f.name = g.name
Collapsed(out, s) ==
    \A name \in DOMAIN out :
        /\ Values(Only(s, Of(name))) # <<>>
        /\ out[name] = JoinOf(name, Values(Only(s, Of(name))))

LEMMA ValuesOf ==
  ASSUME NEW s \in Seq(Fields), NEW x \in Fields, NEW name
  PROVE  /\ Values(Only(s, Of(name))) \in Seq(Nat)
         /\ Values(Only(Append(s, x), Of(name))) =
               IF x.name = name THEN Append(Values(Only(s, Of(name))), x.value)
               ELSE Values(Only(s, Of(name)))
         /\ (\A f \in ToSet(s) : f.name # name) => Values(Only(s, Of(name))) = <<>>
<1>1. PICK u \in Seq(Fields) : u = Only(s, Of(name))
  BY OnlyInList
<1>2. \A e \in Fields : e.value \in Nat
  BY DEF Fields
<1>3. Values(u) \in Seq(Nat) /\ Values(Append(u, x)) = Append(Values(u), x.value)
  BY <1>2, ValuesAppend
<1>4. Only(Append(s, x), Of(name)) = IF x \in Of(name) THEN Append(u, x) ELSE u
  BY <1>1, OnlyAppend
<1>5. x \in Of(name) <=> x.name = name
  BY DEF Of
<1>6. ASSUME \A f \in ToSet(s) : f.name # name PROVE Values(u) = <<>>
  <2>1. \A i \in 1 .. Len(s) : s[i] \notin Of(name)
    BY <1>6 DEF ToSet, Of
  <2>2. u = <<>>
    BY <1>1, <2>1, OnlyNone
  <2>3. DOMAIN u = {}
    BY <2>2, EmptySeq
  <2> QED BY <2>3 DEF Values
<1>7. CASE x.name = name
  BY <1>1, <1>3, <1>4, <1>5, <1>6, <1>7
<1>8. CASE x.name # name
  BY <1>1, <1>3, <1>4, <1>5, <1>6, <1>8
<1> QED BY <1>7, <1>8

LEMMA PutCollapses ==
  ASSUME NEW s \in Seq(Fields), NEW x \in Fields, NEW out \in Outs, NEW t, NEW p,
         t = Append(s, x), ToSet(t) = ToSet(s) \cup {x}, OneSpelling(t),
         Collapsed(out, s), DOMAIN out = {f.name : f \in ToSet(s)}, p = Put(out, x)
  PROVE  Collapsed(p, t)
<1>1. PICK name \in HeaderNames, v \in Nat : name = x.name /\ v = x.value
  BY DEF Fields
<1>2. /\ DOMAIN p = DOMAIN out \cup {name} /\ p[name] = NewValue(out, x)
      /\ \A n \in DOMAIN out \ {name} : p[n] = out[n]
  <2>1. /\ DOMAIN p = DOMAIN out \cup {x.name} /\ p[x.name] = NewValue(out, x)
        /\ \A n \in DOMAIN out \ {x.name} : p[n] = out[n]
    BY PutIs
  <2> QED BY <1>1, <2>1
<1>3. PICK low : low = Lower(name) /\ low.lower = name.lower
  BY LowerIs
<1>4. PICK values \in Seq(Nat) : values = Values(Only(s, Of(name)))
  BY ValuesOf
<1>5. Values(Only(t, Of(name))) = Append(values, v)
  BY <1>1, <1>4, ValuesOf
<1>6. p[name] = JoinOf(name, Append(values, v))
  <2>1. CASE name \in DOMAIN out
    <3>1. values # <<>> /\ out[name] = JoinOf(name, values)
      BY <1>4, <2>1 DEF Collapsed
    <3>2. NewValue(out, x) = out[name] \o <<Joiner(name), v>>
      BY <1>1, <2>1 DEF NewValue, Existing, Got
    <3> QED BY <1>2, <3>1, <3>2, JoinOfMore
  <2>2. CASE name \notin DOMAIN out
    <3>1. low \notin DOMAIN out
      <4> SUFFICES ASSUME low \in DOMAIN out PROVE FALSE
        OBVIOUS
      <4>1. PICK f \in ToSet(s) : f.name = low
        OBVIOUS
      <4>2. f.name = x.name
        BY <1>1, <1>3, <4>1 DEF OneSpelling
      <4> QED BY <1>1, <2>2, <4>2
    <3>2. NewValue(out, x) = <<v>>
      BY <1>1, <1>3, <2>2, <3>1 DEF NewValue
    <3>3. values = <<>>
      <4>1. \A f \in ToSet(s) : f.name # name
        BY <2>2
      <4> QED BY <1>4, <4>1, ValuesOf
    <3>4. Append(values, v) = <<v>>
      BY <3>3
    <3> QED BY <1>2, <3>2, <3>4, JoinOfOne
  <2> QED BY <2>1, <2>2
<1>7. Append(values, v) # <<>>
  BY FirstOfAppend
<1>8. ASSUME NEW n \in DOMAIN out, n # name
      PROVE  Values(Only(t, Of(n))) # <<>> /\ p[n] = JoinOf(n, Values(Only(t, Of(n))))
  <2>1. Values(Only(t, Of(n))) = Values(Only(s, Of(n)))
    BY <1>1, <1>8, ValuesOf
  <2> QED BY <1>2, <1>8, <2>1 DEF Collapsed
<1> QED BY <1>2, <1>5, <1>6, <1>7, <1>8 DEF Collapsed

LEMMA RequestCollapses ==
  ASSUME NEW s \in Seq(Fields)
  PROVE  OneSpelling(s) => Collapsed(Request(s), s)
<1> DEFINE P == {r \in Seq(Fields) : OneSpelling(r) => Collapsed(Request(r), r)}
<1>1. <<>> \in P
  <2>1. PICK e \in Seq(Fields) : e = <<>> /\ DOMAIN e = {}
    <3>1. <<>> \in Seq(Fields) /\ DOMAIN <<>> = {}
      BY EmptySeq
    <3> QED BY <3>1
  <2>2. Request(e) = e
    BY <2>1, RequestEmpty
  <2>3. Collapsed(e, e)
    BY <2>1 DEF Collapsed
  <2> QED BY <2>1, <2>2, <2>3
<1>2. ASSUME NEW r \in Seq(Fields), NEW x \in Fields, r \in P PROVE Append(r, x) \in P
  <2>1. PICK out \in Outs : out = Request(r)
    BY RequestAppend
  <2>2. PICK t \in Seq(Fields) : t = Append(r, x) /\ ToSet(t) = ToSet(r) \cup {x}
    BY FieldsAppend
  <2>3. Request(t) = Put(out, x) /\ DOMAIN out = {f.name : f \in ToSet(r)}
    BY <2>1, <2>2, RequestAppend, RequestNames
  <2>4. ASSUME OneSpelling(t) PROVE Collapsed(Request(t), t)
    <3>1. OneSpelling(r)
      BY <2>2, <2>4 DEF OneSpelling
    <3>2. Collapsed(out, r)
      BY <1>2, <2>1, <3>1
    <3> QED BY <2>2, <2>3, <2>4, <3>2, PutCollapses
  <2> QED BY <2>2, <2>4
<1>3. Seq(Fields) \subseteq P
  <2> HIDE DEF P
  <2> QED BY <1>1, <1>2, ListInduction
<1> QED BY <1>3

LEMMA RepeatsJoin == Inputs => RepeatsCollapse
<1> SUFFICES ASSUME Inputs,
                    \A i, j \in DOMAIN fields :
                        fields[i].name.lower = fields[j].name.lower => fields[i].name = fields[j].name,
                    NEW mode \in Modes
             PROVE  LET headers == RequestHeaders(fields, mode)
                    IN  /\ DOMAIN headers =
                              {fields[i].name : i \in {k \in DOMAIN fields : Forwarded(fields[k], mode)}}
                        /\ \A name \in DOMAIN headers : headers[name] = JoinedValues(name)
  BY DEF RepeatsCollapse
<1>1. PICK s \in Seq(Fields) : s = fields
  BY DEF Inputs
<1>2. PICK kept \in Seq(Fields) : kept = Only(s, Mode(mode)) /\ ToSet(kept) = ToSet(s) \cap Mode(mode)
  BY OnlyInList, OnlyToSet
<1>3. PICK headers : headers = RequestHeaders(fields, mode) /\ headers = Request(kept)
  BY <1>1, <1>2, RequestIs
<1>4. OneSpelling(kept)
  <2>1. OneSpelling(s)
    BY <1>1 DEF OneSpelling, ToSet
  <2> QED BY <1>2, <2>1 DEF OneSpelling
<1>5. Collapsed(headers, kept)
  BY <1>2, <1>3, <1>4, RequestCollapses
<1>6. DOMAIN headers = {f.name : f \in ToSet(kept)}
  BY <1>2, <1>3, RequestNames
<1>7. DOMAIN headers = {fields[i].name : i \in {k \in DOMAIN fields : Forwarded(fields[k], mode)}}
  <2>1. ASSUME NEW f \in ToSet(kept)
        PROVE  \E i \in DOMAIN fields : Forwarded(fields[i], mode) /\ fields[i].name = f.name
    BY <1>1, <1>2 DEF Mode, ToSet
  <2>2. ASSUME NEW i \in DOMAIN fields, Forwarded(fields[i], mode) PROVE fields[i] \in ToSet(kept)
    <3>1. PICK f \in Fields : f = fields[i]
      BY <1>1
    <3>2. f \in ToSet(s) /\ f \in Mode(mode)
      BY <1>1, <2>2, <3>1 DEF Mode, ToSet
    <3> QED BY <1>2, <3>1, <3>2
  <2> QED BY <1>6, <2>1, <2>2
<1>8. ASSUME NEW name \in DOMAIN headers PROVE headers[name] = JoinedValues(name)
  <2>1. PICK e \in Fields : e.name = name /\ Forwarded(e, mode)
    BY <1>2, <1>6 DEF Mode
  <2>2. Only(kept, Of(name)) = Only(s, Of(name))
    <3>1. PICK both : both = Mode(mode) \cap Of(name)
      OBVIOUS
    <3>2. both = Of(name)
      <4>1. ASSUME NEW f \in Of(name) PROVE f \in Mode(mode)
        BY <2>1 DEF Of, Mode, Forwarded
      <4> QED BY <3>1, <4>1
    <3>3. Only(kept, Of(name)) = Only(s, both)
      BY <1>2, <3>1, OnlyOnly
    <3> QED BY <3>2, <3>3
  <2>3. Named(name) = Only(s, Of(name))
    <3>1. PICK here : here = {f \in ToSet(s) : f.name = name}
      OBVIOUS
    <3>2. \A i \in 1 .. Len(s) : s[i] \in here <=> s[i] \in Of(name)
      <4>1. \A i \in 1 .. Len(s) : s[i] \in Fields /\ s[i] \in ToSet(s)
        BY DEF ToSet
      <4> QED BY <3>1, <4>1 DEF Of
    <3>3. Only(s, here) = Only(s, Of(name))
      BY <3>2, OnlySame
    <3> QED BY <1>1, <3>1, <3>3 DEF Named
  <2>4. JoinedValues(name) = JoinOf(name, Values(Named(name)))
    BY DEF JoinedValues, JoinOf, Joiner
  <2> QED BY <1>5, <2>2, <2>3, <2>4 DEF Collapsed
<1> QED BY <1>3, <1>7, <1>8

-----------------------------------------------------------------------------
(* Repeated headers of a response                                          *)

\* The pairs of one header, which are fields again.
PairsOf(x) == [j \in DOMAIN x.values |-> [name |-> x.name, value |-> x.values[j]]]

LEMMA PairsOfIs ==
  ASSUME NEW x \in Answers
  PROVE  /\ PairsOf(x) \in Seq(Fields) /\ Values(PairsOf(x)) = x.values
         /\ \A i \in 1 .. Len(PairsOf(x)) : PairsOf(x)[i].name = x.name
<1>1. PICK name \in HeaderNames, v \in Seq(Nat) : name = x.name /\ v = x.values
  BY DEF Answers
<1>2. PICK N \in Nat : N = Len(v) /\ DOMAIN v = 1 .. N /\ v = [j \in 1 .. N |-> v[j]]
  BY LenProperties
<1>3. PICK p : p = [j \in 1 .. N |-> [name |-> name, value |-> v[j]]]
  OBVIOUS
<1>4. p = PairsOf(x)
  BY <1>1, <1>2, <1>3 DEF PairsOf
<1>5. ASSUME NEW j \in 1 .. N
      PROVE  p[j] \in Fields /\ p[j].name = name /\ p[j].value = v[j]
  BY <1>2, <1>3 DEF Fields
<1>6. p \in Seq(Fields) /\ Len(p) = N /\ DOMAIN p = 1 .. N
  <2>1. p = [j \in 1 .. N |-> p[j]]
    BY <1>3
  <2> QED BY <1>5, <2>1
<1>7. Values(p) = v
  <2>1. Values(p) = [j \in 1 .. N |-> p[j].value]
    BY <1>6 DEF Values
  <2> QED BY <1>2, <1>5, <2>1
<1> QED BY <1>1, <1>4, <1>5, <1>6, <1>7

LEMMA PairsEmpty == Pairs(<<>>) = <<>>
<1>1. PICK e : e = <<>> /\ DOMAIN e = {}
  BY EmptySeq
<1>2. Pairs(e) = FlattenSeq(<<>>)
  BY <1>1 DEF Pairs
<1> QED BY <1>1, <1>2, FlattenEmpty

LEMMA PairsAppend ==
  ASSUME NEW s \in Seq(Answers), NEW x \in Answers
  PROVE  Pairs(s) \in Seq(Fields) /\ Pairs(Append(s, x)) = Pairs(s) \o PairsOf(x)
<1>1. PICK N \in Nat : N = Len(s) /\ DOMAIN s = 1 .. N
  BY LenProperties
<1>2. PICK t : t = Append(s, x)
  OBVIOUS
<1>3. DOMAIN t = 1 .. N + 1 /\ t[N + 1] = x /\ \A i \in 1 .. N : t[i] = s[i]
  BY <1>1, <1>2, AppendProperties
<1>4. PICK a : a = [i \in 1 .. N |-> PairsOf(s[i])]
  OBVIOUS
<1>5. a \in Seq(Seq(Fields)) /\ Len(a) = N
  <2>1. ASSUME NEW i \in 1 .. N PROVE PairsOf(s[i]) \in Seq(Fields)
    <3>1. PICK y \in Answers : y = s[i]
      BY <1>1
    <3> QED BY <3>1, PairsOfIs
  <2> QED BY <1>4, <2>1
<1>6. PICK q \in Seq(Fields) : q = PairsOf(x)
  BY PairsOfIs
<1>7. PICK b : b = Append(a, q)
  OBVIOUS
<1>8. b = [i \in 1 .. N + 1 |-> PairsOf(t[i])]
  <2>1. /\ b \in Seq(Seq(Fields)) /\ Len(b) = N + 1
        /\ DOMAIN b = 1 .. N + 1 /\ b[N + 1] = q /\ \A i \in 1 .. N : b[i] = a[i]
    BY <1>5, <1>7, AppendProperties
  <2>2. b = [i \in 1 .. N + 1 |-> b[i]]
    BY <2>1
  <2>3. ASSUME NEW i \in 1 .. N + 1 PROVE b[i] = PairsOf(t[i])
    <3>1. i \in 1 .. N \/ i = N + 1
      OBVIOUS
    <3> QED BY <1>3, <1>4, <1>6, <2>1, <3>1
  <2> QED BY <2>2, <2>3
<1>9. Pairs(s) = FlattenSeq(a)
  BY <1>1, <1>4 DEF Pairs, PairsOf
<1>10. Pairs(t) = FlattenSeq(b)
  BY <1>3, <1>8 DEF Pairs, PairsOf
<1>11. FlattenSeq(b) = FlattenSeq(a) \o q /\ FlattenSeq(a) \in Seq(Fields)
  BY <1>5, <1>7, FlattenAppend, FlattenType
<1> QED BY <1>2, <1>6, <1>9, <1>10, <1>11

LEMMA ValuesType == ASSUME NEW s \in Seq(Fields) PROVE Values(s) \in Seq(Nat)
<1>1. PICK N \in Nat : N = Len(s) /\ DOMAIN s = 1 .. N
  BY LenProperties
<1>2. ASSUME NEW i \in 1 .. N PROVE s[i].value \in Nat
  <2>1. PICK y \in Fields : y = s[i]
    BY <1>1
  <2> QED BY <2>1 DEF Fields
<1>3. Values(s) = [i \in 1 .. N |-> s[i].value]
  BY <1>1 DEF Values
<1> QED BY <1>2, <1>3

LEMMA ValuesConcat ==
  ASSUME NEW s \in Seq(Fields), NEW t \in Seq(Fields)
  PROVE  Values(s \o t) = Values(s) \o Values(t)
<1>1. PICK a \in Seq(Nat) : a = Values(s)
  BY ValuesType
<1> DEFINE P == {r \in Seq(Fields) : Values(s \o r) = a \o Values(r)}
<1>2. <<>> \in P
  <2>1. PICK e : e = <<>>
    OBVIOUS
  <2>2. e \in Seq(Fields) /\ DOMAIN e = {}
    BY <2>1, EmptySeq
  <2>3. Values(e) = e
    BY <2>1, <2>2 DEF Values
  <2>4. s \o e = s /\ a \o e = a
    BY <2>1, ConcatEmptySeq
  <2>5. e \in P
    BY <1>1, <2>2, <2>3, <2>4
  <2> QED BY <2>1, <2>5
<1>3. ASSUME NEW r \in Seq(Fields), NEW x \in Fields, r \in P PROVE Append(r, x) \in P
  <2>1. PICK c \in Seq(Fields) : c = s \o r /\ s \o Append(r, x) = Append(c, x)
    <3>1. s \o Append(r, x) = Append(s \o r, x)
      OBVIOUS
    <3> QED BY <3>1, ConcatProperties
  <2>2. PICK b \in Seq(Nat) : b = Values(r)
    BY ValuesType
  <2>3. PICK v \in Nat : v = x.value
    BY DEF Fields
  <2>4. \A e \in Fields : e.value \in Nat
    BY DEF Fields
  <2>5. Values(Append(c, x)) = Append(Values(c), v) /\ Values(Append(r, x)) = Append(b, v)
    BY <2>2, <2>3, <2>4, ValuesAppend
  <2>6. Values(c) = a \o b
    BY <1>3, <2>1, <2>2
  <2>7. a \o Append(b, v) = Append(a \o b, v)
    BY ConcatAppend, SMTT(20)
  <2>8. PICK t_ \in Seq(Fields) : t_ = Append(r, x)
    BY AppendProperties
  <2>9. Values(s \o t_) = a \o Values(t_)
    BY <2>1, <2>5, <2>6, <2>7, <2>8
  <2> QED BY <2>8, <2>9
<1>4. Seq(Fields) \subseteq P
  <2> HIDE DEF P
  <2> QED BY <1>2, <1>3, ListInduction
<1> QED BY <1>1, <1>4

\* The values of a name among the pairs that are kept of a response.
ToClient == {h \in Answers : h.name.lower \notin ResponseDrop}
Said(s, name) == Values(Only(Pairs(Only(s, ToClient)), Of(name)))
Own(s) == \A i, j \in DOMAIN s : s[i].name = s[j].name => i = j

LEMMA SaidAppend ==
  ASSUME NEW s \in Seq(Answers), NEW x \in Answers, NEW name
  PROVE  /\ Said(s, name) \in Seq(Nat)
         /\ Said(Append(s, x), name) =
               IF x \in ToClient /\ x.name = name THEN Said(s, name) \o x.values
               ELSE Said(s, name)
<1>1. PICK kept \in Seq(Answers) : kept = Only(s, ToClient)
  BY OnlyInList
<1>2. Only(Append(s, x), ToClient) = IF x \in ToClient THEN Append(kept, x) ELSE kept
  BY <1>1, OnlyAppend
<1>3. PICK p \in Seq(Fields), q \in Seq(Fields) :
        p = Pairs(kept) /\ q = PairsOf(x) /\ Pairs(Append(kept, x)) = p \o q
  BY PairsAppend, PairsOfIs
<1>4. PICK u \in Seq(Fields), v \in Seq(Fields) : u = Only(p, Of(name)) /\ v = Only(q, Of(name))
  <2>1. Only(p, Of(name)) \in Seq(Fields) /\ Only(q, Of(name)) \in Seq(Fields)
    BY OnlyInList
  <2> QED BY <2>1
<1>5. Only(p \o q, Of(name)) = u \o v
  <2>1. PICK S, T : S = Of(name) /\ T = Fields
    OBVIOUS
  <2>2. p \in Seq(T) /\ q \in Seq(T)
    BY <2>1
  <2>3. Only(p \o q, S) = Only(p, S) \o Only(q, S)
    BY <2>2, OnlyConcat, SMTT(20)
  <2> QED BY <1>4, <2>1, <2>3
<1>6. Values(u) \in Seq(Nat) /\ Values(u \o v) = Values(u) \o Values(v)
  BY ValuesType, ValuesConcat
<1>7. Said(s, name) = Values(u)
  BY <1>1, <1>3, <1>4 DEF Said
<1>8. CASE x \notin ToClient
  BY <1>1, <1>2, <1>6, <1>7, <1>8 DEF Said
<1>9. CASE x \in ToClient
  <2>1. Said(Append(s, x), name) = Values(u) \o Values(v)
    BY <1>2, <1>3, <1>5, <1>6, <1>9 DEF Said
  <2>2. \A i \in 1 .. Len(q) : q[i].name = x.name
    BY <1>3, PairsOfIs
  <2>3. CASE x.name = name
    <3>1. \A i \in 1 .. Len(q) : q[i] \in Of(name)
      BY <2>2, <2>3 DEF Of
    <3>2. v = q
      BY <1>4, <3>1, OnlyAll
    <3>3. Values(v) = x.values
      BY <1>3, <3>2, PairsOfIs
    <3> QED BY <1>6, <1>7, <1>9, <2>1, <2>3, <3>3
  <2>4. CASE x.name # name
    <3>1. \A i \in 1 .. Len(q) : q[i] \notin Of(name)
      BY <2>2, <2>4 DEF Of
    <3>2. v = <<>>
      BY <1>4, <3>1, OnlyNone
    <3>3. Values(v) = <<>>
      <4>1. DOMAIN v = {}
        BY <3>2, EmptySeq
      <4> QED BY <4>1 DEF Values
    <3>4. Values(u) \o Values(v) = Values(u)
      BY <1>6, <3>3, ConcatEmptySeq
    <3> QED BY <1>6, <1>7, <1>9, <2>1, <2>4, <3>4
  <2> QED BY <2>3, <2>4
<1> QED BY <1>8, <1>9

SaysAll(s) ==
    /\ \A name : (\A i \in DOMAIN s : s[i].name # name) => Said(s, name) = <<>>
    /\ \A i \in DOMAIN s :
          Said(s, s[i].name) = IF s[i] \in ToClient THEN s[i].values ELSE <<>>

LEMMA AllSaid == ASSUME NEW s \in Seq(Answers) PROVE Own(s) => SaysAll(s)
<1> DEFINE P == {r \in Seq(Answers) : Own(r) => SaysAll(r)}
<1>1. <<>> \in P
  <2>1. PICK e \in Seq(Answers) : e = <<>> /\ DOMAIN e = {}
    <3>1. <<>> \in Seq(Answers) /\ DOMAIN <<>> = {}
      BY EmptySeq
    <3> QED BY <3>1
  <2>2. ASSUME NEW name PROVE Said(e, name) = <<>>
    <3>1. Only(Pairs(Only(e, ToClient)), Of(name)) = e
      BY <2>1, OnlyEmpty, PairsEmpty
    <3>2. Values(e) = <<>>
      BY <2>1 DEF Values
    <3> QED BY <3>1, <3>2 DEF Said
  <2>3. SaysAll(e)
    BY <2>1, <2>2 DEF SaysAll
  <2> QED BY <2>1, <2>3
<1>2. ASSUME NEW r \in Seq(Answers), NEW x \in Answers, r \in P PROVE Append(r, x) \in P
  <2>1. PICK t \in Seq(Answers) : t = Append(r, x)
    BY AppendProperties
  <2>2. PICK N \in Nat : N = Len(r) /\ DOMAIN r = 1 .. N
    BY LenProperties
  <2>3. DOMAIN t = 1 .. N + 1 /\ t[N + 1] = x /\ \A i \in 1 .. N : t[i] = r[i]
    BY <2>1, <2>2, AppendProperties
  <2>4. ASSUME Own(t) PROVE SaysAll(t)
    <3>1. Own(r)
      <4>1. ASSUME NEW i \in 1 .. N, NEW j \in 1 .. N, r[i].name = r[j].name PROVE i = j
        <5>1. i \in DOMAIN t /\ j \in DOMAIN t /\ t[i].name = t[j].name
          BY <2>3, <4>1
        <5> QED BY <2>4, <5>1 DEF Own
      <4> QED BY <2>2, <4>1 DEF Own
    <3>2. SaysAll(r)
      BY <1>2, <3>1
    <3>3. \A i \in 1 .. N : r[i].name # x.name
      <4>1. ASSUME NEW i \in 1 .. N, r[i].name = x.name PROVE FALSE
        <5>1. i \in 1 .. N + 1 /\ N + 1 \in 1 .. N + 1 /\ t[i].name = t[N + 1].name
          BY <2>3, <4>1
        <5>2. i = N + 1
          BY <2>3, <2>4, <5>1 DEF Own
        <5> QED BY <5>2
      <4> QED BY <4>1
    <3>4. Said(r, x.name) = <<>>
      BY <2>2, <3>2, <3>3 DEF SaysAll
    <3>5. ASSUME NEW name, \A i \in DOMAIN t : t[i].name # name PROVE Said(t, name) = <<>>
      <4>1. x.name # name
        <5>1. N + 1 \in DOMAIN t /\ t[N + 1] = x
          BY <2>3
        <5> QED BY <3>5, <5>1
      <4>2. \A i \in 1 .. N : r[i].name # name
        <5>1. \A i \in 1 .. N : i \in DOMAIN t /\ t[i] = r[i]
          BY <2>3
        <5> QED BY <3>5, <5>1
      <4>3. Said(r, name) = <<>>
        BY <2>2, <3>2, <4>2 DEF SaysAll
      <4> QED BY <2>1, <4>1, <4>3, SaidAppend
    <3>6. ASSUME NEW i \in 1 .. N + 1
          PROVE  Said(t, t[i].name) = IF t[i] \in ToClient THEN t[i].values ELSE <<>>
      <4>1. CASE i \in 1 .. N
        <5>1. t[i] = r[i] /\ x.name # r[i].name
          BY <2>3, <3>3, <4>1
        <5>2. Said(t, r[i].name) = Said(r, r[i].name)
          BY <2>1, <5>1, SaidAppend
        <5> QED BY <2>2, <3>2, <4>1, <5>1, <5>2 DEF SaysAll
      <4>2. CASE i = N + 1
        <5>1. Said(t, x.name) = IF x \in ToClient THEN Said(r, x.name) \o x.values
                                ELSE Said(r, x.name)
          BY <2>1, SaidAppend
        <5>2. <<>> \o x.values = x.values
          BY ConcatEmptySeq DEF Answers
        <5> QED BY <2>3, <3>4, <4>2, <5>1, <5>2
      <4> QED BY <4>1, <4>2
    <3> QED BY <2>3, <3>5, <3>6 DEF SaysAll
  <2> QED BY <2>1, <2>4
<1>3. Seq(Answers) \subseteq P
  <2> HIDE DEF P
  <2> QED BY <1>1, <1>2, ListInduction
<1> QED BY <1>3

\* Trailers are the pairs of all.
Spoken(s) == FlattenSeq([i \in DOMAIN s |-> s[i].values])

LEMMA TrailersSpeak == ASSUME NEW s \in Seq(Answers) PROVE Values(Pairs(s)) = Spoken(s)
<1> DEFINE P == {r \in Seq(Answers) : Values(Pairs(r)) = Spoken(r)}
<1>1. <<>> \in P
  <2>1. PICK e \in Seq(Answers) : e = <<>> /\ DOMAIN e = {}
    <3>1. <<>> \in Seq(Answers) /\ DOMAIN <<>> = {}
      BY EmptySeq
    <3> QED BY <3>1
  <2>2. Values(Pairs(e)) = e
    <3>1. Pairs(e) = e
      BY <2>1, PairsEmpty
    <3> QED BY <2>1, <3>1 DEF Values
  <2>3. Spoken(e) = e
    <3>1. [i \in DOMAIN e |-> e[i].values] = <<>>
      BY <2>1
    <3> QED BY <2>1, <3>1, FlattenEmpty DEF Spoken
  <2> QED BY <2>1, <2>2, <2>3
<1>2. ASSUME NEW r \in Seq(Answers), NEW x \in Answers, r \in P PROVE Append(r, x) \in P
  <2>1. PICK t \in Seq(Answers) : t = Append(r, x)
    BY AppendProperties
  <2>2. PICK N \in Nat : N = Len(r) /\ DOMAIN r = 1 .. N
    BY LenProperties
  <2>3. DOMAIN t = 1 .. N + 1 /\ t[N + 1] = x /\ \A i \in 1 .. N : t[i] = r[i]
    BY <2>1, <2>2, AppendProperties
  <2>4. PICK v \in Seq(Nat) : v = x.values
    BY DEF Answers
  <2>5. PICK a : a = [i \in 1 .. N |-> r[i].values]
    OBVIOUS
  <2>6. a \in Seq(Seq(Nat)) /\ Len(a) = N
    <3>1. ASSUME NEW i \in 1 .. N PROVE r[i].values \in Seq(Nat)
      <4>1. PICK y \in Answers : y = r[i]
        BY <2>2
      <4> QED BY <4>1 DEF Answers
    <3> QED BY <2>5, <3>1
  <2>7. PICK b : b = Append(a, v)
    OBVIOUS
  <2>8. b = [i \in 1 .. N + 1 |-> t[i].values]
    <3>1. /\ b \in Seq(Seq(Nat)) /\ Len(b) = N + 1
          /\ DOMAIN b = 1 .. N + 1 /\ b[N + 1] = v /\ \A i \in 1 .. N : b[i] = a[i]
      BY <2>6, <2>7, AppendProperties
    <3>2. b = [i \in 1 .. N + 1 |-> b[i]]
      BY <3>1
    <3>3. ASSUME NEW i \in 1 .. N + 1 PROVE b[i] = t[i].values
      <4>1. i \in 1 .. N \/ i = N + 1
        OBVIOUS
      <4> QED BY <2>3, <2>4, <2>5, <3>1, <4>1
    <3> QED BY <3>2, <3>3
  <2>9. Spoken(r) = FlattenSeq(a) /\ Spoken(t) = FlattenSeq(b)
    BY <2>2, <2>3, <2>5, <2>8 DEF Spoken
  <2>10. FlattenSeq(b) = FlattenSeq(a) \o v
    BY <2>6, <2>7, FlattenAppend
  <2>11. PICK p \in Seq(Fields), q \in Seq(Fields) :
           p = Pairs(r) /\ q = PairsOf(x) /\ Pairs(t) = p \o q /\ Values(q) = v
    BY <2>1, <2>4, PairsAppend, PairsOfIs
  <2>12. Values(p \o q) = Values(p) \o Values(q)
    BY ValuesConcat
  <2>13. Values(Pairs(t)) = Spoken(t)
    BY <1>2, <2>9, <2>10, <2>11, <2>12
  <2> QED BY <2>1, <2>13
<1>3. Seq(Answers) \subseteq P
  <2> HIDE DEF P
  <2> QED BY <1>1, <1>2, ListInduction
<1> QED BY <1>3

LEMMA ResponseSays == Inputs => ResponseKeepsRepeats
<1> SUFFICES ASSUME Inputs PROVE ResponseKeepsRepeats
  OBVIOUS
<1>1. PICK s \in Seq(Answers) : s = response /\ Own(s)
  BY DEF Inputs, Own
<1>2. PICK pairs \in Seq(Fields) : pairs = ResponsePairs(response) /\ pairs = Pairs(Only(s, ToClient))
  <2>1. PICK kept : kept = {h \in ToSet(s) : h.name.lower \notin ResponseDrop}
    OBVIOUS
  <2>2. \A i \in 1 .. Len(s) : s[i] \in kept <=> s[i] \in ToClient
    <3>1. \A i \in 1 .. Len(s) : s[i] \in Answers /\ s[i] \in ToSet(s)
      BY DEF ToSet
    <3> QED BY <2>1, <3>1 DEF ToClient
  <2>3. Only(s, kept) = Only(s, ToClient)
    BY <2>2, OnlySame
  <2>4. PICK r \in Seq(Answers) : r = Only(s, ToClient)
    BY OnlyInList
  <2>5. Pairs(r) \in Seq(Fields)
    <3>1. r = <<>> \/ \E x : x \in Answers
      BY <2>4, EmptySeq
    <3>2. r = <<>> => Pairs(r) \in Seq(Fields)
      BY PairsEmpty, EmptySeq
    <3> QED BY <3>1, <3>2, PairsAppend
  <2>6. ResponsePairs(response) = Pairs(r)
    BY <1>1, <2>1, <2>3, <2>4 DEF ResponsePairs
  <2> QED BY <2>4, <2>5, <2>6
<1>3. ASSUME NEW i \in DOMAIN response
      PROVE  Values(Only(pairs, {p \in ToSet(pairs) : p.name = response[i].name}))
               = IF response[i].name.lower \in ResponseDrop THEN <<>> ELSE response[i].values
  <2>1. PICK x \in Answers : x = response[i] /\ x = s[i]
    BY <1>1
  <2>2. PICK here : here = {p \in ToSet(pairs) : p.name = x.name}
    OBVIOUS
  <2>3. \A k \in 1 .. Len(pairs) : pairs[k] \in here <=> pairs[k] \in Of(x.name)
    <3>1. \A k \in 1 .. Len(pairs) : pairs[k] \in Fields /\ pairs[k] \in ToSet(pairs)
      BY DEF ToSet
    <3> QED BY <2>2, <3>1 DEF Of
  <2>4. Only(pairs, here) = Only(pairs, Of(x.name))
    BY <2>3, OnlySame
  <2>5. Said(s, x.name) = IF x \in ToClient THEN x.values ELSE <<>>
    BY <1>1, <2>1, AllSaid DEF SaysAll
  <2>6. Values(Only(pairs, here)) = IF x \in ToClient THEN x.values ELSE <<>>
    BY <1>2, <2>4, <2>5 DEF Said
  <2> QED BY <2>1, <2>2, <2>6 DEF ToClient
<1>4. Values(TrailerPairs(response)) = FlattenSeq([i \in DOMAIN response |-> response[i].values])
  BY <1>1, TrailersSpeak DEF TrailerPairs, Spoken
<1> QED BY <1>2, <1>3, <1>4 DEF ResponseKeepsRepeats

\* Repeated header fields, in both directions (request_headers, response_pairs and
\* trailer_pairs), however many there are and however their names are spelt.
THEOREM RepeatsSurvive == ConversionSpec => []ValuesSurvive
<1>1. Inputs => ValuesSurvive
  BY RepeatsJoin, AllValues, ResponseSays DEF ValuesSurvive
<1> QED BY <1>1, InputsAreSound, PTL

-----------------------------------------------------------------------------
(* HPACK integers                                                          *)

Ints == {None} \cup [value : Nat, next : Nat]

\* A byte of an integer at p, and what is read behind it.
ReadByte(byte, next, p) ==
    IF byte < 128 THEN [value |-> byte, next |-> p + 1]
    ELSE IF next = None THEN None
    ELSE [value |-> (byte % 128) + 128 * next.value, next |-> next.next]

\* The values of the function More of HpackVarint.
IsMore(f, b, N) ==
    \A p \in 1 .. N + 1 :
        f[p] = IF p > N THEN None ELSE ReadByte(b[p], f[p + 1], p)

ReadInt(f, b, N, pos, bits) ==
    IF pos > N THEN None
    ELSE IF IsWhole(b[pos] % 2 ^ bits, 2 ^ bits - 1)
      THEN [value |-> b[pos] % 2 ^ bits, next |-> pos + 1]
    ELSE IF f[pos + 1] = None THEN None
    ELSE [value |-> 2 ^ bits - 1 + f[pos + 1].value, next |-> f[pos + 1].next]

LEMMA MoreStep ==
  ASSUME NEW f, NEW b, NEW N \in Nat, IsMore(f, b, N), NEW p \in 1 .. N
  PROVE  f[p] = ReadByte(b[p], f[p + 1], p)
<1>1. p \in 1 .. N + 1 /\ ~ (p > N)
  OBVIOUS
<1> QED BY <1>1 DEF IsMore

LEMMA MoreExists ==
  ASSUME NEW b \in Seq(Nat), NEW N \in Nat, N = Len(b)
  PROVE  \E f \in [1 .. N + 1 -> Ints] :
            /\ IsMore(f, b, N)
            /\ \A pos, bits : HpackVarint(b, pos, bits) = ReadInt(f, b, N, pos, bits)
<1> DEFINE S == 1 .. N + 1
           Value(p, f) ==
              IF p > N THEN None
              ELSE IF b[p] < 128 THEN [value |-> b[p], next |-> p + 1]
              ELSE IF f[p + 1] = None THEN None
              ELSE [value |-> (b[p] % 128) + 128 * f[p + 1].value, next |-> f[p + 1].next]
           Eq(f) == f = [p \in S |-> Value(p, f)]
           More == CHOOSE f : Eq(f)
           G == [x \in S \X [S -> Ints] |-> Value(x[1], x[2])]
           rank == [p \in S |-> N + 1 - p]
<1>1. ASSUME NEW pos, NEW bits PROVE HpackVarint(b, pos, bits) = ReadInt(More, b, N, pos, bits)
  BY DEF HpackVarint, ReadInt
<1>2. ASSUME NEW p \in S, NEW f \in [S -> Ints] PROVE Value(p, f) \in Ints
  <2>1. p <= N => b[p] \in Nat /\ p + 1 \in S
    OBVIOUS
  <2>2. p <= N => f[p + 1] \in Ints
    BY <2>1
  <2>3. p <= N => b[p] % 128 \in Nat
    BY <2>1
  <2>4. CASE p > N
    BY <2>4 DEF Ints
  <2>5. CASE p <= N /\ b[p] < 128
    BY <2>1, <2>5 DEF Ints
  <2>6. CASE p <= N /\ b[p] >= 128
    <3>1. PICK m \in Nat : m = b[p] % 128
      BY <2>3, <2>6
    <3>2. PICK next \in Ints : next = f[p + 1]
      BY <2>2, <2>6
    <3>3. Value(p, f) = IF next = None THEN None
                        ELSE [value |-> m + 128 * next.value, next |-> next.next]
      BY <2>1, <2>6, <3>1, <3>2
    <3>4. next # None => next.value \in Nat /\ next.next \in Nat
      BY DEF Ints
    <3> HIDE DEF Value
    <3> QED BY <3>3, <3>4 DEF Ints
  <2> QED BY <2>1, <2>4, <2>5, <2>6
<1>3. ASSUME NEW p \in S, NEW f \in [S -> Ints], NEW h \in [S -> Ints],
             \A q \in S : rank[q] < rank[p] => f[q] = h[q]
      PROVE  Value(p, f) = Value(p, h)
  <2>1. p <= N => p + 1 \in S /\ rank[p + 1] < rank[p]
    OBVIOUS
  <2>2. p <= N => f[p + 1] = h[p + 1]
    BY <1>3, <2>1
  <2> QED BY <2>2
<1>4. \E f \in [S -> Ints] : \A p \in S : f[p] = G[<<p, f>>]
  <2>1. G \in [S \X [S -> Ints] -> Ints]
    <3> HIDE DEF Value, S
    <3> QED BY <1>2
  <2>2. \A p \in S, f \in [S -> Ints] : G[<<p, f>>] = Value(p, f)
    <3> HIDE DEF Value, S
    <3> QED OBVIOUS
  <2>3. rank \in [S -> 0 .. N] /\ Ints # {}
    BY DEF Ints
  <2>4. PICK g : g = G
    OBVIOUS
  <2>5. PICK r : r = rank
    OBVIOUS
  <2>6. \A p \in S : \A f, h \in [S -> Ints] :
            (\A q \in S : r[q] < r[p] => f[q] = h[q]) => g[<<p, f>>] = g[<<p, h>>]
    <3> HIDE DEF G, S, Value, rank
    <3> QED BY <1>3, <2>2, <2>4, <2>5
  <2> HIDE DEF G, rank, S
  <2>7. IsRecursion(S, Ints, N, r, g)
    BY <2>1, <2>3, <2>4, <2>5, <2>6 DEF IsRecursion
  <2>8. \E f \in [S -> Ints] : \A p \in S : f[p] = g[<<p, f>>]
    BY <2>7, RecursionExists
  <2> QED BY <2>4, <2>8
<1>5. PICK f \in [S -> Ints] : Eq(f)
  <2>1. PICK f \in [S -> Ints] : \A p \in S : f[p] = G[<<p, f>>]
    BY <1>4
  <2>2. \A p \in S : G[<<p, f>>] = Value(p, f)
    <3> HIDE DEF Value, S
    <3> QED OBVIOUS
  <2> HIDE DEF G, Value, S
  <2> QED BY <2>1, <2>2
<1>6. Eq(More)
  <2> HIDE DEF Eq
  <2> QED BY <1>5
<1> HIDE DEF More
<1>7. IsMore(More, b, N)
  BY <1>6 DEF IsMore, ReadByte
<1>8. More \in [S -> Ints]
  <2> DEFINE P == {k \in 0 .. N : More[k + 1] \in Ints}
  <2>1. N \in P
    <3>1. N + 1 \in 1 .. N + 1 /\ N + 1 > N
      OBVIOUS
    <3>2. More[N + 1] = None
      BY <1>7, <3>1 DEF IsMore
    <3> QED BY <3>2 DEF Ints
  <2>2. ASSUME NEW k \in 1 .. N, k \in P PROVE k - 1 \in P
    <3>1. b[k] \in Nat /\ b[k] % 128 \in Nat /\ k \in 1 .. N + 1 /\ k + 1 \in Nat
      OBVIOUS
    <3>2. More[k] = IF b[k] < 128 THEN [value |-> b[k], next |-> k + 1]
                    ELSE IF More[k + 1] = None THEN None
                    ELSE [value |-> (b[k] % 128) + 128 * More[k + 1].value,
                          next |-> More[k + 1].next]
      <4>1. More[k] = ReadByte(b[k], More[k + 1], k)
        BY <1>7, MoreStep
      <4> QED BY <4>1 DEF ReadByte
    <3>3. More[k + 1] \in Ints
      BY <2>2
    <3>4. More[k] \in Ints
      <4>1. PICK m \in Nat, byte \in Nat : m = b[k] % 128 /\ byte = b[k]
        BY <3>1
      <4>2. PICK next \in Ints : next = More[k + 1]
        BY <3>3
      <4>3. More[k] = IF byte < 128 THEN [value |-> byte, next |-> k + 1]
                      ELSE IF next = None THEN None
                      ELSE [value |-> m + 128 * next.value, next |-> next.next]
        BY <3>2, <4>1, <4>2
      <4>4. next # None => next.value \in Nat /\ next.next \in Nat
        BY DEF Ints
      <4>5. [value |-> byte, next |-> k + 1] \in Ints /\ None \in Ints
        BY <3>1 DEF Ints
      <4>6. next # None => [value |-> m + 128 * next.value, next |-> next.next] \in Ints
        BY <4>4 DEF Ints
      <4> QED BY <4>3, <4>5, <4>6
    <3> QED BY <3>4
  <2>3. 0 .. N \subseteq P
    <3> HIDE DEF P
    <3> QED BY <2>1, <2>2, DownFrom
  <2>4. ASSUME NEW p \in S PROVE More[p] \in Ints
    <3>1. PICK k \in 0 .. N : p = k + 1
      OBVIOUS
    <3> QED BY <2>3, <3>1
  <2> QED BY <1>6, <2>4
<1> QED BY <1>1, <1>7, <1>8

\* Where an integer ends: behind its first byte.
LEMMA MoreNext ==
  ASSUME NEW b \in Seq(Nat), NEW N \in Nat, N = Len(b), NEW f \in [1 .. N + 1 -> Ints],
         IsMore(f, b, N), NEW p \in 1 .. N + 1, f[p] # None
  PROVE  f[p].value \in Nat /\ f[p].next \in p + 1 .. N + 1
<1> DEFINE Good(q) == f[q] = None \/ (f[q].value \in Nat /\ f[q].next \in q + 1 .. N + 1)
           P == {k \in 0 .. N : Good(k + 1)}
<1>1. N \in P
  <2>1. N + 1 \in 1 .. N + 1 /\ N + 1 > N
    OBVIOUS
  <2>2. f[N + 1] = None
    BY <2>1 DEF IsMore
  <2> QED BY <2>2
<1>2. ASSUME NEW k \in 1 .. N, k \in P PROVE k - 1 \in P
  <2>1. f[k] \in Ints
    OBVIOUS
  <2>2. f[k] = IF b[k] < 128 THEN [value |-> b[k], next |-> k + 1]
               ELSE IF f[k + 1] = None THEN None
               ELSE [value |-> (b[k] % 128) + 128 * f[k + 1].value, next |-> f[k + 1].next]
    <3>1. f[k] = ReadByte(b[k], f[k + 1], k)
      BY MoreStep
    <3> QED BY <3>1 DEF ReadByte
  <2>3. b[k] \in Nat /\ b[k] % 128 \in Nat
    OBVIOUS
  <2>4. CASE b[k] < 128
    BY <2>2, <2>3, <2>4
  <2>5. CASE b[k] >= 128 /\ f[k + 1] = None
    BY <2>2, <2>3, <2>5
  <2>6. CASE b[k] >= 128 /\ f[k + 1] # None
    <3>1. Good(k + 1)
      BY <1>2
    <3>2. PICK v \in Nat, q \in k + 2 .. N + 1 : v = f[k + 1].value /\ q = f[k + 1].next
      BY <2>6, <3>1
    <3>3. PICK m \in Nat : m = b[k] % 128
      BY <2>3
    <3>4. f[k] = [value |-> m + 128 * v, next |-> q]
      BY <2>2, <2>3, <2>6, <3>2, <3>3
    <3>5. m + 128 * v \in Nat /\ q \in k + 1 .. N + 1
      OBVIOUS
    <3> QED BY <3>4, <3>5
  <2>7. Good(k)
    BY <2>3, <2>4, <2>5, <2>6
  <2> HIDE DEF Good
  <2> QED BY <2>7
<1>3. 0 .. N \subseteq P
  <2> HIDE DEF P
  <2> QED BY <1>1, <1>2, DownFrom
<1>4. PICK k \in 0 .. N : p = k + 1
  OBVIOUS
<1> QED BY <1>3, <1>4

Bits == {4, 5, 6, 7}

LEMMA PowersOfTwo ==
  ASSUME NEW bits \in Bits
  PROVE  2 ^ bits \in Nat /\ 2 ^ bits > 0
<1>1. CASE bits = 4
  BY <1>1
<1>2. CASE bits = 5
  BY <1>2
<1>3. CASE bits = 6
  BY <1>3
<1>4. CASE bits = 7
  BY <1>4
<1> QED BY <1>1, <1>2, <1>3, <1>4 DEF Bits

\* What HpackVarint and HpackSkipString return.
LEMMA VarintType ==
  ASSUME NEW b \in Seq(Nat), NEW N \in Nat, N = Len(b), NEW p \in Nat \ {0}, NEW bits \in Bits
  PROVE  \/ HpackVarint(b, p, bits) = None
         \/ /\ HpackVarint(b, p, bits).value \in Nat
            /\ HpackVarint(b, p, bits).next \in p + 1 .. N + 1
<1>1. PICK f \in [1 .. N + 1 -> Ints] :
        IsMore(f, b, N) /\ \A pos, n : HpackVarint(b, pos, n) = ReadInt(f, b, N, pos, n)
  BY MoreExists
<1>2. PICK r : r = HpackVarint(b, p, bits)
  OBVIOUS
<1>3. r = ReadInt(f, b, N, p, bits)
  BY <1>1, <1>2
<1>4. CASE p > N
  BY <1>2, <1>3, <1>4 DEF ReadInt
<1>5. CASE p \in 1 .. N
  <2>1. PICK m \in Nat : m = 2 ^ bits /\ m > 0
    BY PowersOfTwo
  <2>2. PICK c \in Nat : c = b[p] % m
    BY <1>5, <2>1
  <2>3. r = IF IsWhole(c, m - 1) THEN [value |-> c, next |-> p + 1]
            ELSE IF f[p + 1] = None THEN None
            ELSE [value |-> m - 1 + f[p + 1].value, next |-> f[p + 1].next]
    BY <1>3, <1>5, <2>1, <2>2 DEF ReadInt
  <2>4. f[p + 1] # None => f[p + 1].value \in Nat /\ f[p + 1].next \in p + 2 .. N + 1
    <3>1. PICK q \in 1 .. N + 1 : q = p + 1
      BY <1>5
    <3>2. f[q] # None => f[q].value \in Nat /\ f[q].next \in q + 1 .. N + 1
      BY <1>1, MoreNext
    <3> QED BY <3>1, <3>2
  <2>5. CASE IsWhole(c, m - 1)
    BY <1>2, <1>5, <2>3, <2>5
  <2>6. CASE ~ IsWhole(c, m - 1) /\ f[p + 1] = None
    BY <1>2, <2>3, <2>6
  <2>7. CASE ~ IsWhole(c, m - 1) /\ f[p + 1] # None
    <3>1. PICK v \in Nat, q \in p + 2 .. N + 1 : v = f[p + 1].value /\ q = f[p + 1].next
      BY <2>4, <2>7
    <3>2. r = [value |-> m - 1 + v, next |-> q]
      BY <2>3, <2>7, <3>1
    <3>3. m - 1 + v \in Nat /\ q \in p + 1 .. N + 1
      BY <2>1
    <3> QED BY <1>2, <3>2, <3>3
  <2> QED BY <2>5, <2>6, <2>7
<1> QED BY <1>4, <1>5

LEMMA SkipType ==
  ASSUME NEW b \in Seq(Nat), NEW p \in Nat \ {0}
  PROVE  \/ HpackSkipString(b, p) = None
         \/ HpackSkipString(b, p) \in Nat /\ HpackSkipString(b, p) > p
<1>1. PICK N \in Nat : N = Len(b)
  BY LenProperties
<1>2. PICK r : r = HpackVarint(b, p, 7)
  OBVIOUS
<1>3. r = None \/ (r.value \in Nat /\ r.next \in p + 1 .. N + 1)
  BY <1>1, <1>2, VarintType DEF Bits
<1>4. HpackSkipString(b, p) = IF r = None THEN None ELSE r.next + r.value
  BY <1>2 DEF HpackSkipString
<1>5. CASE r # None
  <2>1. PICK v \in Nat, q \in p + 1 .. N + 1 : v = r.value /\ q = r.next
    BY <1>3, <1>5
  <2> QED BY <1>4, <1>5, <2>1
<1> QED BY <1>4, <1>5

LEMMA KindBits ==
  ASSUME NEW first
  PROVE  /\ HpackKind(first) \in {"indexed", "size", "incremental", "never", "without"}
         /\ HpackBits(HpackKind(first)) \in Bits
  BY DEF HpackKind, HpackBits, Bits

\* The end of a representation is behind its start.
LEMMA EndType ==
  ASSUME NEW b \in Seq(Nat), NEW N \in Nat, N = Len(b), NEW p \in 1 .. N
  PROVE  \/ HpackEnd(b, p) = None
         \/ HpackEnd(b, p) \in Nat /\ HpackEnd(b, p) > p
<1>0. PICK kind : kind = HpackKind(b[p])
  OBVIOUS
<1>1. PICK bits \in Bits : kind = HpackKind(b[p]) /\ bits = HpackBits(kind)
  BY <1>0, KindBits
<1>2. PICK index : index = HpackVarint(b, p, bits)
  OBVIOUS
<1>3. PICK name : name = IF index = None THEN None
                         ELSE IF index.value = 0 THEN HpackSkipString(b, index.next)
                         ELSE index.next
  OBVIOUS
<1>4. HpackEnd(b, p) = IF index = None THEN None
                       ELSE IF kind \in {"indexed", "size"} THEN index.next
                       ELSE IF name = None THEN None ELSE HpackSkipString(b, name)
  BY <1>1, <1>2, <1>3 DEF HpackEnd
<1>5. index = None \/ (index.value \in Nat /\ index.next \in p + 1 .. N + 1)
  BY <1>2, VarintType
<1>6. CASE index # None
  <2>1. PICK q \in p + 1 .. N + 1 : q = index.next
    BY <1>5, <1>6
  <2>2. name = None \/ (name \in Nat /\ name > p)
    <3>1. HpackSkipString(b, q) = None \/ (HpackSkipString(b, q) \in Nat /\ HpackSkipString(b, q) > q)
      BY SkipType
    <3>2. name = HpackSkipString(b, q) \/ name = q
      BY <1>3, <1>6, <2>1
    <3>3. PICK s : s = HpackSkipString(b, q)
      OBVIOUS
    <3>4. s = None \/ (s \in Nat /\ s > p)
      BY <3>1, <3>3
    <3> QED BY <3>2, <3>3, <3>4
  <2>3. CASE name # None
    <3>1. PICK n \in Nat \ {0} : n = name /\ n > p
      BY <2>2, <2>3
    <3>2. PICK s : s = HpackSkipString(b, n)
      OBVIOUS
    <3>3. s = None \/ (s \in Nat /\ s > n)
      BY <3>2, SkipType
    <3>4. HpackEnd(b, p) = q \/ HpackEnd(b, p) = s
      BY <1>4, <1>6, <2>1, <2>3, <3>1, <3>2
    <3> QED BY <3>1, <3>3, <3>4
  <2>4. CASE name = None
    BY <1>4, <1>6, <2>1, <2>4
  <2> QED BY <2>3, <2>4
<1> QED BY <1>4, <1>6

-----------------------------------------------------------------------------
(* Cutting a block                                                         *)

\* c is the first K of the N bytes of b.
CutAt(c, b, N, K) == b \in Seq(Nat) /\ N = Len(b) /\ K \in 0 .. N /\ c = SubSeq(b, 1, K)

LEMMA CutIs ==
  ASSUME NEW c, NEW b, NEW N, NEW K, CutAt(c, b, N, K)
  PROVE  /\ b \in Seq(Nat) /\ N \in Nat /\ N = Len(b) /\ K \in Nat /\ K \in 0 .. N
         /\ c \in Seq(Nat) /\ K = Len(c) /\ \A i \in 1 .. K : c[i] = b[i]
<1>1. b \in Seq(Nat) /\ N = Len(b) /\ K \in 0 .. N /\ c = SubSeq(b, 1, K)
  BY DEF CutAt
<1> QED BY <1>1

\* What is read of a block cut short is what is read of all of it, or nothing.
LEMMA VarintCut ==
  ASSUME NEW b, NEW N, NEW K, NEW c, CutAt(c, b, N, K), NEW p \in Nat \ {0}, NEW bits
  PROVE  HpackVarint(c, p, bits) \in {None, HpackVarint(b, p, bits)}
<1>1. /\ b \in Seq(Nat) /\ N \in Nat /\ N = Len(b) /\ K \in Nat /\ K \in 0 .. N
      /\ c \in Seq(Nat) /\ K = Len(c) /\ \A i \in 1 .. K : c[i] = b[i]
  BY CutIs
<1>2. PICK f \in [1 .. N + 1 -> Ints] :
        IsMore(f, b, N) /\ \A pos, n : HpackVarint(b, pos, n) = ReadInt(f, b, N, pos, n)
  BY <1>1, MoreExists
<1>3. PICK h \in [1 .. K + 1 -> Ints] :
        IsMore(h, c, K) /\ \A pos, n : HpackVarint(c, pos, n) = ReadInt(h, c, K, pos, n)
  BY <1>1, MoreExists
<1> DEFINE P == {k \in 0 .. K : h[k + 1] = None \/ h[k + 1] = f[k + 1]}
<1>4. K \in P
  <2>1. K + 1 \in 1 .. K + 1 /\ K + 1 > K
    BY <1>1
  <2>2. h[K + 1] = None
    BY <1>3, <2>1 DEF IsMore
  <2> QED BY <1>1, <2>2
<1>5. ASSUME NEW k \in 1 .. K, k \in P PROVE k - 1 \in P
  <2>1. k \in 1 .. N
    BY <1>1
  <2>2. PICK byte : byte = c[k] /\ byte = b[k]
    BY <1>1
  <2>3. h[k] = ReadByte(byte, h[k + 1], k)
    <3>1. K \in Nat /\ IsMore(h, c, K)
      BY <1>1, <1>3
    <3>2. h[k] = ReadByte(c[k], h[k + 1], k)
      BY <3>1, MoreStep
    <3> QED BY <2>2, <3>2
  <2>4. f[k] = ReadByte(byte, f[k + 1], k)
    <3>1. N \in Nat /\ IsMore(f, b, N)
      BY <1>1, <1>2
    <3>2. f[k] = ReadByte(b[k], f[k + 1], k)
      BY <2>1, <3>1, MoreStep
    <3> QED BY <2>2, <3>2
  <2>5. h[k + 1] = None \/ h[k + 1] = f[k + 1]
    BY <1>5
  <2>6. h[k] = None \/ h[k] = f[k]
    BY <2>3, <2>4, <2>5 DEF ReadByte
  <2> QED BY <1>1, <2>6
<1>6. 0 .. K \subseteq P
  <2> HIDE DEF P
  <2> QED BY <1>1, <1>4, <1>5, DownFrom
<1>7. CASE p > K
  BY <1>3, <1>7 DEF ReadInt
<1>8. CASE p \in 1 .. K
  <2>1. h[p + 1] = None \/ h[p + 1] = f[p + 1]
    <3>1. p \in P
      <4>1. p \in 0 .. K
        BY <1>1, <1>8
      <4> HIDE DEF P
      <4> QED BY <1>6, <4>1
    <3> QED BY <3>1
  <2>2. PICK byte : byte = c[p] /\ byte = b[p]
    BY <1>1, <1>8
  <2>3. ~ (p > K) /\ ~ (p > N)
    BY <1>1, <1>8
  <2>4. ReadInt(h, c, K, p, bits) \in {None, ReadInt(f, b, N, p, bits)}
    BY <2>1, <2>2, <2>3 DEF ReadInt
  <2> QED BY <1>2, <1>3, <2>4
<1> QED BY <1>1, <1>7, <1>8

LEMMA SkipCut ==
  ASSUME NEW b, NEW N, NEW K, NEW c, CutAt(c, b, N, K), NEW p \in Nat \ {0}
  PROVE  HpackSkipString(c, p) \in {None, HpackSkipString(b, p)}
<1>1. PICK r : r = HpackVarint(b, p, 7)
  OBVIOUS
<1>2. PICK s : s = HpackVarint(c, p, 7)
  OBVIOUS
<1>3. s = None \/ s = r
  BY <1>1, <1>2, VarintCut
<1>4. HpackSkipString(b, p) = IF r = None THEN None ELSE r.next + r.value
  BY <1>1 DEF HpackSkipString
<1>5. HpackSkipString(c, p) = IF s = None THEN None ELSE s.next + s.value
  BY <1>2 DEF HpackSkipString
<1> QED BY <1>3, <1>4, <1>5

LEMMA EndCut ==
  ASSUME NEW b, NEW N, NEW K, NEW c, CutAt(c, b, N, K), NEW p \in 1 .. K
  PROVE  c[p] = b[p] /\ HpackEnd(c, p) \in {None, HpackEnd(b, p)}
<1>0. /\ b \in Seq(Nat) /\ N \in Nat /\ N = Len(b) /\ K \in Nat /\ K \in 0 .. N
      /\ c \in Seq(Nat) /\ K = Len(c) /\ \A i \in 1 .. K : c[i] = b[i]
  BY CutIs
<1>1. /\ c \in Seq(Nat) /\ Len(c) = K /\ c[p] = b[p] /\ p \in 1 .. N /\ p \in Nat \ {0}
      /\ b \in Seq(Nat) /\ N \in Nat /\ N = Len(b)
  BY <1>0
<1>2. PICK kind : kind = HpackKind(b[p])
  OBVIOUS
<1>3. PICK bits \in Bits : kind = HpackKind(c[p]) /\ kind = HpackKind(b[p]) /\ bits = HpackBits(kind)
  BY <1>1, <1>2, KindBits
<1>4. PICK index : index = HpackVarint(b, p, bits)
  OBVIOUS
<1>5. PICK index_ : index_ = HpackVarint(c, p, bits)
  OBVIOUS
<1>6. index_ = None \/ index_ = index
  BY <1>1, <1>4, <1>5, VarintCut
<1>7. index = None \/ index.next \in p + 1 .. N + 1
  BY <1>1, <1>4, VarintType
<1> DEFINE Name(s, i) == IF i = None THEN None
                         ELSE IF i.value = 0 THEN HpackSkipString(s, i.next) ELSE i.next
           End(s, i, n) == IF i = None THEN None
                           ELSE IF kind \in {"indexed", "size"} THEN i.next
                           ELSE IF n = None THEN None ELSE HpackSkipString(s, n)
<1>8. HpackEnd(b, p) = End(b, index, Name(b, index))
  BY <1>3, <1>4 DEF HpackEnd
<1>9. HpackEnd(c, p) = End(c, index_, Name(c, index_))
  BY <1>3, <1>5 DEF HpackEnd
<1>10. CASE index_ = None
  BY <1>1, <1>9, <1>10
<1>11. CASE index_ # None
  <2>1. index_ = index /\ index # None
    BY <1>6, <1>11
  <2>2. PICK q \in Nat \ {0} : q = index.next
    BY <1>1, <1>7, <2>1
  <2>3. HpackSkipString(c, q) \in {None, HpackSkipString(b, q)}
    BY SkipCut
  <2>4. HpackSkipString(b, q) = None \/ HpackSkipString(b, q) \in Nat \ {0}
    BY <1>1, SkipType
  <2>5. PICK n : n = Name(b, index)
    OBVIOUS
  <2>6. PICK m : m = Name(c, index)
    OBVIOUS
  <2>7. (m = None \/ m = n) /\ (n = None \/ n \in Nat \ {0})
    BY <2>1, <2>2, <2>3, <2>4, <2>5, <2>6
  <2> HIDE DEF Name
  <2>8. m # None => HpackSkipString(c, m) \in {None, HpackSkipString(b, m)}
    BY <2>7, SkipCut
  <2>9. End(c, index, m) \in {None, End(b, index, n)}
    BY <2>1, <2>7, <2>8
  <2> QED BY <1>1, <1>8, <1>9, <2>1, <2>5, <2>6, <2>9
<1> QED BY <1>10, <1>11

-----------------------------------------------------------------------------
(* The representations of a block                                          *)

Kinds == {"indexed", "size", "incremental", "never", "without"}
Found(kind) == IF kind = "size" THEN <<>> ELSE <<kind>>

\* The values of the function From of HpackRepresentations.
IsFrom(f, b, N) ==
    \A p \in 1 .. N + 1 :
        f[p] = IF p > N \/ HpackEnd(b, p) = None THEN <<>>
               ELSE Found(HpackKind(b[p])) \o f[Least(HpackEnd(b, p), N + 1)]

LEMMA FromExists ==
  ASSUME NEW b \in Seq(Nat), NEW N \in Nat, N = Len(b)
  PROVE  \E f \in [1 .. N + 1 -> Seq(Kinds)] :
            IsFrom(f, b, N) /\ HpackRepresentations(b) = f[1]
<1> DEFINE S == 1 .. N + 1
           D == Seq(Kinds)
           Value(p, f) ==
              IF p > N \/ HpackEnd(b, p) = None THEN <<>>
              ELSE (IF HpackKind(b[p]) = "size" THEN <<>> ELSE <<HpackKind(b[p])>>)
                      \o f[Least(HpackEnd(b, p), N + 1)]
           Eq(f) == f = [p \in S |-> Value(p, f)]
           From == CHOOSE f : Eq(f)
           G == [x \in S \X [S -> D] |-> Value(x[1], x[2])]
           rank == [p \in S |-> N + 1 - p]
<1>1. HpackRepresentations(b) = From[1]
  BY DEF HpackRepresentations
<1>2. ASSUME NEW p \in S, ~ (p > N), HpackEnd(b, p) # None
      PROVE  Least(HpackEnd(b, p), N + 1) \in p + 1 .. N + 1
  <2>1. HpackEnd(b, p) \in Nat /\ HpackEnd(b, p) > p
    BY <1>2, EndType
  <2> QED BY <1>2, <2>1 DEF Least
<1>3. ASSUME NEW kind \in Kinds PROVE Found(kind) \in D
  BY DEF Found
<1>4. ASSUME NEW p \in S, NEW f \in [S -> D] PROVE Value(p, f) \in D
  <2>1. CASE p > N \/ HpackEnd(b, p) = None
    BY <2>1
  <2>2. CASE ~ (p > N) /\ HpackEnd(b, p) # None
    <3>1. PICK q \in S : q = Least(HpackEnd(b, p), N + 1)
      BY <1>2, <2>2
    <3>2. PICK kind \in Kinds : kind = HpackKind(b[p])
      BY KindBits DEF Kinds
    <3>3. PICK rest \in D : rest = f[q]
      OBVIOUS
    <3>4. Value(p, f) = Found(kind) \o rest
      BY <2>2, <3>1, <3>2, <3>3 DEF Found
    <3>5. PICK x \in D : x = Found(kind)
      BY <1>3
    <3>6. x \o rest \in D
      BY ConcatProperties
    <3> QED BY <3>4, <3>5, <3>6
  <2> QED BY <2>1, <2>2
<1>5. ASSUME NEW p \in S, NEW f \in [S -> D], NEW h \in [S -> D],
             \A q \in S : rank[q] < rank[p] => f[q] = h[q]
      PROVE  Value(p, f) = Value(p, h)
  <2>1. CASE p > N \/ HpackEnd(b, p) = None
    BY <2>1
  <2>2. CASE ~ (p > N) /\ HpackEnd(b, p) # None
    <3>1. PICK q : q = Least(HpackEnd(b, p), N + 1)
      OBVIOUS
    <3>2. q \in p + 1 .. N + 1
      BY <1>2, <2>2, <3>1
    <3>3. q \in S /\ rank[q] < rank[p]
      BY <3>2
    <3>4. f[q] = h[q]
      BY <1>5, <3>3
    <3> QED BY <3>1, <3>4
  <2> QED BY <2>1, <2>2
<1>6. \A p \in S, f \in [S -> D] : G[<<p, f>>] = Value(p, f)
  <2> HIDE DEF Value, S, D
  <2> QED OBVIOUS
<1>7. \E f \in [S -> D] : \A p \in S : f[p] = G[<<p, f>>]
  <2>1. G \in [S \X [S -> D] -> D]
    <3> HIDE DEF Value, S, D
    <3> QED BY <1>4
  <2>2. rank \in [S -> 0 .. N] /\ D # {}
    <3>1. \A p \in S : N + 1 - p \in 0 .. N
      OBVIOUS
    <3>2. <<>> \in D
      BY EmptySeq
    <3> HIDE DEF S, D
    <3> QED BY <3>1, <3>2
  <2>3. PICK g : g = G
    OBVIOUS
  <2>4. PICK r : r = rank
    OBVIOUS
  <2>5. \A p \in S : \A f, h \in [S -> D] :
            (\A q \in S : r[q] < r[p] => f[q] = h[q]) => g[<<p, f>>] = g[<<p, h>>]
    <3> HIDE DEF G, S, D, Value, rank
    <3> QED BY <1>5, <1>6, <2>3, <2>4
  <2> HIDE DEF G, rank, S, D
  <2>6. IsRecursion(S, D, N, r, g)
    BY <2>1, <2>2, <2>3, <2>4, <2>5 DEF IsRecursion
  <2>7. \E f \in [S -> D] : \A p \in S : f[p] = g[<<p, f>>]
    BY <2>6, RecursionExists
  <2> QED BY <2>3, <2>7
<1>8. \E f : Eq(f)
  <2>1. PICK f \in [S -> D] : \A p \in S : f[p] = G[<<p, f>>]
    BY <1>7
  <2> HIDE DEF G, Value, S, D
  <2> QED BY <1>6, <2>1
<1>9. Eq(From)
  <2> HIDE DEF Eq
  <2> QED BY <1>8
<1> HIDE DEF From
<1>10. IsFrom(From, b, N)
  <2>1. ASSUME NEW p \in S PROVE From[p] = Value(p, From)
    <3> HIDE DEF Value
    <3> QED BY <1>9
  <2> QED BY <2>1 DEF IsFrom, Found
<1>11. From \in [S -> D]
  <2>1. ASSUME NEW p \in S, \A q \in p + 1 .. N + 1 : From[q] \in D PROVE From[p] \in D
    <3>1. PICK h : h = [q \in S |-> IF q > p THEN From[q] ELSE <<>>]
      OBVIOUS
    <3>2. h \in [S -> D]
      <4>1. ASSUME NEW q \in S PROVE (IF q > p THEN From[q] ELSE <<>>) \in D
        BY <2>1
      <4> HIDE DEF S, D
      <4> QED BY <3>1, <4>1
    <3>3. Value(p, h) = Value(p, From)
      <4>1. CASE p > N \/ HpackEnd(b, p) = None
        BY <4>1
      <4>2. CASE ~ (p > N) /\ HpackEnd(b, p) # None
        <5>1. PICK q : q = Least(HpackEnd(b, p), N + 1)
          OBVIOUS
        <5>2. q \in S /\ q > p
          BY <1>2, <4>2, <5>1
        <5>3. h[q] = From[q]
          BY <3>1, <5>2
        <5> QED BY <5>1, <5>3
      <4> QED BY <4>1, <4>2
    <3>4. Value(p, h) \in D
      BY <1>4, <3>2
    <3>5. From[p] = Value(p, From)
      <4> HIDE DEF Value
      <4> QED BY <1>9
    <3> HIDE DEF Value
    <3> QED BY <3>3, <3>4, <3>5
  <2>2. \A p \in S : From[p] \in D
    <3> DEFINE P == {p \in S : From[p] \in D}
    <3>1. \A p \in S : (\A q \in p + 1 .. N + 1 : q \in P) => p \in P
      BY <2>1
    <3>2. PICK M \in Nat : M = N + 1
      OBVIOUS
    <3>3. 1 .. M \subseteq P
      <4> HIDE DEF P
      <4> QED BY <3>1, <3>2, AllAbove
    <3> QED BY <3>2, <3>3
  <2>3. From = [p \in S |-> From[p]]
    <3> HIDE DEF Value, S
    <3> QED BY <1>9
  <2> HIDE DEF S, D
  <2> QED BY <2>2, <2>3
<1> QED BY <1>1, <1>10, <1>11

LEMMA LeastIn ==
  ASSUME NEW end \in Nat, NEW p \in Nat, end > p, NEW N \in Nat
  PROVE  Least(end, N + 1) \in 1 .. N + 1
  BY DEF Least

\* A block cut short yields the first representations of the block, if any.
LEMMA RepresentationsCut ==
  ASSUME NEW b, NEW N, NEW K, NEW c, CutAt(c, b, N, K)
  PROVE  IsPrefix(HpackRepresentations(c), HpackRepresentations(b))
<1>1. /\ b \in Seq(Nat) /\ N \in Nat /\ N = Len(b) /\ K \in Nat /\ K \in 0 .. N
      /\ c \in Seq(Nat) /\ K = Len(c) /\ \A i \in 1 .. K : c[i] = b[i]
  BY CutIs
<1>2. PICK f \in [1 .. N + 1 -> Seq(Kinds)] : IsFrom(f, b, N) /\ HpackRepresentations(b) = f[1]
  BY <1>1, FromExists
<1>3. PICK h \in [1 .. K + 1 -> Seq(Kinds)] : IsFrom(h, c, K) /\ HpackRepresentations(c) = h[1]
  BY <1>1, FromExists
<1>4. PICK M \in Nat : M = K + 1
  BY <1>1
<1>5. ASSUME NEW s \in Seq(Kinds) PROVE IsPrefix(<<>>, s)
  BY EmptyPrefix
<1> DEFINE P == {p \in 1 .. M : IsPrefix(h[p], f[p])}
<1>6. ASSUME NEW p \in 1 .. M, \A q \in p + 1 .. M : q \in P PROVE p \in P
  <2>1. p \in 1 .. N + 1 /\ f[p] \in Seq(Kinds)
    <3>1. p \in 1 .. N + 1
      BY <1>1, <1>4
    <3> QED BY <3>1
  <2>2. CASE p > K \/ HpackEnd(c, p) = None
    <3>1. h[p] = <<>>
      BY <1>3, <1>4, <2>2 DEF IsFrom
    <3>2. PICK y \in Seq(Kinds) : y = f[p]
      BY <2>1
    <3>3. IsPrefix(<<>>, y)
      BY <1>5
    <3>4. IsPrefix(h[p], f[p])
      BY <3>1, <3>2, <3>3
    <3> QED BY <3>4
  <2>3. CASE ~ (p > K) /\ HpackEnd(c, p) # None
    <3>1. p \in 1 .. K /\ p \in 1 .. N
      BY <1>1, <1>4, <2>3
    <3>2. c[p] = b[p] /\ HpackEnd(c, p) = HpackEnd(b, p) /\ HpackEnd(b, p) # None
      BY <2>3, <3>1, EndCut
    <3>3. PICK end \in Nat : end = HpackEnd(b, p) /\ end = HpackEnd(c, p) /\ end > p
      BY <1>1, <3>1, <3>2, EndType
    <3>4. PICK found : found = Found(HpackKind(b[p]))
      OBVIOUS
    <3>5. found \in Seq(Kinds)
      <4>1. PICK kind \in Kinds : kind = HpackKind(b[p])
        BY KindBits DEF Kinds
      <4>2. found = <<>> \/ found = <<kind>>
        BY <3>4, <4>1 DEF Found
      <4>3. <<>> \in Seq(Kinds) /\ <<kind>> \in Seq(Kinds)
        BY EmptySeq
      <4> QED BY <4>2, <4>3
    <3>6. h[p] = found \o h[Least(end, K + 1)]
      BY <1>3, <1>4, <2>3, <3>2, <3>3, <3>4 DEF IsFrom
    <3>7. f[p] = found \o f[Least(end, N + 1)]
      <4>1. ~ (p > N)
        BY <1>1, <3>1
      <4> QED BY <1>2, <2>1, <3>2, <3>3, <3>4, <4>1 DEF IsFrom
    <3>8. PICK q \in 1 .. K + 1 : q = Least(end, K + 1)
      <4>1. p \in Nat
        OBVIOUS
      <4> QED BY <1>1, <3>3, <4>1, LeastIn
    <3>9. PICK r \in 1 .. N + 1 : r = Least(end, N + 1)
      <4>1. p \in Nat
        OBVIOUS
      <4> QED BY <1>1, <3>3, <4>1, LeastIn
    <3>10. PICK s \in Seq(Kinds), t \in Seq(Kinds) : s = h[q] /\ t = f[r]
      OBVIOUS
    <3>11. IsPrefix(s, t)
      <4>1. CASE end <= K
        <5>1. q = end /\ r = end
          BY <1>1, <3>3, <3>8, <3>9, <4>1 DEF Least
        <5>2. q \in p + 1 .. M
          BY <1>1, <1>4, <3>3, <4>1, <5>1
        <5>3. IsPrefix(h[q], f[q])
          BY <1>6, <5>2
        <5> QED BY <3>10, <5>1, <5>3
      <4>2. CASE end > K
        <5>1. q = K + 1 /\ q > K
          BY <1>1, <3>3, <3>8, <4>2 DEF Least
        <5>2. h[q] = <<>>
          BY <1>3, <5>1 DEF IsFrom
        <5> QED BY <1>5, <3>10, <5>2
      <4> QED BY <1>1, <3>3, <4>1, <4>2
    <3>12. IsPrefix(found \o s, found \o t)
      BY <3>5, <3>11, PrefixBehind
    <3> QED BY <3>6, <3>7, <3>8, <3>9, <3>10, <3>12
  <2> QED BY <2>2, <2>3
<1>7. 1 .. M \subseteq P
  <2> HIDE DEF P
  <2> QED BY <1>6, AllAbove
<1>8. 1 \in P
  BY <1>1, <1>4, <1>7
<1> QED BY <1>2, <1>3, <1>8

-----------------------------------------------------------------------------
(* What is encoded, read back                                              *)

\* The bytes e are those of b from p on.
BytesAt(b, p, e) ==
    /\ p \in Nat \ {0} /\ p + Len(e) <= Len(b) + 1
    /\ \A j \in 1 .. Len(e) : b[p + j - 1] = e[j]

LEMMA AtBoth ==
  ASSUME NEW b \in Seq(Nat), NEW e \in Seq(Nat), NEW g \in Seq(Nat), NEW p, BytesAt(b, p, e \o g)
  PROVE  BytesAt(b, p, e) /\ BytesAt(b, p + Len(e), g)
<1>1. PICK N \in Nat, L \in Nat, M \in Nat : N = Len(b) /\ L = Len(e) /\ M = Len(g)
  BY LenProperties
<1>2. PICK u : u = e \o g
  OBVIOUS
<1>3. /\ u \in Seq(Nat) /\ Len(u) = L + M
      /\ \A i \in 1 .. L + M : u[i] = IF i <= L THEN e[i] ELSE g[i - L]
  BY <1>1, <1>2, ConcatProperties
<1>4. p \in Nat \ {0} /\ p + (L + M) <= N + 1 /\ \A j \in 1 .. L + M : b[p + j - 1] = u[j]
  BY <1>1, <1>2, <1>3 DEF BytesAt
<1>5. ASSUME NEW j \in 1 .. L PROVE b[p + j - 1] = e[j]
  <2>1. j \in 1 .. L + M /\ j <= L
    OBVIOUS
  <2>2. u[j] = e[j]
    BY <1>3, <2>1
  <2> QED BY <1>4, <2>1, <2>2
<1>6. ASSUME NEW j \in 1 .. M PROVE b[p + L + j - 1] = g[j]
  <2>1. PICK i \in 1 .. L + M : i = L + j /\ ~ (i <= L) /\ i - L = j /\ p + L + j - 1 = p + i - 1
    BY <1>4
  <2>2. u[i] = g[j]
    BY <1>3, <2>1
  <2> QED BY <1>4, <2>1, <2>2
<1>7. p + L <= N + 1 /\ p + L + M <= N + 1 /\ p + L \in Nat \ {0}
  BY <1>4
<1> QED BY <1>1, <1>4, <1>5, <1>6, <1>7 DEF BytesAt

LEMMA AtFirst ==
  ASSUME NEW b \in Seq(Nat), NEW N \in Nat, N = Len(b), NEW e \in Seq(Nat), NEW p, BytesAt(b, p, e),
         e # <<>>
  PROVE  p \in 1 .. N /\ b[p] = e[1]
<1>1. PICK L \in Nat : L = Len(e) /\ L > 0
  BY LenProperties, EmptySeq
<1>2. p \in Nat \ {0} /\ p + L <= N + 1 /\ \A j \in 1 .. L : b[p + j - 1] = e[j]
  BY <1>1 DEF BytesAt
<1>3. 1 \in 1 .. L /\ p + 1 - 1 = p
  BY <1>1, <1>2
<1> QED BY <1>1, <1>2, <1>3

LEMMA OneByte == ASSUME NEW n \in Nat PROVE <<n>> \in Seq(Nat) /\ Len(<<n>>) = 1 /\ <<n>>[1] = n
  OBVIOUS

LEMMA ByteAnd ==
  ASSUME NEW n \in Nat, NEW g \in Seq(Nat), NEW u, u = <<n>> \o g
  PROVE  u \in Seq(Nat) /\ Len(u) = 1 + Len(g) /\ u # <<>> /\ u[1] = n
<1>1. PICK e \in Seq(Nat) : e = <<n>> /\ Len(e) = 1 /\ e[1] = n
  BY OneByte
<1>2. PICK M \in Nat : M = Len(g)
  BY LenProperties
<1>3. /\ u \in Seq(Nat) /\ Len(u) = 1 + M
      /\ \A i \in 1 .. 1 + M : u[i] = IF i <= 1 THEN e[i] ELSE g[i - 1]
  BY <1>1, <1>2, ConcatProperties
<1>4. 1 \in 1 .. 1 + M /\ 1 + M # 0
  OBVIOUS
<1>5. u[1] = e[1]
  BY <1>3, <1>4
<1> QED BY <1>1, <1>2, <1>3, <1>4, <1>5, EmptySeq

\* The bytes behind the first one of an integer.
IsRest(r, value) ==
    \A n \in 0 .. value :
        r[n] = IF n < 128 THEN <<n>> ELSE <<128 + (n % 128)>> \o r[n \div 128]

LEMMA RestExists ==
  ASSUME NEW value \in Nat
  PROVE  \E r \in [0 .. value -> Seq(Nat)] :
            /\ IsRest(r, value)
            /\ \A bits, pattern :
                  EncodedInt(value, bits, pattern) =
                     IF value < 2 ^ bits - 1 THEN <<pattern + value>>
                     ELSE <<pattern + (2 ^ bits - 1)>> \o r[value - (2 ^ bits - 1)]
<1> DEFINE S == 0 .. value
           D == Seq(Nat)
           Value(n, f) == IF n < 128 THEN <<n>> ELSE <<128 + (n % 128)>> \o f[n \div 128]
           Eq(f) == f = [n \in S |-> Value(n, f)]
           Rest == CHOOSE f : Eq(f)
           G == [x \in S \X [S -> D] |-> Value(x[1], x[2])]
           rank == [n \in S |-> n]
<1>1. ASSUME NEW bits, NEW pattern
      PROVE  EncodedInt(value, bits, pattern) =
                IF value < 2 ^ bits - 1 THEN <<pattern + value>>
                ELSE <<pattern + (2 ^ bits - 1)>> \o Rest[value - (2 ^ bits - 1)]
  BY DEF EncodedInt
<1>2. ASSUME NEW n \in S, ~ (n < 128) PROVE n \div 128 \in S /\ n \div 128 < n /\ n % 128 \in Nat
  BY <1>2
<1>3. ASSUME NEW n \in S, NEW f \in [S -> D] PROVE Value(n, f) \in D
  <2>1. CASE n < 128
    BY <2>1
  <2>2. CASE ~ (n < 128)
    <3>1. PICK q \in S, c \in Nat : q = n \div 128 /\ c = 128 + (n % 128)
      BY <1>2, <2>2
    <3>2. PICK g \in D : g = f[q]
      OBVIOUS
    <3>3. <<c>> \o g \in D
      BY ByteAnd
    <3> QED BY <2>2, <3>1, <3>2, <3>3
  <2> QED BY <2>1, <2>2
<1>4. ASSUME NEW n \in S, NEW f \in [S -> D], NEW h \in [S -> D],
             \A q \in S : rank[q] < rank[n] => f[q] = h[q]
      PROVE  Value(n, f) = Value(n, h)
  <2>1. CASE n < 128
    BY <2>1
  <2>2. CASE ~ (n < 128)
    <3>1. n \div 128 \in S /\ rank[n \div 128] < rank[n]
      BY <1>2, <2>2
    <3>2. f[n \div 128] = h[n \div 128]
      BY <1>4, <3>1
    <3> QED BY <3>2
  <2> QED BY <2>1, <2>2
<1>5. \A n \in S, f \in [S -> D] : G[<<n, f>>] = Value(n, f)
  <2> HIDE DEF Value, S, D
  <2> QED OBVIOUS
<1>6. \E f \in [S -> D] : \A n \in S : f[n] = G[<<n, f>>]
  <2>1. G \in [S \X [S -> D] -> D]
    <3> HIDE DEF Value, S, D
    <3> QED BY <1>3
  <2>2. rank \in [S -> 0 .. value] /\ D # {}
    BY EmptySeq
  <2>3. PICK g : g = G
    OBVIOUS
  <2>4. PICK r : r = rank
    OBVIOUS
  <2>5. \A n \in S : \A f, h \in [S -> D] :
            (\A q \in S : r[q] < r[n] => f[q] = h[q]) => g[<<n, f>>] = g[<<n, h>>]
    <3> HIDE DEF G, S, D, Value, rank
    <3> QED BY <1>4, <1>5, <2>3, <2>4
  <2> HIDE DEF G, rank, S, D
  <2>6. IsRecursion(S, D, value, r, g)
    BY <2>1, <2>2, <2>3, <2>4, <2>5 DEF IsRecursion
  <2>7. \E f \in [S -> D] : \A n \in S : f[n] = g[<<n, f>>]
    BY <2>6, RecursionExists
  <2> QED BY <2>3, <2>7
<1>7. PICK f \in [S -> D] : Eq(f)
  <2>1. PICK f \in [S -> D] : \A n \in S : f[n] = G[<<n, f>>]
    BY <1>6
  <2> HIDE DEF G, Value, S, D
  <2> QED BY <1>5, <2>1
<1>8. Eq(Rest)
  <2> HIDE DEF Eq
  <2> QED BY <1>7
<1> HIDE DEF Rest
<1>9. IsRest(Rest, value)
  BY <1>8 DEF IsRest
<1>10. Rest \in [S -> D]
  <2> DEFINE P == {n \in S : Rest[n] \in D}
  <2>1. ASSUME NEW n \in 0 .. value, \A m \in 0 .. n - 1 : m \in P PROVE n \in P
    <3>1. Rest[n] = Value(n, Rest)
      <4> HIDE DEF Value
      <4> QED BY <1>8
    <3>2. CASE n < 128
      <4>1. <<n>> \in D
        BY OneByte
      <4>2. Rest[n] \in D
        BY <3>1, <3>2, <4>1
      <4> QED BY <4>2
    <3>3. CASE ~ (n < 128)
      <4>1. PICK q \in S, c \in Nat : q = n \div 128 /\ c = 128 + (n % 128) /\ q \in 0 .. n - 1
        BY <1>2, <3>3
      <4>2. PICK g \in D : g = Rest[q]
        BY <2>1, <4>1
      <4>3. <<c>> \o g \in D
        BY ByteAnd
      <4>4. Rest[n] \in D
        BY <3>1, <3>3, <4>1, <4>2, <4>3
      <4> QED BY <4>4
    <3> QED BY <3>2, <3>3
  <2>2. 0 .. value \subseteq P
    <3> HIDE DEF P
    <3> QED BY <2>1, AllBelow
  <2>3. Rest = [n \in S |-> Rest[n]]
    <3> HIDE DEF Value, S
    <3> QED BY <1>8
  <2>4. \A n \in S : Rest[n] \in D
    BY <2>2
  <2> HIDE DEF S, D
  <2> QED BY <2>3, <2>4
<1> QED BY <1>1, <1>9, <1>10

LEMMA LowBits == ASSUME NEW c \in 0 .. 127 PROVE (128 + c) % 128 = c
  OBVIOUS

LEMMA LowPart ==
  ASSUME NEW m \in Nat \ {0}, NEW k \in Nat, NEW low \in 0 .. m - 1, NEW byte, byte = m * k + low
  PROVE  byte % m = low
<1>1. (m * k + low) % m = low
  BY DivUnique
<1> QED BY <1>1

LEMMA NextPlace ==
  ASSUME NEW p \in Nat \ {0}, NEW L \in Nat, NEW x, x = p + 1 + L, NEW y, y = 1 + L
  PROVE  x = p + y /\ x \in Nat \ {0}
  OBVIOUS

\* The functions that read and write the bytes behind the first one.
Reading(b, N, f, value, r) ==
    /\ b \in Seq(Nat) /\ N \in Nat /\ N = Len(b)
    /\ f \in [1 .. N + 1 -> Ints] /\ IsMore(f, b, N)
    /\ value \in Nat /\ r \in [0 .. value -> Seq(Nat)] /\ IsRest(r, value)

\* The bytes e at p are read as n.
Reads(f, p, n, e) == p + Len(e) \in Nat /\ f[p] = [value |-> n, next |-> p + Len(e)]

LEMMA RestRead ==
  ASSUME NEW b, NEW N, NEW f, NEW value, NEW r, Reading(b, N, f, value, r)
  PROVE  \A n \in 0 .. value : \A p : BytesAt(b, p, r[n]) => Reads(f, p, n, r[n])
<1>0. /\ b \in Seq(Nat) /\ N \in Nat /\ N = Len(b)
      /\ f \in [1 .. N + 1 -> Ints] /\ IsMore(f, b, N)
      /\ value \in Nat /\ r \in [0 .. value -> Seq(Nat)] /\ IsRest(r, value)
  BY DEF Reading
<1> USE <1>0
<1> DEFINE Read(k, q) == Reads(f, q, k, r[k])
           P == {k \in 0 .. value : \A q : BytesAt(b, q, r[k]) => Read(k, q)}
<1>1. ASSUME NEW k \in 0 .. value, \A m \in 0 .. k - 1 : m \in P PROVE k \in P
  <2> SUFFICES ASSUME NEW q, BytesAt(b, q, r[k]) PROVE Read(k, q)
    OBVIOUS
  <2>0. k \in Nat
    OBVIOUS
  <2>1. CASE k < 128
    <3>1. PICK e \in Seq(Nat) : e = <<k>> /\ Len(e) = 1 /\ e[1] = k
      BY <2>0, OneByte
    <3>2. r[k] = e
      BY <2>1, <3>1 DEF IsRest
    <3>3. e # <<>>
      BY <3>1, EmptySeq
    <3>4. q \in 1 .. N /\ b[q] = k
      <4>1. BytesAt(b, q, e)
        BY <3>2
      <4>2. q \in 1 .. N /\ b[q] = e[1]
        BY <3>3, <4>1, AtFirst
      <4> QED BY <3>1, <4>2
    <3>5. q \in 1 .. N + 1 /\ ~ (q > N) /\ q + 1 \in Nat
      BY <3>4
    <3>6. f[q] = [value |-> k, next |-> q + 1]
      BY <2>1, <3>4, <3>5 DEF IsMore, ReadByte
    <3> QED BY <3>1, <3>2, <3>5, <3>6 DEF Reads
  <2>2. CASE ~ (k < 128)
    <3>1. PICK d \in Nat, c \in 0 .. 127 : d = k \div 128 /\ c = k % 128 /\ k = 128 * d + c
      <4>1. 128 \in Nat \ {0}
        OBVIOUS
      <4>2. k = 128 * (k \div 128) + (k % 128) /\ k % 128 \in 0 .. 128 - 1 /\ k \div 128 \in Nat
        BY <2>0, <4>1, DivMod
      <4>3. PICK d \in Nat : d = k \div 128
        BY <4>2
      <4>4. PICK c \in 0 .. 127 : c = k % 128
        BY <4>2
      <4>5. k = 128 * d + c
        BY <4>2, <4>3, <4>4
      <4> QED BY <4>3, <4>4, <4>5
    <3>2. d \in 0 .. value /\ d \in 0 .. k - 1
      BY <2>2, <3>1
    <3>3. PICK g \in Seq(Nat) : g = r[d]
      BY <3>2
    <3>4. PICK e \in Seq(Nat) : e = <<128 + c>> /\ Len(e) = 1 /\ e[1] = 128 + c
      <4>1. PICK byte \in Nat : byte = 128 + c
        OBVIOUS
      <4> QED BY <4>1, OneByte
    <3>5. r[k] = e \o g
      <4>1. r[k] = <<128 + (k % 128)>> \o r[k \div 128]
        BY <2>2 DEF IsRest
      <4> QED BY <3>1, <3>3, <3>4, <4>1
    <3>6. BytesAt(b, q, e) /\ BytesAt(b, q + 1, g)
      <4>1. BytesAt(b, q, e \o g)
        BY <3>5
      <4>2. BytesAt(b, q, e) /\ BytesAt(b, q + Len(e), g)
        BY <4>1, AtBoth
      <4> QED BY <3>4, <4>2
    <3>7. e # <<>>
      BY <3>4, EmptySeq
    <3>8. q \in 1 .. N /\ b[q] = 128 + c
      <4>1. q \in 1 .. N /\ b[q] = e[1]
        BY <3>6, <3>7, AtFirst
      <4> QED BY <3>4, <4>1
    <3>9. Read(d, q + 1)
      BY <1>1, <3>2, <3>3, <3>6
    <3>10. PICK end \in Nat : end = q + 1 + Len(g) /\ f[q + 1] = [value |-> d, next |-> end]
      BY <3>3, <3>9 DEF Reads
    <3>11. f[q + 1] # None /\ f[q + 1].value = d /\ f[q + 1].next = end
      <4>1. f[q + 1] \in [value : Nat, next : Nat]
        BY <3>10
      <4> QED BY <3>10, <4>1, ConversionInputs
    <3>12. b[q] % 128 = c /\ ~ (b[q] < 128)
      <4>1. (128 + c) % 128 = c
        BY LowBits
      <4> QED BY <3>8, <4>1
    <3>13. q \in 1 .. N + 1 /\ ~ (q > N)
      BY <3>8
    <3>14. f[q] = [value |-> c + 128 * d, next |-> end]
      <4>1. f[q] = ReadByte(b[q], f[q + 1], q)
        BY <3>13 DEF IsMore
      <4> QED BY <3>11, <3>12, <4>1 DEF ReadByte
    <3>15. c + 128 * d = k
      BY <3>1
    <3>16. Len(e \o g) = 1 + Len(g) /\ q + (1 + Len(g)) = end
      <4>1. Len(e \o g) = 1 + Len(g)
        BY <3>4, ConcatProperties
      <4>2. Len(g) \in Nat
        BY LenProperties
      <4> QED BY <3>8, <3>10, <4>1, <4>2
    <3> QED BY <3>5, <3>13, <3>14, <3>15, <3>16 DEF Reads
  <2> QED BY <2>1, <2>2
<1>2. 0 .. value \subseteq P
  <2> HIDE DEF P
  <2> QED BY <1>1, AllBelow
<1> QED BY <1>0, <1>2

\* The bytes e at p are read as an integer, value.
VarintReads(b, p, bits, value, e) ==
    p + Len(e) \in Nat \ {0} /\ HpackVarint(b, p, bits) = [value |-> value, next |-> p + Len(e)]

LEMMA NotEmpty == ASSUME NEW e \in Seq(Nat), Len(e) = 1 PROVE e # <<>>
<1>1. CASE e = <<>>
  <2>1. Len(e) = 0
    BY <1>1
  <2> QED BY <2>1
<1> QED BY <1>1

\* A pattern of the bits above those of an integer.
IsAbove(pattern, bits) == bits \in Bits /\ \E k \in Nat : pattern = 2 ^ bits * k

\* The bytes of an integer.
IsInt(e, value, bits, pattern) ==
    value \in Nat /\ IsAbove(pattern, bits) /\ e = EncodedInt(value, bits, pattern)

StartsIn(e, bits, pattern) ==
    e \in Seq(Nat) /\ e # <<>> /\ \E low \in 0 .. 2 ^ bits - 1 : e[1] = pattern + low

\* An integer is read back, whatever the bits above it.
LEMMA IntRead ==
  ASSUME NEW b \in Seq(Nat), NEW value, NEW bits, NEW pattern, NEW e, IsInt(e, value, bits, pattern)
  PROVE  StartsIn(e, bits, pattern) /\ \A p : BytesAt(b, p, e) => VarintReads(b, p, bits, value, e)
<1>0. PICK k \in Nat : bits \in Bits /\ pattern = 2 ^ bits * k
  BY DEF IsInt, IsAbove
<1>a. value \in Nat
  BY DEF IsInt
<1>d. e = EncodedInt(value, bits, pattern)
  BY DEF IsInt
<1> USE <1>a
<1>1. PICK N \in Nat : N = Len(b)
  BY LenProperties
<1>2. PICK f \in [1 .. N + 1 -> Ints] :
        IsMore(f, b, N) /\ \A pos, n : HpackVarint(b, pos, n) = ReadInt(f, b, N, pos, n)
  BY <1>1, MoreExists
<1>3. PICK m \in Nat \ {0} : m = 2 ^ bits
  BY <1>0, PowersOfTwo
<1>4. PICK r \in [0 .. value -> Seq(Nat)] :
        /\ IsRest(r, value)
        /\ e = IF value < m - 1 THEN <<pattern + value>>
               ELSE <<pattern + (m - 1)>> \o r[value - (m - 1)]
  BY <1>3, <1>d, RestExists
<1>5. pattern = m * k
  BY <1>0, <1>3
<1>b. pattern \in Nat
  <2>1. m * k \in Nat
    OBVIOUS
  <2> QED BY <1>5, <2>1
<1>6. CASE value < m - 1
  <2>1. PICK byte \in Nat : byte = pattern + value
    BY <1>b
  <2>2. e \in Seq(Nat) /\ Len(e) = 1 /\ e[1] = byte
    BY <1>4, <1>6, <2>1, OneByte
  <2>3. e # <<>>
    BY <2>2, NotEmpty
  <2>4. value \in 0 .. m - 1
    BY <1>6
  <2>5. byte % m = value
    <3>1. byte = m * k + value
      BY <1>5, <2>1
    <3> QED BY <2>4, <3>1, LowPart
  <2>6. ASSUME NEW p, BytesAt(b, p, e)
        PROVE  VarintReads(b, p, bits, value, e)
    <3>1. p \in 1 .. N /\ b[p] = byte /\ ~ (p > N)
      BY <1>1, <2>2, <2>3, <2>6, AtFirst
    <3>2. IsWhole(value, m - 1)
      BY <1>6 DEF IsWhole
    <3>3. HpackVarint(b, p, bits) = [value |-> value, next |-> p + 1]
      BY <1>2, <1>3, <2>5, <3>1, <3>2 DEF ReadInt
    <3>4. p \in Nat \ {0} /\ 0 \in Nat /\ p + 1 = p + 1 + 0 /\ 1 = 1 + 0
      BY <3>1
    <3>5. p + 1 \in Nat \ {0}
      BY <3>4, NextPlace
    <3> QED BY <2>2, <3>3, <3>5 DEF VarintReads
  <2> QED BY <1>3, <2>1, <2>2, <2>3, <2>4, <2>6 DEF StartsIn
<1>7. CASE ~ (value < m - 1)
  <2>1. PICK rest \in 0 .. value : rest = value - (m - 1)
    BY <1>7
  <2>2. PICK byte \in Nat : byte = pattern + (m - 1)
    BY <1>b
  <2>3. PICK g \in Seq(Nat) : g = r[rest]
    OBVIOUS
  <2>4. PICK h \in Seq(Nat) : h = <<byte>> /\ Len(h) = 1 /\ h[1] = byte
    BY OneByte
  <2>5. e = h \o g
    BY <1>4, <1>7, <2>1, <2>2, <2>3, <2>4
  <2>6. e \in Seq(Nat) /\ Len(e) = 1 + Len(g) /\ e # <<>> /\ e[1] = byte
    BY <2>4, <2>5, ByteAnd
  <2>7. m - 1 \in 0 .. m - 1
    OBVIOUS
  <2>8. byte % m = m - 1
    <3>1. PICK low \in 0 .. m - 1 : low = m - 1
      BY <2>7
    <3>2. byte = m * k + low
      BY <1>5, <2>2, <3>1
    <3>3. byte % m = low
      BY <3>2, LowPart
    <3> QED BY <3>1, <3>3
  <2>9. ASSUME NEW p, BytesAt(b, p, e)
        PROVE  VarintReads(b, p, bits, value, e)
    <3>1. p \in 1 .. N /\ b[p] = byte /\ ~ (p > N)
      <4>1. e \in Seq(Nat) /\ e # <<>>
        BY <2>6
      <4>2. p \in 1 .. N /\ b[p] = e[1]
        BY <1>1, <2>9, <4>1, AtFirst
      <4> QED BY <2>6, <4>2
    <3>2. BytesAt(b, p + 1, g)
      <4>1. BytesAt(b, p, h \o g)
        BY <2>5, <2>9
      <4>2. BytesAt(b, p + Len(h), g)
        BY <4>1, AtBoth
      <4> QED BY <2>4, <4>2
    <3>3. p + 1 + Len(g) \in Nat /\ f[p + 1] = [value |-> rest, next |-> p + 1 + Len(g)]
      <4>1. PICK q : q = p + 1
        OBVIOUS
      <4>2. BytesAt(b, q, r[rest])
        BY <2>3, <3>2, <4>1
      <4>3. Reading(b, N, f, value, r)
        BY <1>1, <1>2, <1>4 DEF Reading
      <4>4. Reads(f, q, rest, r[rest])
        BY <4>2, <4>3, RestRead
      <4>5. q + Len(r[rest]) \in Nat /\ f[q] = [value |-> rest, next |-> q + Len(r[rest])]
        BY <4>4 DEF Reads
      <4> QED BY <2>3, <4>1, <4>5
    <3>4. PICK end \in Nat : end = p + 1 + Len(g)
      BY <3>3
    <3>5. f[p + 1] # None /\ f[p + 1].value = rest /\ f[p + 1].next = end
      <4>1. f[p + 1] \in [value : Nat, next : Nat]
        BY <3>3, <3>4
      <4> QED BY <3>3, <3>4, <4>1, ConversionInputs
    <3>6. ~ IsWhole(m - 1, m - 1)
      BY DEF IsWhole
    <3>7. HpackVarint(b, p, bits) = [value |-> m - 1 + rest, next |-> end]
      BY <1>2, <1>3, <2>8, <3>1, <3>5, <3>6 DEF ReadInt
    <3>8. Len(g) \in Nat
      BY LenProperties
    <3>9. m - 1 + rest = value /\ end = p + Len(e) /\ end \in Nat \ {0}
      <4>1. m - 1 + rest = value
        BY <2>1
      <4>2. PICK L \in Nat : L = Len(g)
        BY <3>8
      <4>3. end = p + 1 + L /\ Len(e) = 1 + L
        BY <2>6, <3>4, <4>2
      <4>4. p \in Nat \ {0}
        BY <3>1
      <4>5. PICK y : y = Len(e) /\ y = 1 + L
        BY <4>3
      <4>6. end = p + y /\ end \in Nat \ {0}
        BY <4>3, <4>4, <4>5, NextPlace
      <4> QED BY <4>1, <4>5, <4>6
    <3> QED BY <3>7, <3>9 DEF VarintReads
  <2> QED BY <1>3, <2>2, <2>6, <2>7, <2>9 DEF StartsIn
<1> QED BY <1>6, <1>7

\* The bits above the index of a kind.
Pattern(kind) ==
    CASE kind = "indexed" -> 128 [] kind = "size" -> 32
      [] kind = "incremental" -> 64 [] kind = "never" -> 16 [] OTHER -> 0

LEMMA FirstByte ==
  ASSUME NEW kind \in Kinds
  PROVE  \E bits :
            /\ bits = HpackBits(kind) /\ IsAbove(Pattern(kind), bits)
            /\ \A low \in 0 .. 2 ^ bits - 1 : HpackKind(Pattern(kind) + low) = kind
<1>1. CASE kind = "indexed"
  <2>1. HpackBits(kind) = 7 /\ Pattern(kind) = 128
    BY <1>1 DEF HpackBits, Pattern
  <2>2. \A low \in 0 .. 127 : HpackKind(128 + low) = "indexed"
    BY DEF HpackKind
  <2>3. 7 \in Bits /\ 1 \in Nat /\ 128 = 2 ^ 7 * 1 /\ 2 ^ 7 - 1 = 127
    BY DEF Bits
  <2>4. /\ 7 = HpackBits(kind) /\ IsAbove(Pattern(kind), 7)
        /\ \A low \in 0 .. 2 ^ 7 - 1 : HpackKind(Pattern(kind) + low) = kind
    BY <1>1, <2>1, <2>2, <2>3 DEF IsAbove
  <2> QED BY <2>4
<1>2. CASE kind = "size"
  <2>1. HpackBits(kind) = 5 /\ Pattern(kind) = 32
    BY <1>2 DEF HpackBits, Pattern
  <2>2. \A low \in 0 .. 31 : HpackKind(32 + low) = "size"
    BY DEF HpackKind
  <2>3. 5 \in Bits /\ 1 \in Nat /\ 32 = 2 ^ 5 * 1 /\ 2 ^ 5 - 1 = 31
    BY DEF Bits
  <2>4. /\ 5 = HpackBits(kind) /\ IsAbove(Pattern(kind), 5)
        /\ \A low \in 0 .. 2 ^ 5 - 1 : HpackKind(Pattern(kind) + low) = kind
    BY <1>2, <2>1, <2>2, <2>3 DEF IsAbove
  <2> QED BY <2>4
<1>3. CASE kind = "incremental"
  <2>1. HpackBits(kind) = 6 /\ Pattern(kind) = 64
    BY <1>3 DEF HpackBits, Pattern
  <2>2. \A low \in 0 .. 63 : HpackKind(64 + low) = "incremental"
    BY DEF HpackKind
  <2>3. 6 \in Bits /\ 1 \in Nat /\ 64 = 2 ^ 6 * 1 /\ 2 ^ 6 - 1 = 63
    BY DEF Bits
  <2>4. /\ 6 = HpackBits(kind) /\ IsAbove(Pattern(kind), 6)
        /\ \A low \in 0 .. 2 ^ 6 - 1 : HpackKind(Pattern(kind) + low) = kind
    BY <1>3, <2>1, <2>2, <2>3 DEF IsAbove
  <2> QED BY <2>4
<1>4. CASE kind = "never"
  <2>1. HpackBits(kind) = 4 /\ Pattern(kind) = 16
    BY <1>4 DEF HpackBits, Pattern
  <2>2. \A low \in 0 .. 15 : HpackKind(16 + low) = "never"
    BY DEF HpackKind
  <2>3. 4 \in Bits /\ 1 \in Nat /\ 16 = 2 ^ 4 * 1 /\ 2 ^ 4 - 1 = 15
    BY DEF Bits
  <2>4. /\ 4 = HpackBits(kind) /\ IsAbove(Pattern(kind), 4)
        /\ \A low \in 0 .. 2 ^ 4 - 1 : HpackKind(Pattern(kind) + low) = kind
    BY <1>4, <2>1, <2>2, <2>3 DEF IsAbove
  <2> QED BY <2>4
<1>5. CASE kind = "without"
  <2>1. HpackBits(kind) = 4 /\ Pattern(kind) = 0
    BY <1>5 DEF HpackBits, Pattern
  <2>2. \A low \in 0 .. 15 : HpackKind(0 + low) = "without"
    BY DEF HpackKind
  <2>3. 4 \in Bits /\ 0 \in Nat /\ 0 = 2 ^ 4 * 0 /\ 2 ^ 4 - 1 = 15
    BY DEF Bits
  <2>4. /\ 4 = HpackBits(kind) /\ IsAbove(Pattern(kind), 4)
        /\ \A low \in 0 .. 2 ^ 4 - 1 : HpackKind(Pattern(kind) + low) = kind
    BY <1>5, <2>1, <2>2, <2>3 DEF IsAbove
  <2> QED BY <2>4
<1> QED BY <1>1, <1>2, <1>3, <1>4, <1>5 DEF Kinds

\* A string is skipped.
LEMMA StringRead ==
  ASSUME NEW b \in Seq(Nat), NEW length \in Nat, NEW e, e = EncodedString(length)
  PROVE  /\ e \in Seq(Nat)
         /\ \A p : BytesAt(b, p, e) =>
               HpackSkipString(b, p) = p + Len(e) /\ p + Len(e) \in Nat \ {0}
<1>1. PICK head : head = EncodedInt(length, 7, 128)
  OBVIOUS
<1>2. PICK bits, pattern : bits = 7 /\ pattern = 128 /\ IsAbove(pattern, bits)
  <2>1. 7 \in Bits /\ 1 \in Nat /\ 128 = 2 ^ 7 * 1
    BY DEF Bits
  <2>2. IsAbove(128, 7)
    BY <2>1 DEF IsAbove
  <2> QED BY <2>2
<1>3. StartsIn(head, bits, pattern) /\ \A p : BytesAt(b, p, head) => VarintReads(b, p, bits, length, head)
  <2>1. IsInt(head, length, bits, pattern)
    BY <1>1, <1>2 DEF IsInt
  <2> QED BY <2>1, IntRead
<1>c. head \in Seq(Nat)
  BY <1>3 DEF StartsIn
<1>4. PICK body : body = [i \in 1 .. length |-> 255]
  OBVIOUS
<1>5. body \in Seq(Nat) /\ Len(body) = length
  BY <1>4
<1>6. e = head \o body
  BY <1>1, <1>4 DEF EncodedString
<1>7. e \in Seq(Nat) /\ Len(e) = Len(head) + length
  BY <1>c, <1>5, <1>6, ConcatProperties
<1>8. ASSUME NEW p, BytesAt(b, p, e)
      PROVE  HpackSkipString(b, p) = p + Len(e) /\ p + Len(e) \in Nat \ {0}
  <2>1. BytesAt(b, p, head)
    <3>1. BytesAt(b, p, head \o body)
      BY <1>6, <1>8
    <3> QED BY <1>c, <1>5, <3>1, AtBoth
  <2>2. VarintReads(b, p, 7, length, head)
    BY <1>2, <1>3, <2>1
  <2>3. PICK L \in Nat : L = Len(head)
    BY <1>c, LenProperties
  <2>4. PICK r : r = HpackVarint(b, p, 7)
    OBVIOUS
  <2>5. p \in Nat \ {0}
    BY <1>8 DEF BytesAt
  <2>6. r = [value |-> length, next |-> p + L] /\ p + L \in Nat
    BY <2>2, <2>3, <2>4, <2>5 DEF VarintReads
  <2>7. r # None /\ r.value = length /\ r.next = p + L
    <3>1. r \in [value : Nat, next : Nat]
      BY <2>6
    <3> QED BY <2>6, <3>1, ConversionInputs
  <2>8. HpackSkipString(b, p) = p + L + length
    BY <2>4, <2>7 DEF HpackSkipString
  <2> QED BY <1>7, <2>3, <2>5, <2>8
<1> QED BY <1>7, <1>8

\* A representation is read back where its first byte is.
ReprReads(b, p, repr, e) ==
    /\ HpackKind(b[p]) = repr.kind /\ HpackEnd(b, p) = p + Len(e)
    /\ p + Len(e) \in Nat \ {0} /\ p \in 1 .. Len(b)

LEMMA ReprRead ==
  ASSUME NEW b \in Seq(Nat), NEW repr \in Representations, NEW e, e = Encoded(repr)
  PROVE  e \in Seq(Nat) /\ \A p : BytesAt(b, p, e) => ReprReads(b, p, repr, e)
<1>1. PICK kind \in Kinds : kind = repr.kind
  BY ConversionInputs DEF Kinds
<1>2. PICK index \in Nat, name \in Nat, value \in Nat :
        index = repr.index /\ name = repr.name /\ value = repr.value
  BY ConversionInputs
<1>3. PICK bits : /\ bits = HpackBits(kind) /\ IsAbove(Pattern(kind), bits)
                  /\ \A low \in 0 .. 2 ^ bits - 1 : HpackKind(Pattern(kind) + low) = kind
  BY FirstByte
<1>4. PICK head : head = EncodedInt(index, bits, Pattern(kind))
  OBVIOUS
<1>5. PICK own : own = IF index = 0 THEN EncodedString(name) ELSE <<>>
  OBVIOUS
<1>6. PICK said : said = EncodedString(value)
  OBVIOUS
<1>7. PICK more : more = IF kind \in {"indexed", "size"} THEN <<>> ELSE own \o said
  OBVIOUS
<1>8. e = head \o more
  <2>1. /\ Pattern(kind) = CASE kind = "indexed" -> 128 [] kind = "size" -> 32
                             [] kind = "incremental" -> 64 [] kind = "never" -> 16 [] OTHER -> 0
        /\ bits = CASE kind = "indexed" -> 7 [] kind = "size" -> 5
                    [] kind = "incremental" -> 6 [] OTHER -> 4
    BY <1>3 DEF Pattern, HpackBits
  <2> QED BY <1>1, <1>2, <1>4, <1>5, <1>6, <1>7, <2>1 DEF Encoded
<1>9. StartsIn(head, bits, Pattern(kind)) /\ \A p : BytesAt(b, p, head) => VarintReads(b, p, bits, index, head)
  <2>1. PICK pattern : pattern = Pattern(kind)
    OBVIOUS
  <2>2. IsInt(head, index, bits, pattern)
    BY <1>2, <1>3, <1>4, <2>1 DEF IsInt
  <2>3. StartsIn(head, bits, pattern) /\ \A p : BytesAt(b, p, head) => VarintReads(b, p, bits, index, head)
    BY <2>2, IntRead
  <2> QED BY <2>1, <2>3
<1>10. head \in Seq(Nat) /\ head # <<>>
  BY <1>9 DEF StartsIn
<1>11. said \in Seq(Nat) /\ \A p : BytesAt(b, p, said) =>
          HpackSkipString(b, p) = p + Len(said) /\ p + Len(said) \in Nat \ {0}
  BY <1>6, StringRead
<1>12. own \in Seq(Nat) /\ (index # 0 => Len(own) = 0)
       /\ (index = 0 => \A p : BytesAt(b, p, own) =>
              HpackSkipString(b, p) = p + Len(own) /\ p + Len(own) \in Nat \ {0})
  <2>1. CASE index = 0
    BY <1>5, <2>1, StringRead
  <2>2. CASE index # 0
    BY <1>5, <2>2, EmptySeq
  <2> QED BY <2>1, <2>2
<1>13. more \in Seq(Nat) /\ e \in Seq(Nat)
  <2>1. own \o said \in Seq(Nat) /\ <<>> \in Seq(Nat)
    BY <1>11, <1>12, ConcatProperties, EmptySeq
  <2>2. more \in Seq(Nat)
    BY <1>7, <2>1
  <2> QED BY <1>8, <1>10, <2>2, ConcatProperties
<1>14. PICK hl \in Nat, ol \in Nat, sl \in Nat : hl = Len(head) /\ ol = Len(own) /\ sl = Len(said)
  BY <1>10, <1>11, <1>12, LenProperties
<1>15. ASSUME NEW p, BytesAt(b, p, e) PROVE ReprReads(b, p, repr, e)
  <2>1. BytesAt(b, p, head) /\ BytesAt(b, p + hl, more) /\ p \in Nat \ {0}
    <3>1. BytesAt(b, p, head \o more)
      BY <1>8, <1>15
    <3>2. BytesAt(b, p, head) /\ BytesAt(b, p + Len(head), more)
      BY <1>10, <1>13, <3>1, AtBoth
    <3>3. p \in Nat \ {0}
      BY <3>2 DEF BytesAt
    <3> QED BY <1>14, <3>2, <3>3
  <2>2. p \in 1 .. Len(b) /\ b[p] = head[1]
    BY <1>10, <2>1, AtFirst
  <2>3. HpackKind(b[p]) = kind
    <3>1. PICK low \in 0 .. 2 ^ bits - 1 : head[1] = Pattern(kind) + low
      BY <1>9 DEF StartsIn
    <3> QED BY <1>3, <2>2, <3>1
  <2>4. PICK r : r = HpackVarint(b, p, bits)
    OBVIOUS
  <2>5. PICK q \in Nat \ {0} : q = p + hl
    BY <1>14, <2>1
  <2>6. r = [value |-> index, next |-> q]
    <3>1. VarintReads(b, p, bits, index, head)
      BY <1>9, <2>1
    <3> QED BY <1>14, <2>4, <2>5, <3>1 DEF VarintReads
  <2>7. r # None /\ r.value = index /\ r.next = q
    <3>1. r \in [value : Nat, next : Nat]
      BY <2>6
    <3> QED BY <2>6, <3>1, ConversionInputs
  <2> DEFINE Name == IF index = 0 THEN HpackSkipString(b, q) ELSE q
  <2>8. HpackEnd(b, p) = IF kind \in {"indexed", "size"} THEN q
                         ELSE IF Name = None THEN None ELSE HpackSkipString(b, Name)
    BY <1>3, <2>3, <2>4, <2>7 DEF HpackEnd
  <2>9. CASE kind \in {"indexed", "size"}
    <3>1. more = <<>> /\ e = head
      BY <1>7, <1>8, <1>10, <2>9, ConcatEmptySeq
    <3>2. HpackEnd(b, p) = q /\ q = p + Len(e)
      BY <1>14, <2>5, <2>8, <2>9, <3>1
    <3> QED BY <1>1, <2>2, <2>3, <3>2 DEF ReprReads
  <2>10. CASE kind \notin {"indexed", "size"}
    <3>1. BytesAt(b, q, own) /\ BytesAt(b, q + ol, said)
      <4>1. BytesAt(b, q, own \o said)
        BY <1>7, <2>1, <2>5, <2>10
      <4>2. BytesAt(b, q, own) /\ BytesAt(b, q + Len(own), said)
        BY <1>11, <1>12, <4>1, AtBoth
      <4> QED BY <1>14, <4>2
    <3>2. PICK n \in Nat : n = Name /\ n = q + ol
      <4>1. CASE index = 0
        BY <1>12, <1>14, <3>1, <4>1
      <4>2. CASE index # 0
        BY <1>12, <1>14, <2>5, <4>2
      <4> QED BY <4>1, <4>2
    <3>3. HpackSkipString(b, n) = n + sl
      BY <1>11, <1>14, <3>1, <3>2
    <3>4. n # None
      BY <3>2, ConversionInputs
    <3> HIDE DEF Name
    <3>5. HpackEnd(b, p) = n + sl
      BY <2>8, <2>10, <3>2, <3>3, <3>4
    <3>6. Len(e) = hl + (ol + sl)
      <4>1. Len(own \o said) = ol + sl
        BY <1>11, <1>12, <1>14, ConcatProperties
      <4>2. more = own \o said
        BY <1>7, <2>10
      <4>3. Len(e) = hl + Len(more)
        BY <1>8, <1>10, <1>13, <1>14, ConcatProperties
      <4> QED BY <4>1, <4>2, <4>3
    <3>7. n + sl = p + Len(e) /\ p + Len(e) \in Nat \ {0}
      BY <1>14, <2>1, <2>5, <3>2, <3>6
    <3> QED BY <1>1, <2>2, <2>3, <3>5, <3>7 DEF ReprReads
  <2> QED BY <2>9, <2>10
<1> QED BY <1>13, <1>15

-----------------------------------------------------------------------------
(* A whole block, read back                                                *)

NotSize == {r \in Representations : r.kind # "size"}
KindsOf(s) == [i \in DOMAIN Only(s, NotSize) |-> Only(s, NotSize)[i].kind]

LEMMA KindsEmpty == KindsOf(<<>>) = <<>>
<1>1. PICK e : e = Only(<<>>, NotSize)
  OBVIOUS
<1>2. e = <<>> /\ DOMAIN e = {}
  BY <1>1, OnlyEmpty, EmptySeq
<1>3. KindsOf(<<>>) = [i \in DOMAIN e |-> e[i].kind]
  BY <1>1 DEF KindsOf
<1>4. PICK f : f = [i \in DOMAIN e |-> e[i].kind]
  OBVIOUS
<1>5. f = [i \in 1 .. 0 |-> f[i]]
  BY <1>2, <1>4
<1>6. f \in Seq({}) /\ Len(f) = 0
  BY <1>5, ListIs
<1>7. f = <<>>
  BY <1>6, EmptySeq
<1> QED BY <1>3, <1>4, <1>7

LEMMA KindsAppend ==
  ASSUME NEW s \in Seq(Representations), NEW x \in Representations
  PROVE  KindsOf(s) \in Seq(Kinds) /\ KindsOf(Append(s, x)) = KindsOf(s) \o Found(x.kind)
<1>1. PICK o \in Seq(Representations) : o = Only(s, NotSize)
  BY OnlyInList
<1>2. PICK M \in Nat : M = Len(o) /\ DOMAIN o = 1 .. M
  BY LenProperties
<1>3. \A r \in Representations : r.kind \in Kinds
  BY ConversionInputs DEF Kinds
<1>4. PICK ks : ks = KindsOf(s)
  OBVIOUS
<1>5. ks = [i \in 1 .. M |-> o[i].kind]
  BY <1>1, <1>2, <1>4 DEF KindsOf
<1>6. ks \in Seq(Kinds) /\ Len(ks) = M
  <2>1. \A i \in 1 .. M : o[i] \in Representations
    BY <1>2
  <2>2. ks = [i \in 1 .. M |-> ks[i]] /\ \A i \in 1 .. M : ks[i] \in Kinds
    BY <1>3, <1>5, <2>1
  <2> QED BY <2>2, ListIs
<1>7. Only(Append(s, x), NotSize) = IF x \in NotSize THEN Append(o, x) ELSE o
  BY <1>1, OnlyAppend
<1>8. CASE x.kind = "size"
  <2>1. x \notin NotSize /\ Found(x.kind) = <<>>
    BY <1>8 DEF NotSize, Found
  <2>2. KindsOf(Append(s, x)) = ks
    BY <1>1, <1>4, <1>7, <2>1 DEF KindsOf
  <2>3. ks \o <<>> = ks
    BY <1>6, ConcatEmptySeq
  <2> QED BY <1>4, <1>6, <2>1, <2>2, <2>3
<1>9. CASE x.kind # "size"
  <2>1. x \in NotSize /\ Found(x.kind) = <<x.kind>>
    BY <1>9 DEF NotSize, Found
  <2>2. PICK t : t = Append(o, x)
    OBVIOUS
  <2>3. t \in Seq(Representations) /\ DOMAIN t = 1 .. M + 1 /\ t[M + 1] = x /\ \A i \in 1 .. M : t[i] = o[i]
    BY <1>2, <2>2
  <2>4. PICK kt : kt = KindsOf(Append(s, x))
    OBVIOUS
  <2>5. kt = [i \in 1 .. M + 1 |-> t[i].kind]
    BY <1>7, <2>1, <2>2, <2>3, <2>4 DEF KindsOf
  <2>6. PICK k \in Kinds : k = x.kind
    BY <1>3
  <2>7. kt = Append(ks, k)
    <3>1. PICK a : a = Append(ks, k)
      OBVIOUS
    <3>2. a \in Seq(Kinds) /\ Len(a) = M + 1 /\ a[M + 1] = k /\ \A i \in 1 .. M : a[i] = ks[i]
      BY <1>6, <3>1
    <3>3. ASSUME NEW i \in 1 .. M + 1 PROVE kt[i] = a[i]
      <4>1. CASE i = M + 1
        BY <2>3, <2>5, <2>6, <3>2, <4>1
      <4>2. CASE i \in 1 .. M
        BY <1>5, <2>3, <2>5, <3>2, <4>2
      <4> QED BY <4>1, <4>2
    <3>4. kt \in Seq(Kinds) /\ Len(kt) = M + 1
      <4>1. kt = [i \in 1 .. M + 1 |-> kt[i]] /\ \A i \in 1 .. M + 1 : kt[i] \in Kinds
        BY <1>3, <2>3, <2>5
      <4>2. M + 1 \in Nat
        OBVIOUS
      <4> QED BY <4>1, <4>2, ListIs
    <3>5. kt = a
      BY <3>2, <3>3, <3>4, SeqEqual
    <3> QED BY <3>1, <3>5
  <2>8. ks \o <<k>> = Append(ks, k)
    BY <1>6, AppendIsConcat
  <2> QED BY <1>4, <1>6, <2>1, <2>4, <2>6, <2>7, <2>8
<1> QED BY <1>8, <1>9

\* The bytes of a block.
BytesOf(s) == FlattenSeq([i \in DOMAIN s |-> Encoded(s[i])])

LEMMA BytesEmpty == BytesOf(<<>>) = <<>>
<1>1. PICK e : e = <<>> /\ DOMAIN e = {}
  BY EmptySeq
<1>2. PICK f : f = [i \in DOMAIN e |-> Encoded(e[i])]
  OBVIOUS
<1>3. f = [i \in 1 .. 0 |-> f[i]]
  BY <1>1, <1>2
<1>4. f \in Seq({}) /\ Len(f) = 0
  BY <1>3, ListIs
<1>5. f = <<>>
  BY <1>4, EmptySeq
<1>6. BytesOf(e) = FlattenSeq(f)
  BY <1>2 DEF BytesOf
<1> QED BY <1>1, <1>5, <1>6, FlattenEmpty

LEMMA BytesAppend ==
  ASSUME NEW s \in Seq(Representations), NEW x \in Representations
  PROVE  /\ BytesOf(s) \in Seq(Nat) /\ Encoded(x) \in Seq(Nat)
         /\ BytesOf(Append(s, x)) = BytesOf(s) \o Encoded(x)
<1>1. PICK N \in Nat : N = Len(s) /\ DOMAIN s = 1 .. N
  BY LenProperties
<1>2. \A r \in Representations : Encoded(r) \in Seq(Nat)
  <2>1. <<>> \in Seq(Nat)
    BY EmptySeq
  <2> QED BY <2>1, ReprRead
<1>3. PICK e : e = [i \in DOMAIN s |-> Encoded(s[i])]
  OBVIOUS
<1>4. PICK t : t = Append(s, x)
  OBVIOUS
<1>5. DOMAIN t = 1 .. N + 1 /\ t[N + 1] = x /\ \A i \in 1 .. N : t[i] = s[i] /\ s[i] \in Representations
  BY <1>1, <1>4
<1>6. PICK g : g = [i \in DOMAIN t |-> Encoded(t[i])]
  OBVIOUS
<1>7. PICK last \in Seq(Nat) : last = Encoded(x)
  BY <1>2
<1>8. e \in Seq(Seq(Nat)) /\ Len(e) = N
  <2>1. e = [i \in 1 .. N |-> e[i]] /\ \A i \in 1 .. N : e[i] \in Seq(Nat)
    BY <1>1, <1>2, <1>3, <1>5
  <2> QED BY <2>1, ListIs
<1>9. g \in Seq(Seq(Nat)) /\ Len(g) = N + 1
  <2>1. \A i \in 1 .. N + 1 : t[i] \in Representations
    BY <1>5
  <2>2. g = [i \in 1 .. N + 1 |-> g[i]] /\ \A i \in 1 .. N + 1 : g[i] \in Seq(Nat)
    BY <1>2, <1>5, <1>6, <2>1
  <2>3. N + 1 \in Nat
    OBVIOUS
  <2> QED BY <2>2, <2>3, ListIs
<1>10. g = Append(e, last)
  <2>1. PICK a : a = Append(e, last)
    OBVIOUS
  <2>2. a \in Seq(Seq(Nat)) /\ Len(a) = N + 1 /\ a[N + 1] = last /\ \A i \in 1 .. N : a[i] = e[i]
    BY <1>8, <2>1, AppendProperties
  <2>3. ASSUME NEW i \in 1 .. N + 1 PROVE g[i] = a[i]
    <3>1. CASE i = N + 1
      BY <1>5, <1>6, <1>7, <2>2, <3>1
    <3>2. CASE i \in 1 .. N
      BY <1>1, <1>3, <1>5, <1>6, <2>2, <3>2
    <3> QED BY <3>1, <3>2
  <2>4. g = a
    BY <1>9, <2>2, <2>3, SeqEqual
  <2> QED BY <2>1, <2>4
<1>11. BytesOf(s) = FlattenSeq(e) /\ BytesOf(t) = FlattenSeq(g)
  BY <1>3, <1>6 DEF BytesOf
<1>12. FlattenSeq(e) \in Seq(Nat) /\ FlattenSeq(g) = FlattenSeq(e) \o last
  BY <1>8, <1>10, FlattenType, FlattenAppend
<1> QED BY <1>4, <1>7, <1>11, <1>12

\* The code walks a block from representation to representation.
LEMMA BlockRead ==
  ASSUME NEW s \in Seq(Representations), NEW b, b = BytesOf(s)
  PROVE  b \in Seq(Nat) /\ HpackRepresentations(b) = KindsOf(s)
<1>1. PICK N \in Nat : N = Len(s)
  BY LenProperties
<1> DEFINE First(n) == SubSeq(s, 1, n)
           B(n) == BytesOf(First(n))
<1>2. First(0) = <<>> /\ First(N) = s
  BY <1>1, SubSeqEmpty, SubSeqFull
<1>3. ASSUME NEW n \in 1 .. N
      PROVE  First(n - 1) \in Seq(Representations) /\ s[n] \in Representations
             /\ First(n) = Append(First(n - 1), s[n])
  BY <1>1
<1> HIDE DEF First
<1>4. ASSUME NEW n \in 1 .. N
      PROVE  /\ B(n - 1) \in Seq(Nat) /\ Encoded(s[n]) \in Seq(Nat)
             /\ B(n) = B(n - 1) \o Encoded(s[n])
             /\ KindsOf(First(n - 1)) \in Seq(Kinds)
             /\ KindsOf(First(n)) = KindsOf(First(n - 1)) \o Found(s[n].kind)
  <2>1. PICK r \in Seq(Representations), x \in Representations : r = First(n - 1) /\ x = s[n]
    BY <1>3
  <2>2. First(n) = Append(r, x)
    BY <1>3, <2>1
  <2>3. /\ BytesOf(r) \in Seq(Nat) /\ Encoded(x) \in Seq(Nat)
        /\ BytesOf(Append(r, x)) = BytesOf(r) \o Encoded(x)
    BY BytesAppend
  <2>4. KindsOf(r) \in Seq(Kinds) /\ KindsOf(Append(r, x)) = KindsOf(r) \o Found(x.kind)
    BY KindsAppend
  <2> QED BY <2>1, <2>2, <2>3, <2>4
<1>5. B(0) = <<>> /\ KindsOf(First(0)) = <<>> /\ B(N) = b /\ KindsOf(First(N)) = KindsOf(s)
  BY <1>2, BytesEmpty, KindsEmpty
<1> HIDE DEF B
<1>6. ASSUME NEW n \in 0 .. N PROVE B(n) \in Seq(Nat)
  <2>1. CASE n = 0
    BY <1>5, <2>1, EmptySeq
  <2>2. CASE n \in 1 .. N
    <3>1. B(n - 1) \o Encoded(s[n]) \in Seq(Nat)
      BY <1>4, <2>2, ConcatProperties
    <3> QED BY <1>4, <2>2, <3>1
  <2> QED BY <2>1, <2>2
<1>7. b \in Seq(Nat)
  BY <1>5, <1>6
<1>8. PICK M \in Nat : M = Len(b)
  BY <1>7, LenProperties
<1>9. PICK f \in [1 .. M + 1 -> Seq(Kinds)] : IsFrom(f, b, M) /\ HpackRepresentations(b) = f[1]
  BY <1>7, <1>8, FromExists
<1> DEFINE P == {n \in 0 .. N : BytesAt(b, 1, B(n))}
<1>10. N \in P
  <2>1. BytesAt(b, 1, b)
    <3>1. \A j \in 1 .. M : b[1 + j - 1] = b[j]
      <4>1. \A j \in 1 .. M : 1 + j - 1 = j
        OBVIOUS
      <4> QED BY <4>1
    <3> QED BY <1>8, <3>1 DEF BytesAt
  <2> QED BY <1>5, <2>1
<1>11. ASSUME NEW n \in 1 .. N, n \in P PROVE n - 1 \in P
  <2>1. PICK u \in Seq(Nat), e \in Seq(Nat) : u = B(n - 1) /\ e = Encoded(s[n]) /\ B(n) = u \o e
    BY <1>4
  <2>2. BytesAt(b, 1, u \o e)
    BY <1>11, <2>1
  <2>3. BytesAt(b, 1, u)
    BY <1>7, <2>2, AtBoth
  <2>4. n - 1 \in 0 .. N
    OBVIOUS
  <2> QED BY <2>1, <2>3, <2>4
<1>12. 0 .. N \subseteq P
  <2> HIDE DEF P
  <2> QED BY <1>10, <1>11, DownFrom
<1>13. ASSUME NEW n \in 0 .. N PROVE BytesAt(b, 1, B(n))
  BY <1>12
<1> HIDE DEF P
<1> DEFINE Q == {n \in 0 .. N : f[1] = KindsOf(First(n)) \o f[1 + Len(B(n))]}
<1>14. 0 \in Q
  <2>1. PICK k \in Seq(Kinds) : k = f[1]
    BY <1>9
  <2>2. <<>> \o k = k
    BY ConcatEmptySeq
  <2>3. 1 + Len(B(0)) = 1
    BY <1>5, EmptySeq
  <2> QED BY <1>5, <2>1, <2>2, <2>3
<1>15. ASSUME NEW n \in 1 .. N, n - 1 \in Q PROVE n \in Q
  <2>1. PICK u \in Seq(Nat), e \in Seq(Nat), v \in Seq(Nat) :
          u = B(n - 1) /\ e = Encoded(s[n]) /\ v = B(n) /\ v = u \o e
    BY <1>4, <1>6
  <2>2. PICK L \in Nat, K \in Nat : L = Len(u) /\ K = Len(e)
    BY LenProperties
  <2>0. BytesAt(b, 1, v) /\ BytesAt(b, 1, u \o e)
    <3>1. n \in 0 .. N
      OBVIOUS
    <3>2. BytesAt(b, 1, B(n))
      BY <1>13, <3>1
    <3> QED BY <2>1, <3>2
  <2>3. Len(v) = L + K
    BY <2>1, <2>2, ConcatProperties
  <2>4. BytesAt(b, 1 + L, e)
    <3>1. BytesAt(b, 1 + Len(u), e)
      BY <1>7, <2>0, AtBoth
    <3> QED BY <2>2, <3>1
  <2>5. PICK p \in Nat : p = 1 + L
    OBVIOUS
  <2>6. PICK x \in Representations : x = s[n]
    BY <1>3
  <2>7. ReprReads(b, p, x, e)
    <3>1. BytesAt(b, p, e) /\ e = Encoded(x)
      BY <2>1, <2>4, <2>5, <2>6
    <3> QED BY <1>7, <3>1, ReprRead
  <2>8. /\ HpackKind(b[p]) = x.kind /\ HpackEnd(b, p) = p + K
        /\ p + K \in Nat /\ p \in 1 .. M
    BY <1>8, <2>2, <2>7 DEF ReprReads
  <2>9. p + K <= M + 1
    <3>1. 1 + (L + K) <= M + 1
      BY <1>8, <2>0, <2>3 DEF BytesAt
    <3> QED BY <2>5, <3>1
  <2>10. f[p] = Found(x.kind) \o f[p + K]
    <3>1. p + K # None
      BY <2>8, ConversionInputs
    <3>2. Least(p + K, M + 1) = p + K
      BY <2>9 DEF Least
    <3>3. p \in 1 .. M + 1 /\ ~ (p > M)
      BY <2>8
    <3> QED BY <1>9, <2>8, <3>1, <3>2, <3>3 DEF IsFrom
  <2>11. p + K = 1 + Len(v) /\ p + K \in 1 .. M + 1 /\ p = 1 + Len(B(n - 1))
    BY <2>1, <2>2, <2>3, <2>5, <2>8, <2>9
  <2>12. PICK a \in Seq(Kinds), g \in Seq(Kinds), h \in Seq(Kinds) :
           a = KindsOf(First(n - 1)) /\ g = Found(x.kind) /\ h = f[p + K]
    <3>1. PICK kind \in Kinds : kind = x.kind
      BY ConversionInputs DEF Kinds
    <3>2. Found(kind) = <<>> \/ Found(kind) = <<kind>>
      BY DEF Found
    <3>3. <<>> \in Seq(Kinds) /\ <<kind>> \in Seq(Kinds)
      BY EmptySeq
    <3>4. f[p + K] \in Seq(Kinds)
      BY <2>11
    <3> QED BY <1>4, <3>1, <3>2, <3>3, <3>4
  <2>13. f[1] = a \o (g \o h)
    <3>1. f[1] = a \o f[p]
      <4>1. f[1] = KindsOf(First(n - 1)) \o f[1 + Len(B(n - 1))]
        BY <1>15
      <4> QED BY <2>11, <2>12, <4>1
    <3>2. f[p] = g \o h
      BY <2>10, <2>12
    <3> QED BY <3>1, <3>2
  <2>14. (a \o g) \o h = a \o (g \o h)
    <3>1. Groups(Kinds)
      BY GroupsAll
    <3>2. \A q, r, t \in Seq(Kinds) : (q \o r) \o t = q \o (r \o t)
      BY <3>1, Zenon DEF Groups
    <3>3. a \in Seq(Kinds) /\ g \in Seq(Kinds) /\ h \in Seq(Kinds)
      BY <2>12
    <3> QED BY ONLY <3>2, <3>3, Zenon
  <2>15. KindsOf(First(n)) = a \o g
    BY <1>4, <2>6, <2>12
  <2>16. f[1] = (a \o g) \o h
    BY <2>13, <2>14
  <2>17. h = f[1 + Len(B(n))]
    BY <2>1, <2>11, <2>12
  <2>18. f[1] = KindsOf(First(n)) \o f[1 + Len(B(n))]
    BY <2>15, <2>16, <2>17
  <2>19. n \in 0 .. N
    OBVIOUS
  <2> QED BY <2>18, <2>19
<1>16. N \in Q
  <2> HIDE DEF Q
  <2>1. 0 .. N \subseteq Q
    BY <1>14, <1>15, UpTo
  <2> QED BY <2>1
<1>17. f[1] = KindsOf(s)
  <2>1. f[1] = KindsOf(s) \o f[1 + M]
    <3>1. f[1] = KindsOf(First(N)) \o f[1 + Len(B(N))]
      BY <1>16
    <3> QED BY <1>5, <1>8, <3>1
  <2>2. f[1 + M] = <<>>
    <3>1. PICK p \in 1 .. M + 1 : p = 1 + M /\ p > M
      OBVIOUS
    <3> QED BY <1>9, <3>1 DEF IsFrom
  <2>3. KindsOf(s) \in Seq(Kinds)
    <3>1. CASE N = 0
      BY <1>2, <1>5, <3>1, EmptySeq
    <3>2. CASE N # 0
      <4>1. N \in 1 .. N
        BY <3>2
      <4>2. PICK x \in Representations : x = s[N]
        BY <1>3, <4>1
      <4> QED BY <4>2, KindsAppend
    <3> QED BY <3>1, <3>2
  <2>4. KindsOf(s) \o <<>> = KindsOf(s)
    BY <2>3, ConcatEmptySeq
  <2> QED BY <2>1, <2>2, <2>4
<1> QED BY <1>7, <1>9, <1>17

LEMMA KindsIs ==
  ASSUME NEW s \in Seq(Representations), NEW kept, kept = Only(s, {r \in ToSet(s) : r.kind # "size"})
  PROVE  [i \in DOMAIN kept |-> kept[i].kind] = KindsOf(s)
<1>1. \A i \in 1 .. Len(s) : s[i] \in {r \in ToSet(s) : r.kind # "size"} <=> s[i] \in NotSize
  <2>1. \A i \in 1 .. Len(s) : s[i] \in Representations /\ s[i] \in ToSet(s)
    BY DEF ToSet
  <2> QED BY <2>1 DEF NotSize
<1>2. kept = Only(s, NotSize)
  BY <1>1, OnlySame
<1> QED BY <1>2 DEF KindsOf

LEMMA Aligned == block \in Seq(Representations) => RepresentationsAligned
<1> SUFFICES ASSUME block \in Seq(Representations) PROVE RepresentationsAligned
  OBVIOUS
<1>1. PICK s \in Seq(Representations) : s = block
  OBVIOUS
<1>2. PICK b : b = BytesOf(s)
  OBVIOUS
<1>3. PICK kept : kept = Only(s, {r \in ToSet(s) : r.kind # "size"})
  OBVIOUS
<1>4. PICK kinds : kinds = [i \in DOMAIN kept |-> kept[i].kind]
  OBVIOUS
<1>5. b \in Seq(Nat) /\ HpackRepresentations(b) = kinds
  BY <1>2, <1>3, <1>4, BlockRead, KindsIs
<1>6. PICK N \in Nat : N = Len(b) /\ DOMAIN b = 1 .. N
  BY <1>5, LenProperties
<1>7. ASSUME NEW size \in DOMAIN b
      PROVE  IsPrefix(HpackRepresentations(SubSeq(b, 1, size)), kinds)
  <2>1. CutAt(SubSeq(b, 1, size), b, N, size)
    BY <1>5, <1>6 DEF CutAt
  <2> QED BY <1>5, <2>1, RepresentationsCut
<1>8. b = FlattenSeq([i \in DOMAIN block |-> Encoded(block[i])])
  BY <1>1, <1>2 DEF BytesOf
<1> QED BY <1>1, <1>3, <1>4, <1>5, <1>7, <1>8 DEF RepresentationsAligned

\* The walk over an HPACK block (parse_hpack_representations) never loses its
\* place: of a block as RFC 7541 encodes it, whatever its lengths and indices, it
\* yields every representation, and of one cut short the first ones.
THEOREM BlocksAreAligned == ConversionSpec => []RepresentationsAligned
<1>1. Inputs => RepresentationsAligned
  BY Aligned DEF Inputs
<1> QED BY <1>1, InputsAreSound, PTL

=============================================================================
