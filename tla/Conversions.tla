------------------------------ MODULE Conversions ------------------------------
(***************************************************************************)
(* What passes through headers.py and capture.py, put together piece by    *)
(* piece, and the conversions compared with what RFC 9113 and RFC 7541,    *)
(* or the repository, say of them.  An opening also arrives piece by piece,*)
(* and the hook next_layer looks at it when it likes.                      *)
(***************************************************************************)
EXTENDS Headers, Wire

CONSTANTS
    HeaderNames,       \* names of header fields, [lower, case]
    Extensions,        \* extensions of a hello, [type, items]
    BareHellos,        \* two hellos without extensions
    Frames,            \* frames of an opening
    Representations,   \* of an HPACK block, [kind, index, name, value]
    MaxFields, MaxExtensions, MaxFrames, MaxRepresentations   \* bounds

ASSUME ConversionConstants ==
    /\ HopByHop \cap Semantic = {}
    /\ MaxFields \in Nat /\ MaxExtensions \in Nat /\ MaxFrames \in Nat
    /\ MaxRepresentations \in Nat
    /\ NameLen \in Nat /\ KeyLen \in Nat
    /\ Crumbs \notin Nat /\ Comma \notin Nat

\* What is put together is made of these.
Hello(bare) ==
    [version : {bare.version}, session : {bare.session}, ciphers : {bare.ciphers},
     compression : {bare.compression}, exts : Seq(Extensions)]

ASSUME ConversionInputs ==
    /\ \A name \in HeaderNames : name = [lower |-> name.lower, case |-> name.case]
    /\ \A ext \in Extensions :
          /\ ext = [type |-> ext.type, items |-> ext.items]
          /\ ext.type \in Nat /\ ext.items \in Seq(ToSet(ext.items))
          /\ ext.type = 16 => TornName \notin ToSet(ext.items)
    /\ DOMAIN BareHellos = 1 .. 2
    /\ \A k \in 1 .. 2 :
          LET bare == BareHellos[k]
          IN  /\ bare \in Hello(bare) /\ bare.exts = <<>>
              /\ bare.session \in Nat /\ bare.compression \in Nat
              /\ bare.ciphers \in Seq(ToSet(bare.ciphers))
    /\ \A frame \in Frames : frame.body \in Seq(ToSet(frame.body))
    /\ Representations \subseteq
          [kind : {"indexed", "size", "incremental", "never", "without"},
           index : Nat, name : Nat, value : Nat]
    /\ None \notin Nat \cup [value : Nat, next : Nat]

VARIABLES
    subject,       \* which of the others is put together
    fields,        \* a request's header fields
    response,      \* httpcloak's response headers
    hellos,        \* a client's hellos on two connections
    frames,        \* a client's opening, and
    arrived,       \* the bytes of it that next_layer may see
    preface,       \* profile.h2
    block          \* the representations of an HPACK block

conversionVars == <<subject, fields, response, hellos, frames, arrived, preface, block>>

ConversionInit ==
    /\ subject \in {"request", "response", "hellos", "opening", "block"}
    /\ fields = <<>> /\ response = <<>> /\ block = <<>>
    /\ hellos = BareHellos
    /\ frames = <<>> /\ arrived = 0 /\ preface = None

\* Each field has a value of its own, its place.
AddField(name) ==
    /\ subject = "request" /\ Len(fields) < MaxFields
    /\ fields' = Append(fields, [name |-> name, value |-> Len(fields) + 1])
    /\ UNCHANGED <<subject, response, hellos, frames, arrived, preface, block>>

AddResponse(name, count) ==
    /\ subject = "response" /\ Len(response) < MaxFields
    /\ \A i \in DOMAIN response : response[i].name # name
    /\ response' = Append(response, [name |-> name,
                                     values |-> [i \in 1 .. count |-> 10 * Len(response) + i]])
    /\ UNCHANGED <<subject, fields, hellos, frames, arrived, preface, block>>

AddExtension(k, ext) ==
    /\ subject = "hellos" /\ Len(hellos[k].exts) < MaxExtensions
    /\ \A i \in DOMAIN hellos[k].exts : hellos[k].exts[i].type # ext.type
    /\ hellos' = [hellos EXCEPT ![k].exts = Append(@, ext)]
    /\ UNCHANGED <<subject, fields, response, frames, arrived, preface, block>>

AddFrame(frame) ==
    /\ subject = "opening" /\ Len(frames) < MaxFrames /\ arrived = 0
    /\ frames' = Append(frames, frame)
    /\ UNCHANGED <<subject, fields, response, hellos, arrived, preface, block>>

Arrive(size) ==
    /\ subject = "opening" /\ size > arrived /\ size <= FrameEnd(frames, Len(frames))
    /\ arrived' = size
    /\ UNCHANGED <<subject, fields, response, hellos, frames, preface, block>>

\* Bridge.next_layer, for a connection with a profile.
NextLayer ==
    /\ subject = "opening" /\ arrived > 0
    /\ preface' = IF preface = None THEN ParseH2Preface(frames, arrived) ELSE preface
    /\ UNCHANGED <<subject, fields, response, hellos, frames, arrived, block>>

AddRepresentation(repr) ==
    /\ subject = "block" /\ Len(block) < MaxRepresentations
    /\ block' = Append(block, repr)
    /\ UNCHANGED <<subject, fields, response, hellos, frames, arrived, preface>>

ConversionNext ==
    \/ \E name \in HeaderNames : AddField(name)
    \/ \E name \in HeaderNames, count \in 1 .. 2 : AddResponse(name, count)
    \/ \E k \in 1 .. 2, ext \in Extensions : AddExtension(k, ext)
    \/ \E frame \in Frames : AddFrame(frame)
    \/ \E size \in 1 .. FrameEnd(frames, Len(frames)) : Arrive(size)
    \/ NextLayer
    \/ \E repr \in Representations : AddRepresentation(repr)

ConversionSpec == ConversionInit /\ [][ConversionNext]_conversionVars

-----------------------------------------------------------------------------
(* Request and response headers                                            *)

Modes == {"merge", "replace"}
Values(of) == [i \in DOMAIN of |-> of[i].value]
Named(name) == Only(fields, {f \in ToSet(fields) : f.name = name})

\* The values of a repeated name with its joiners.
JoinedValues(name) ==
    LET values == Values(Named(name))
    IN  [k \in 1 .. 2 * Len(values) - 1 |->
            IF k % 2 = 1 THEN values[(k + 1) \div 2]
            ELSE IF name.lower = Cookie THEN Crumbs ELSE Comma]

\* "Duplicates collapse here" (headers.py:37): when each name has one spelling,
\* a name has the client's values for it, in order, joined "; " for cookies and
\* ", " otherwise (headers.py:49-50).
RepeatsCollapse ==
    (\A i, j \in DOMAIN fields :
        fields[i].name.lower = fields[j].name.lower => fields[i].name = fields[j].name) =>
    \A mode \in Modes :
        LET headers == RequestHeaders(fields, mode)
        IN  /\ DOMAIN headers =
                  {fields[i].name : i \in {k \in DOMAIN fields : Forwarded(fields[k], mode)}}
            /\ \A name \in DOMAIN headers : headers[name] = JoinedValues(name)

\* However names are spelt and repeated, no value the client sent is lost, and
\* none turns up under another name (request_headers).
NoValueLost ==
    \A mode \in Modes, i \in DOMAIN fields :
        LET headers == RequestHeaders(fields, mode)
            at(i_) == {n \in DOMAIN headers : fields[i_].value \in ToSet(headers[n])}
        IN  /\ Forwarded(fields[i], mode) <=> at(i) # {}
            /\ \A n \in at(i) : n.lower = fields[i].name.lower

\* "Several Set-Cookie headers must survive as several headers" (headers.py:94):
\* each value of an end-to-end header is a pair of its own, in order, the length
\* and the encoding of the body have none, and end-to-end trailers lose nothing.
\* Nothing is said of the other hop-by-hop headers, "stripped in both directions"
\* (headers.py:11) but by the code only from requests: response_pairs drops two
\* names, trailer_pairs none.
ResponseKeepsRepeats ==
    LET pairs    == ResponsePairs(response)
        of(name) == Only(pairs, {p \in ToSet(pairs) : p.name = name})
        endToEnd(i) == response[i].name.lower \notin HopByHop
    IN  /\ \A i \in DOMAIN response :
              endToEnd(i) \/ response[i].name.lower \in ResponseDrop =>
              Values(of(response[i].name))
                = IF response[i].name.lower \in ResponseDrop THEN <<>> ELSE response[i].values
        /\ (\A i \in DOMAIN response : endToEnd(i)) =>
              Values(TrailerPairs(response)) = FlattenSeq([i \in DOMAIN response |-> response[i].values])

\* Repeated headers, in both directions: nothing the client said, and no
\* end-to-end header the server said, is lost, moved to another name or joined
\* otherwise than the code means to (request_headers, response_pairs,
\* trailer_pairs).
ValuesSurvive == RepeatsCollapse /\ NoValueLost /\ ResponseKeepsRepeats

\* A mirrored request's header_order names exactly what the exact form and the
\* merged one send, each once, in the order of the client's first fields.
OrderFitsHeaders ==
    LET order == HeaderKwargs(fields, "merge", "mirror").header_order
        exact == HeaderKwargs(fields, "exact", "mirror").exact_headers
        first(n) == CHOOSE i \in DOMAIN exact :
                        /\ exact[i].name.lower = n
                        /\ \A j \in 1 .. i - 1 : exact[j].name.lower # n
    IN  /\ ToSet(order) = {exact[i].name.lower : i \in DOMAIN exact}
        /\ ToSet(order) = {n.lower : n \in DOMAIN RequestHeaders(fields, "merge")}
        /\ \A i, j \in DOMAIN order : i < j => first(order[i]) < first(order[j])

-----------------------------------------------------------------------------
(* Hellos                                                                  *)

Info(k) == ParseClientHello(hellos[k], HelloLen(hellos[k]))
CutInfos(k) ==
    {ParseClientHello(hellos[k], size) :
        size \in {n \in 0 .. HelloLen(hellos[k]) : Outcome(hellos[k], n) = "parsed"}}

\* What a hello offers, whatever it sends first, with GREASE, or to a name.
OffersOf(h) ==
    [version |-> h.version, ciphers |-> Ungreased(h.ciphers),
     exts |-> {[type |-> e.type, items |-> Kept(e.type, e.items)] :
                  e \in {e \in ToSet(h.exts) : e.type # 0 /\ ~IsGrease(e.type)}}]

\* "A permuting client still lands on one identity" (capture.py:122-123), and
\* so does one that puts GREASE elsewhere or connects to a bare address
\* (capture.py:77-79).
OneClientOneIdentity ==
    OffersOf(hellos[1]) = OffersOf(hellos[2]) => StableId(Info(1)) = StableId(Info(2))

\* Hellos of one identity, cut ones included, are treated alike by all that goes
\* by the identity: all resume or none, all are QUIC's or none.
SameIdSameTreatment ==
    \A a \in CutInfos(1), b \in {Info(1), Info(2)} :
        StableId(a) = StableId(b) => HasPsk(a) = HasPsk(b) /\ IsQuic(a) = IsQuic(b)

\* A record cut short anywhere either raises or is read as the hello without
\* some of its last extensions and of their last items: nothing is made up.
CutLosesOnlyTheTail ==
    \A a \in CutInfos(1) :
        LET b == Info(1)
        IN  /\ a.ciphers = b.ciphers
            /\ IsPrefix(a.extension_order, b.extension_order)
            /\ \A field \in {"curves", "signature_algorithms", "supported_versions"} :
                  IsPrefix(a[field], b[field])
            /\ IsPrefix(Without(a.alpn, {TornName}), b.alpn)

-----------------------------------------------------------------------------
(* Openings and HPACK                                                      *)

Whole == ParseH2Preface(frames, FrameEnd(frames, Len(frames)))

\* The opening a connection keeps was cut where the client's first writes end:
\* its settings are the client's first ones, and its pseudo-header order, if
\* the HEADERS frame had come, is that of the whole opening.
KeptIsOfTheOpening ==
    preface # None =>
        /\ IsPrefix(preface.settings, Whole.settings)
        /\ preface.priority_frames <= Whole.priority_frames
        /\ preface.pseudo_order \in {None, Whole.pseudo_order}

\* What is read of a whole opening: the last window update of the connection,
\* never a stream's (capture.py:279-280), and the pseudo-header order of the block
\* in the first HEADERS frame, behind its priority; unless the frame is padded,
\* when the code takes the padding off the wrong end (capture.py:287).
OpeningIsRead ==
    LET windows  == Only(frames, {f \in ToSet(frames) : f.type = "WINDOW_UPDATE" /\ f.stream = 0})
        headers  == Only(frames, {f \in ToSet(frames) : f.type = "HEADERS"})
        fragment == IF headers[1].priority THEN After(headers[1].body, 5) ELSE headers[1].body
        pseudo   == Only(fragment, 129 .. 142)
    IN  Whole # None =>
            /\ Whole.window_update = IF windows = <<>> THEN None ELSE Last(windows).body[1]
            /\ headers # <<>> /\ ~headers[1].padded /\ pseudo # <<>>
                    /\ ToSet(fragment) \subseteq 129 .. 189 =>
                  Whole.pseudo_order = pseudo

\* RFC 7541, 5.1 and 5.2: an integer behind the bits of a pattern, and a string.
EncodedInt(value, bits, pattern) ==
    LET mask == 2 ^ bits - 1
        Rest[n \in 0 .. value] == IF n < 128 THEN <<n>> ELSE <<128 + (n % 128)>> \o Rest[n \div 128]
    IN  IF value < mask THEN <<pattern + value>> ELSE <<pattern + mask>> \o Rest[value - mask]
EncodedString(length) == EncodedInt(length, 7, 128) \o [i \in 1 .. length |-> 255]

\* RFC 7541, 6: a representation, with a name of its own when the index is 0.
Encoded(repr) ==
    LET kind    == repr.kind
        pattern == CASE kind = "indexed" -> 128 [] kind = "size" -> 32
                     [] kind = "incremental" -> 64 [] kind = "never" -> 16 [] OTHER -> 0
        bits    == CASE kind = "indexed" -> 7 [] kind = "size" -> 5
                     [] kind = "incremental" -> 6 [] OTHER -> 4
    IN  EncodedInt(repr.index, bits, pattern)
          \o (IF kind \in {"indexed", "size"} THEN <<>>
              ELSE (IF repr.index = 0 THEN EncodedString(repr.name) ELSE <<>>)
                     \o EncodedString(repr.value))

\* Each representation is found where it starts, at whatever lengths and
\* indices; a block cut short yields those that start before the cut, or less.
RepresentationsAligned ==
    LET bytes == FlattenSeq([i \in DOMAIN block |-> Encoded(block[i])])
        kept  == Only(block, {r \in ToSet(block) : r.kind # "size"})
        kinds == [i \in DOMAIN kept |-> kept[i].kind]
    IN  /\ HpackRepresentations(bytes) = kinds
        /\ \A size \in DOMAIN bytes :
              IsPrefix(HpackRepresentations(SubSeq(bytes, 1, size)), kinds)

=============================================================================
