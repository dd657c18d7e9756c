---------------------------------- MODULE Wire ----------------------------------
(***************************************************************************)
(* mitmcloak/capture.py: what is read of a ClientHello, of a client's      *)
(* HTTP/2 opening, and of an HPACK block.                                  *)
(*                                                                         *)
(* A hello and an opening are what the client meant, with the lengths its  *)
(* bytes have; the parsers get the first so many bytes of it.  An HPACK    *)
(* block is its bytes.                                                     *)
(***************************************************************************)
EXTENDS Lists, FiniteSets, SequencesExt

CONSTANTS
    NameLen,       \* the length of an ALPN name
    KeyLen,        \* the length of a key share
    H3Names,       \* ALPN names that start with "h3"
    TornName,      \* an ALPN name of which only a part was read
    None

\* is_grease.
IsGrease(value) == value % 16 = 10 /\ (value \div 256) % 16 = 10

Ungreased(values) == Only(values, {v \in ToSet(values) : ~IsGrease(v)})

Least(a, b) == IF a <= b THEN a ELSE b

-----------------------------------------------------------------------------
(* A hello: [version, session, ciphers, compression, exts]; session and     *)
(* compression are lengths, an extension has a type and items.              *)

\* The bytes before the items of an extension, and those of an item.
Prefix(type) ==
    CASE type \in {10, 13, 16, 51} -> 2 [] type \in {11, 27, 43} -> 1 [] OTHER -> 0
ItemSize(type) ==
    CASE type \in {10, 13, 27, 28, 43} -> 2 [] type = 16 -> 1 + NameLen
      [] type = 51 -> 4 + KeyLen [] OTHER -> 1
\* The bytes of an item with which it is taken for one.
ItemHead(type) == CASE type = 16 -> 1 [] type = 51 -> 4 [] OTHER -> ItemSize(type)

DataLen(ext) == Prefix(ext.type) + ItemSize(ext.type) * Len(ext.items)

\* Offsets in the body, which follows the 5 bytes of the record header.
SessionAt == 38
CiphersAt(h) == SessionAt + 1 + h.session
CompressionAt(h) == CiphersAt(h) + 2 + 2 * Len(h.ciphers)
ExtensionsAt(h) == CompressionAt(h) + 1 + h.compression
ExtensionAt(h, i) ==
    ExtensionsAt(h) + 2 + Total([j \in 1 .. i - 1 |-> 4 + DataLen(h.exts[j])])
HelloLen(h) == ExtensionAt(h, Len(h.exts) + 1)

\* Slip: the compression methods are skipped without a look.
OutcomeUnchecked(h, size) ==
    IF size < SessionAt THEN "ValueError"
    ELSE IF size = SessionAt THEN "IndexError"
    ELSE IF size < CiphersAt(h) + 2 THEN "error"
    ELSE "parsed"

\* How parse_client_hello ends on the first `size` bytes of the body.
Outcome(h, size) ==
    IF size < SessionAt THEN "ValueError"
    ELSE IF size = SessionAt THEN "IndexError"
    ELSE IF size < CiphersAt(h) + 2 THEN "error"
    ELSE IF size <= CompressionAt(h) THEN "IndexError"
    ELSE "parsed"

\* The items _read_extension finds in `size` bytes of an extension.
ItemsRead(ext, size) ==
    LET type  == ext.type
        room  == size - Prefix(type)
        count == IF room < 0 THEN 0
                 ELSE (room + ItemSize(type) - ItemHead(type)) \div ItemSize(type)
        whole == room >= 0 /\ room % ItemSize(type) = 0
    IN  IF type = 16 /\ count > 0 /\ ~whole
          THEN Append(SubSeq(ext.items, 1, count - 1), TornName)
          ELSE SubSeq(ext.items, 1, count)

\* What is kept of the items.
Kept(type, items) ==
    CASE type \in {10, 43} -> Ungreased(items)
      [] type = 51 -> Len(Ungreased(items))
      [] OTHER -> items

\* How many extensions have their header in the first `size` bytes.
ExtensionsRead(h, size) ==
    Cardinality({i \in DOMAIN h.exts : ExtensionAt(h, i) + 4 <= size})

\* The ClientHelloInfo, without its bytes; a type is there once at most.
ParseClientHello(h, size) ==
    LET seen == Only(SubSeq(h.exts, 1, ExtensionsRead(h, size)),
                     {e \in ToSet(h.exts) : ~IsGrease(e.type)})
        cipherRoom == size - CiphersAt(h) - 2
        Body(i) == ItemsRead(h.exts[i], Least(DataLen(h.exts[i]), size - ExtensionAt(h, i) - 4))
        Of(type) ==
            LET at == {i \in 1 .. ExtensionsRead(h, size) : h.exts[i].type = type}
            IN  Kept(type, IF at = {} THEN <<>> ELSE Body(CHOOSE i \in at : TRUE))
    IN  [version |-> h.version,
         ciphers |-> SubSeq(h.ciphers, 1, Least(Len(h.ciphers), cipherRoom \div 2)),
         extension_order |-> [i \in DOMAIN seen |-> seen[i].type],
         curves |-> Of(10), point_formats |-> Of(11), signature_algorithms |-> Of(13),
         alpn |-> Of(16), cert_compression |-> Of(27), record_size_limit |-> Of(28),
         supported_versions |-> Of(43), key_share_curves |-> Of(51)]

\* Slip: the order of the extensions is part of the identity.
OfferedInOrder(info) == info.extension_order

\* The extension types that identify a client: not server_name, in any order.
Offered(info) == ToSet(info.extension_order) \ {0}

\* Slip: the identity of a hello that resumes is that of a fresh one.
FamilyIdOfFresh(info) ==
    <<info.version, Ungreased(info.ciphers), Offered(info) \ {41}, info.curves,
      info.point_formats, info.signature_algorithms, info.cert_compression,
      info.key_share_curves, info.record_size_limit>>

\* The digests stand for what they are taken of.
FamilyId(info) ==
    <<info.version, Ungreased(info.ciphers), Offered(info), info.curves, info.point_formats,
      info.signature_algorithms, info.cert_compression, info.key_share_curves,
      info.record_size_limit>>

StableId(info) == <<FamilyId(info), info.alpn>>

HasPsk(info) == 41 \in ToSet(info.extension_order)

IsQuic(info) ==
    \/ 57 \in ToSet(info.extension_order)
    \/ info.alpn # <<>> /\ ToSet(info.alpn) \subseteq H3Names

-----------------------------------------------------------------------------
(* An opening: a sequence of frames [type, stream, padded, priority, body]. *)
(* The body of SETTINGS is a sequence of settings, that of WINDOW_UPDATE one *)
(* of an increment, that of HEADERS its bytes.                              *)

PrefaceLen == 24
FrameLen(frame) ==
    9 + (CASE frame.type = "SETTINGS" -> 6 * Len(frame.body)
           [] frame.type = "WINDOW_UPDATE" -> 4
           [] frame.type = "PRIORITY" -> 5
           [] OTHER -> Len(frame.body))
FrameEnd(frames, i) == PrefaceLen + Total([j \in 1 .. i |-> FrameLen(frames[j])])

\* Slip: a HEADERS frame is read as far as it came.
ArrivedInPart(frames, size) ==
    LET IsCut(i) ==
            frames[i].type = "HEADERS" /\ size \in FrameEnd(frames, i - 1) + 9 .. FrameEnd(frames, i) - 1
        whole    == {i \in DOMAIN frames : FrameEnd(frames, i) <= size}
    IN  [i \in 1 .. Cardinality({i \in DOMAIN frames : i \in whole \/ IsCut(i)}) |->
            IF IsCut(i)
              THEN [frames[i] EXCEPT !.body = SubSeq(@, 1, size - FrameEnd(frames, i - 1) - 9)]
              ELSE frames[i]]

\* The frames that are whole in the first `size` bytes.
Arrived(frames, size) ==
    SubSeq(frames, 1, Cardinality({i \in DOMAIN frames : FrameEnd(frames, i) <= size}))

After(bytes, n) == SubSeq(bytes, n + 1, Len(bytes))

\* Slip: the priority is read as the start of the block.
HeaderBlockWithPriority(frame) ==
    IF frame.padded /\ frame.body # <<>> THEN After(frame.body, 1 + frame.body[1]) ELSE frame.body

\* The header block of a HEADERS frame.  The code takes the padding off at the
\* front, though it is at the end.
HeaderBlock(frame) ==
    LET unpadded == IF frame.padded /\ frame.body # <<>>
                      THEN After(frame.body, 1 + frame.body[1]) ELSE frame.body
    IN  IF frame.priority THEN After(unpadded, 5) ELSE unpadded

\* _pseudo_order, of a block of indexed representations of the static table, in
\* which the pseudo-headers come first; any other byte ends in an exception.
PseudoOrder(block) ==
    LET order == Only(block, 129 .. 142)
    IN  IF order = <<>> \/ ~(ToSet(block) \subseteq 129 .. 189) THEN None ELSE order

IsConnectionWindow(frame) == frame.type = "WINDOW_UPDATE" /\ frame.stream = 0

ParseH2Preface(frames, size) ==
    LET whole    == Arrived(frames, size)
        settings == Only(whole, {f \in ToSet(whole) : f.type = "SETTINGS"})
        windows  == Only(whole, {f \in ToSet(whole) : IsConnectionWindow(f)})
        priority == Only(whole, {f \in ToSet(whole) : f.type = "PRIORITY"})
        blocks   == Only(whole, {f \in ToSet(whole) : f.type = "HEADERS" /\ HeaderBlock(f) # <<>>})
    IN  IF size < PrefaceLen THEN None
        ELSE [settings |-> FlattenSeq([i \in DOMAIN settings |-> settings[i].body]),
              window_update |-> IF windows = <<>> THEN None ELSE windows[Len(windows)].body[1],
              priority_frames |-> Len(priority),
              pseudo_order |-> IF blocks = <<>> THEN None
                               ELSE PseudoOrder(HeaderBlock(blocks[1]))]

-----------------------------------------------------------------------------
(* HPACK, on a sequence of bytes with positions from 1.                     *)

\* Slip: the mask itself is a value.
IsShort(value, mask) == value <= mask
IsWhole(value, mask) == value < mask

\* _hpack_varint: the value at pos and the position after it; None for
\* IndexError.
HpackVarint(bytes, pos, bits) ==
    LET mask == 2 ^ bits - 1
        More[p \in 1 .. Len(bytes) + 1] ==    \* the value and end of what follows
            IF p > Len(bytes) THEN None
            ELSE IF bytes[p] < 128 THEN [value |-> bytes[p], next |-> p + 1]
            ELSE IF More[p + 1] = None THEN None
            ELSE [value |-> (bytes[p] % 128) + 128 * More[p + 1].value, next |-> More[p + 1].next]
    IN  IF pos > Len(bytes) THEN None
        ELSE IF IsWhole(bytes[pos] % 2 ^ bits, mask)
          THEN [value |-> bytes[pos] % 2 ^ bits, next |-> pos + 1]
        ELSE IF More[pos + 1] = None THEN None
        ELSE [value |-> mask + More[pos + 1].value, next |-> More[pos + 1].next]

\* _hpack_skip_string: past the end, perhaps.
HpackSkipString(bytes, pos) ==
    LET length == HpackVarint(bytes, pos, 7)
    IN  IF length = None THEN None ELSE length.next + length.value

HpackKind(first) ==
    CASE first >= 128 -> "indexed" [] first \div 32 = 1 -> "size"
      [] first \div 64 = 1 -> "incremental" [] first \div 16 = 1 -> "never"
      [] OTHER -> "without"
HpackBits(kind) ==
    CASE kind = "indexed" -> 7 [] kind = "size" -> 5 [] kind = "incremental" -> 6 [] OTHER -> 4

\* The end of the representation at pos.
HpackEnd(bytes, pos) ==
    LET kind  == HpackKind(bytes[pos])
        index == HpackVarint(bytes, pos, HpackBits(kind))
        name  == IF index = None THEN None
                 ELSE IF index.value = 0 THEN HpackSkipString(bytes, index.next) ELSE index.next
    IN  IF index = None THEN None
        ELSE IF kind \in {"indexed", "size"} THEN index.next
        ELSE IF name = None THEN None ELSE HpackSkipString(bytes, name)

\* parse_hpack_representations, without the names, which are paired by index.
HpackRepresentations(bytes) ==
    LET From[pos \in 1 .. Len(bytes) + 1] ==
            IF pos > Len(bytes) \/ HpackEnd(bytes, pos) = None THEN <<>>
            ELSE (IF HpackKind(bytes[pos]) = "size" THEN <<>> ELSE <<HpackKind(bytes[pos])>>)
                    \o From[Least(HpackEnd(bytes, pos), Len(bytes) + 1)]
    IN  From[1]

=============================================================================
