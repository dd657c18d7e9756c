----------------------------- MODULE MCConversions -----------------------------
(* Instances of Conversions: names in two spellings, a hop-by-hop one and one *)
(* a preset sends; a resumption, GREASE, QUIC and ALPN among the extensions;  *)
(* frames of two streams, with priority and padding; HPACK integers at the    *)
(* limits of their prefixes.                                                  *)
EXTENDS Conversions

Name(lower, case) == [lower |-> lower, case |-> case]
SomeNames ==
    {Name("cookie", "lower"), Name("cookie", "title"), Name("x-a", "title"),
     Name("accept-language", "lower"), Name("connection", "lower"),
     Name("content-length", "title")}

Ext(type, items) == [type |-> type, items |-> items]
SomeExtensions ==
    {Ext(0, <<1>>), Ext(10, <<29, 23>>), Ext(10, <<2570, 29, 23>>), Ext(2570, <<>>),
     Ext(16, <<"h2", "h3">>), Ext(41, <<1>>), Ext(57, <<>>), Ext(51, <<2570, 29>>)}
Bare(ciphers) ==
    [version |-> 771, session |-> 1, ciphers |-> ciphers, compression |-> 1, exts |-> <<>>]
TwoHellos == <<Bare(<<4865>>), Bare(<<2570, 4865>>)>>

Frame(type, stream, body) ==
    [type |-> type, stream |-> stream, padded |-> FALSE, priority |-> FALSE, body |-> body]
SomeFrames ==
    {Frame("SETTINGS", 0, <<"a", "b">>), Frame("WINDOW_UPDATE", 0, <<7>>),
     Frame("WINDOW_UPDATE", 1, <<8>>), Frame("PRIORITY", 1, <<>>),
     Frame("HEADERS", 1, <<130, 132, 151>>),
     [Frame("HEADERS", 1, <<128, 0, 0, 0, 255, 132, 130>>) EXCEPT !.priority = TRUE],
     [Frame("HEADERS", 1, <<1, 130, 132, 0>>) EXCEPT !.padded = TRUE]}

Repr(kind, index, name, value) == [kind |-> kind, index |-> index, name |-> name, value |-> value]
SomeRepresentations ==
    {Repr("indexed", i, 0, 0) : i \in {1, 126, 127, 128, 255, 300}}
        \cup {Repr("size", i, 0, 0) : i \in {0, 30, 31, 4096}}
        \cup {Repr("incremental", i, 2, 0) : i \in {0, 62, 63}}
        \cup {Repr("without", 0, 1, 126), Repr("without", 15, 0, 127), Repr("never", 14, 0, 3),
              Repr("never", 0, 128, 1)}
=============================================================================
