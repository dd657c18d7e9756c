-------------------------------- MODULE Headers --------------------------------
(***************************************************************************)
(* mitmcloak/headers.py: the client's header fields on their way to        *)
(* httpcloak, and httpcloak's on their way back.                           *)
(*                                                                         *)
(* A name is a record of its lowercase form and of the way it is spelt; a  *)
(* value put together of several is the sequence of them and their         *)
(* joiners.  A dict is a function on names.                                *)
(***************************************************************************)
EXTENDS Lists, SequencesExt

CONSTANTS
    HopByHop, ResponseDrop,   \* lowercase names
    Semantic,                 \* and those that start with "x-"
    Cookie,
    Crumbs, Comma             \* the joiners "; " and ", "

Lower(name) == [name EXCEPT !.case = "lower"]

Got(out, name, otherwise) == IF name \in DOMAIN out THEN out[name] ELSE otherwise

Joiner(name) == IF name.lower = Cookie THEN Crumbs ELSE Comma

\* Slip: a repeated name is looked up in lowercase only.
ExistingLower(out, name) == Got(out, Lower(name), <<>>)

\* What a repeated name has already: under its own spelling, else in lowercase.
Existing(out, name) == Got(out, name, Got(out, Lower(name), <<>>))

Put(out, field) ==
    LET name == field.name
        value == IF {name, Lower(name)} \cap DOMAIN out = {} THEN <<field.value>>
                 ELSE Existing(out, name) \o <<Joiner(name), field.value>>
    IN  [n \in DOMAIN out \cup {name} |-> IF n = name THEN value ELSE out[n]]

\* Whether a field is the preset's to send in this mode.
Forwarded(field, mode) ==
    /\ field.name.lower \notin HopByHop
    /\ mode = "replace" => field.name.lower \in Semantic

RequestHeaders(fields, mode) ==
    Loop(Put, <<>>, Only(fields, {f \in ToSet(fields) : Forwarded(f, mode)}))

ExactHeaders(fields) == Only(fields, {f \in ToSet(fields) : f.name.lower \notin HopByHop})

\* Slip: a repeated name moves to its last place.
NotedLast(seen, field) ==
    IF field.name.lower \in HopByHop THEN seen
    ELSE Append(Without(seen, {field.name.lower}), field.name.lower)

Noted(seen, field) ==
    IF field.name.lower \in HopByHop \cup ToSet(seen) THEN seen
    ELSE Append(seen, field.name.lower)

HeaderOrder(fields) == Loop(Noted, <<>>, fields)

\* What Bridge._header_kwargs hands to request_async.
HeaderKwargs(fields, mode, reason) ==
    IF mode = "exact" THEN [exact_headers |-> ExactHeaders(fields)]
    ELSE IF reason = "mirror"
      THEN [headers |-> RequestHeaders(fields, mode), header_order |-> HeaderOrder(fields)]
    ELSE [headers |-> RequestHeaders(fields, mode)]

\* httpcloak's headers or trailers, each with its list of values, as pairs.
Pairs(headers) ==
    FlattenSeq([i \in DOMAIN headers |->
        [j \in DOMAIN headers[i].values |->
            [name |-> headers[i].name, value |-> headers[i].values[j]]]])

ResponsePairs(headers) ==
    Pairs(Only(headers, {h \in ToSet(headers) : h.name.lower \notin ResponseDrop}))

TrailerPairs(trailer) == Pairs(trailer)

=============================================================================
