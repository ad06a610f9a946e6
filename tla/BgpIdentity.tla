----------------------------- MODULE BgpIdentity ------------------------------
(***************************************************************************)
(* The semantic identity of an announced route.  The decoder               *)
(* (product/src/deep/bgp.rs) projects the attribute occurrences of an      *)
(* UPDATE onto effective attributes, rebuilding four-octet paths, and      *)
(* fingerprints them; the candidate reducer (bgp_state.rs) admits a route  *)
(* only after recomputing the projection from the occurrences, on its own. *)
(*                                                                         *)
(* An attribute on the wire is [code, flags, partial, value, octets]; its  *)
(* value is what its octets spell: a path, an <<asn, address>>, a <<token>>, *)
(* and for AS_PATH the path at either width, if any.  A retained           *)
(* occurrence is [wire, decoded, interpretations, valid, first,            *)
(* disposition, reading]: an AS_PATH decoded without knowing the width has *)
(* the interpretations its octets allow in place of a value.  Fingerprints *)
(* are equal exactly when payloads are, digests exactly when bytes are.    *)
(***************************************************************************)
EXTENDS BgpWire

VARIABLE
    ident            \* one route: [kind, wire, spelled, layout, peer, steps, claim]

Nothing == <<>>      \* Json::Null, an empty list and an empty path alike
NoPayload == [absent |-> TRUE]

(***************************************************************************)
(* decode_attribute_value: what an attribute's octets must look like.      *)
(***************************************************************************)
PathAsns(path) == FoldLeft(LAMBDA n, s : n + Len(s.values), 0, path)
PathOctets(path, width) == 2 * Len(path) + width * PathAsns(path)

\* The octets of a path in pairs: kind and count, then the numbers, a pair or two each.
PathWords(path, width) ==
    FlattenSeq([i \in DOMAIN path |->
        <<256 * path[i].kind + Len(path[i].values)>>
        \o (IF width = 2 THEN path[i].values
            ELSE FlattenSeq([j \in DOMAIN path[i].values |->
                    <<path[i].values[j] \div 65536, path[i].values[j] % 65536>>]))])

SegmentAt(ws, width) ==
    [kind   |-> ws[1] \div 256,
     values |-> [j \in 1 .. (ws[1] % 256) |->
                    IF width = 2 THEN ws[1 + j] ELSE 65536 * ws[2 * j] + ws[2 * j + 1]]]

\* The path that the pairs spell at a width, or none.
RECURSIVE ParseAsPath(_, _)
ParseAsPath(ws, width) ==
    LET size == 1 + ((ws[1] % 256) * width) \div 2
    IN  CASE ws = <<>> -> {<<>>}
          [] ws # <<>> /\ (ws[1] \div 256 \notin 1 .. 4 \/ size \notin 2 .. Len(ws)) -> {}
          [] OTHER -> {<<SegmentAt(ws, width)>> \o rest :
                         rest \in ParseAsPath(SubSeq(ws, size + 1, Len(ws)), width)}

PathValue(ws) == [width \in {2, 4} |-> ParseAsPath(ws, width)]

NoAsZero(path) == \A i \in DOMAIN path : 0 \notin ToSet(path[i].values)

\* path_alternatives: without a width, what both have to say.
PathAlternatives(a, width) ==
    IF width = 0 THEN a.value[2] \cup a.value[4] ELSE a.value[width]

\* The path of an AS_PATH; none is published when the widths disagree.
PublishedPath(a, width) ==
    LET paths == PathAlternatives(a, width)
    IN  IF Cardinality(paths) = 1 THEN CHOOSE p \in paths : TRUE ELSE Nothing

ScalarOctets(a) ==
    CASE a.code = 1 -> a.octets = 1 /\ a.value[1] \in 0 .. 2
      [] a.code = 6 -> a.octets = 0
      [] a.code \in {3, 4, 5, 9, 35} -> a.octets = 4

ListOctets(a) ==
    a.octets > 0 /\ a.octets % (CASE a.code \in {8, 10} -> 4
                                  [] a.code = 16 -> 8 [] a.code = 32 -> 12) = 0

AggregatorOctets(a, width) ==
    /\ a.octets \in (IF a.code = 18 THEN {8} ELSE IF width = 0 THEN {6, 8} ELSE {width + 4})
    /\ a.value[1] # 0

As4PathOctets(a) == a.octets >= 6 /\ NoAsZero(a.value)

ValueDecodes(a, width) ==
    CASE a.code \in {1, 3, 4, 5, 6, 9, 35} -> ScalarOctets(a)
      [] a.code \in {8, 10, 16, 32} -> ListOctets(a)
      [] a.code \in {7, 18} -> AggregatorOctets(a, width)
      [] a.code = 2 -> PathAlternatives(a, width) # {} /\ NoAsZero(PublishedPath(a, width))
      [] a.code = 17 -> As4PathOctets(a)
      [] OTHER -> TRUE

\* attribute_value: the value that goes into the record.
ValueAt(a, width) == IF a.code = 2 THEN PublishedPath(a, width) ELSE a.value

(***************************************************************************)
(* parse_attributes: the occurrences BgpWire decides about.                *)
(***************************************************************************)
Decoded(wire, width) ==
    [i \in DOMAIN wire |->
        [code |-> wire[i].code, flags |-> wire[i].flags, partial |-> wire[i].partial,
         valid |-> ValueDecodes(wire[i], width), ignored |-> FALSE, family |-> BaseFamily,
         routes |-> <<>>]]

AcceptedFirst(wire, dispositions, code) ==
    LET found == {i \in DOMAIN wire :
                    wire[i].code = code /\ dispositions[i] = "accept_evidence_only"}
    IN IF found = {} THEN Nothing ELSE <<wire[CHOOSE i \in found : \A j \in found : i <= j]>>

ValueOf(found, width) == IF found = Nothing THEN Nothing ELSE ValueAt(found[1], width)

(***************************************************************************)
(* as4_reconstruction.                                                     *)
(***************************************************************************)
Longer(base, as4) == PathCount(Usable(as4)) > PathCount(base)

As4Status(base, as4, agg, agg4) ==
    CASE base = Nothing /\ as4 # Nothing -> "as4_without_base_path"
      [] agg # Nothing /\ agg4 # Nothing /\ agg[1].value[1] # AsTrans -> "non_as_trans"
      [] as4 # Nothing /\ base # Nothing /\ Longer(ValueAt(base[1], 2), as4[1].value) -> "longer"
      [] OTHER -> "old_new"

As4Path(status, base, as4) ==
    IF status = "old_new" /\ base # Nothing /\ as4 # Nothing
    THEN ReconstructAs4Suffix(ValueAt(base[1], 2), as4[1].value) ELSE ValueOf(base, 2)

As4Aggregator(status, agg, agg4) ==
    IF status # "non_as_trans" /\ agg # Nothing /\ agg4 # Nothing
       /\ agg[1].value[1] = AsTrans
    THEN agg4[1].value ELSE ValueOf(agg, 2)

As4Ignored(status, code) ==
    \/ status = "longer" /\ code = 17
    \/ status = "non_as_trans" /\ code \in {17, 18}

As4Reconstruction(status, base, as4, agg, agg4) ==
    [status |-> status, path |-> As4Path(status, base, as4),
     aggregator |-> As4Aggregator(status, agg, agg4)]

As4(wire, width, ds) ==
    IF width # 2
    THEN [status |-> "new_new", path |-> ValueOf(AcceptedFirst(wire, ds, 2), width),
          aggregator |-> ValueOf(AcceptedFirst(wire, ds, 7), width)]
    ELSE As4Reconstruction(As4Status(AcceptedFirst(wire, ds, 2), AcceptedFirst(wire, ds, 17),
                                     AcceptedFirst(wire, ds, 7), AcceptedFirst(wire, ds, 18)),
                           AcceptedFirst(wire, ds, 2), AcceptedFirst(wire, ds, 17),
                           AcceptedFirst(wire, ds, 7), AcceptedFirst(wire, ds, 18))

(***************************************************************************)
(* The producer's route: attributes, occurrences and identity.             *)
(***************************************************************************)
\* merge_attribute, for the fields that are the value of one attribute.
Plain == [origin |-> 1, med |-> 4, localPref |-> 5, communities |-> 8, originator |-> 9,
          clusters |-> 10]

Merged(wire, ds, as4) ==
    [f \in DOMAIN Plain \cup {"path", "aggregator", "nextHop"} |->
        CASE f = "path" -> as4.path
          [] f = "aggregator" -> as4.aggregator
          [] f = "nextHop" -> ValueOf(AcceptedFirst(wire, ds, 3), 0)
          [] OTHER -> ValueOf(AcceptedFirst(wire, ds, Plain[f]), 0)]

Reading(a, i, as, layout, peer) ==
    CASE ~as[i].valid -> "invalid"
      [] as[i].valid /\ a.code \in PeerDependent /\ FlagsValid(a) /\ peer = "External" -> "external"
      [] as[i].valid /\ a.code \in PeerDependent /\ FlagsValid(a) /\ peer = "Unknown" -> "peer_unknown"
      [] as[i].valid /\ a.code \in {2, 7} /\ layout.width = 0 ->
            IF a.code = 2 /\ Cardinality(PathAlternatives(a, 0)) > 1
            THEN "unresolved" ELSE "shape_only"
      [] OTHER -> "decoded"

Ranges(wire, as, ds, as4, layout, peer) ==
    [i \in DOMAIN wire |->
        [wire |-> wire[i], valid |-> as[i].valid, first |-> ~Repeated(as, i),
         decoded |-> IF as[i].valid /\ ~(wire[i].code = 2 /\ layout.width = 0)
                     THEN ValueAt(wire[i], layout.width) ELSE Nothing,
         interpretations |-> IF as[i].valid /\ wire[i].code = 2 /\ layout.width = 0
                             THEN PathAlternatives(wire[i], 0) ELSE {},
         disposition |-> IF ds[i] = "accept_evidence_only" /\ As4Ignored(as4.status, wire[i].code)
                         THEN "attribute_discard" ELSE ds[i],
         reading |-> Reading(wire[i], i, as, layout, peer)]]

SortedPath(path) ==
    [i \in DOMAIN path |-> IF path[i].kind \in {1, 4}
                           THEN [path[i] EXCEPT !.values = SortSeq(@, LAMBDA x, y : x < y)]
                           ELSE path[i]]

Payload(attrs, atomic, large) ==
    [attrs |-> [attrs EXCEPT !.path = SortedPath(@)], atomic |-> atomic, large |-> large]

NoIdentity == [completeness |-> "incomplete", payload |-> NoPayload, fingerprint |-> NoPayload]

CaptureSemanticIdentity(wire, as, ds, layout, peer, attrs) ==
    IF IdentityComplete(as, layout, peer) /\ attrs.nextHop # Nothing
    THEN LET p == Payload(attrs, 6 \in Codes(as), ValueOf(AcceptedFirst(wire, ds, 32), 0))
         IN [completeness |-> "complete", payload |-> p, fingerprint |-> p]
    ELSE NoIdentity

Assembled(kind, wire, as, ds, as4, layout, peer) ==
    LET attrs == Merged(wire, ds, as4)
    IN [kind |-> kind, attrs |-> attrs, ranges |-> Ranges(wire, as, ds, as4, layout, peer),
        identity |-> CaptureSemanticIdentity(wire, as, ds, layout, peer, attrs),
        message |-> wire]

WithDispositions(kind, wire, as, ds, layout, peer) ==
    Assembled(kind, wire, as, ds, As4(wire, layout.width, ds), layout, peer)

WithOccurrences(kind, wire, as, layout, peer) ==
    WithDispositions(kind, wire, as, [i \in DOMAIN as |-> Disposition(as, i, layout, peer)],
                     layout, peer)

RouteRecord(kind, wire, layout, peer) ==
    WithOccurrences(kind, wire, Decoded(wire, layout.width), layout, peer)

(***************************************************************************)
(* parse_route: what the reducer admits.                                   *)
(***************************************************************************)
FirstOccurrence(os, code) ==
    IF \E i \in DOMAIN os : os[i].wire.code = code
    THEN <<os[CHOOSE i \in DOMAIN os : os[i].wire.code = code
                 /\ \A j \in 1 .. (i - 1) : os[j].wire.code # code]>>
    ELSE Nothing

FirstEffectiveOccurrence(os, code) ==
    LET f == FirstOccurrence(os, code)
    IN IF f = Nothing THEN Nothing
       ELSE IF f[1].disposition = "accept_evidence_only" THEN f ELSE Nothing

FirstEffectiveAttribute(os, code) ==
    LET f == FirstEffectiveOccurrence(os, code)
    IN IF f = Nothing THEN Nothing ELSE f[1].decoded

Later(os, i) == \E j \in 1 .. (i - 1) : os[j].wire.code = os[i].wire.code

KnownDiscard(o) ==
    /\ o.disposition = "attribute_discard"
    /\ o.wire.code \in {17, 18} \/ (o.wire.code \in PeerDependent /\ o.reading = "external")

ValidateCompleteOccurrences(os) ==
    \A i \in DOMAIN os :
        \/ Later(os, i) /\ os[i].disposition = "discard_later_occurrence"
        \/ /\ os[i].wire.code \in IdentityCodes
           /\ os[i].disposition = "accept_evidence_only" \/ KnownDiscard(os[i])
           /\ FlagsValid(os[i].wire) /\ ~os[i].wire.partial
           /\ os[i].valid /\ os[i].first
           /\ os[i].reading \notin {"unresolved", "shape_only"}

\* canonical_source_as_path: an object of interpretations counts when they agree.
SourcePath(o) ==
    LET paths == {SortedPath(p) : p \in IF o.interpretations = {} THEN {o.decoded}
                                        ELSE o.interpretations}
    IN  IF Cardinality(paths) = 1 THEN CHOOSE p \in paths : TRUE ELSE Nothing

\* The width the extent of the retained values shows, 0 when they show none; no
\* width at all when they fit neither.
SourceWidths(path, octets, agg) ==
    IF PathAsns(path) # 0 THEN {w \in {2, 4} : octets = 2 * Len(path) + w * PathAsns(path)}
    ELSE IF agg = Nothing THEN {0} ELSE {w \in {2, 4} : agg[1].wire.octets = w + 4}

SourceDiscard(o, width, nonTrans, base, as4) ==
    \/ width = 4
    \/ nonTrans
    \/ o.wire.code = 17 /\ Longer(base, as4)

DiscardsAgree(os, width, nonTrans, base, as4) ==
    \A code \in {17, 18} : LET f == FirstOccurrence(os, code)
                           IN f = Nothing \/ width = 0
                              \/ (f[1].disposition = "attribute_discard")
                                  = SourceDiscard(f[1], width, nonTrans, base, as4)

SourceUntouched(f17, f18, width) ==
    \/ width = 4
    \/ width = 0 /\ \A f \in {f17, f18} :
                       f = Nothing \/ f[1].disposition = "attribute_discard"

SourceAs4(path, agg, f17, f18, width) ==
    IF SourceUntouched(f17, f18, width)
       \/ (agg # Nothing /\ f18 # Nothing /\ agg[1].decoded[1] # AsTrans)
    THEN [path |-> path, aggregator |-> IF agg = Nothing THEN Nothing ELSE agg[1].decoded]
    ELSE [path |-> IF f17 = Nothing THEN path ELSE ReconstructAs4Suffix(path, f17[1].decoded),
          aggregator |-> IF agg = Nothing THEN Nothing
                         ELSE IF f18 = Nothing THEN agg[1].decoded ELSE f18[1].decoded]

\* The values that may be accepted: one pair, or none.
EffectiveSourceAs4(os, base, agg, f17, f18) ==
    LET path == IF base = Nothing THEN Nothing ELSE SourcePath(base[1])
        nonTrans == agg # Nothing /\ f18 # Nothing /\ agg[1].decoded[1] # AsTrans
        as4 == IF f17 = Nothing THEN Nothing ELSE f17[1].decoded
    IN  IF base = Nothing \/ (f17 = Nothing /\ f18 = Nothing)
        THEN {[path |-> path, aggregator |-> IF agg = Nothing THEN Nothing ELSE agg[1].decoded]}
        ELSE {SourceAs4(path, agg, f17, f18, width) :
                width \in {w \in SourceWidths(path, base[1].wire.octets, agg) :
                              DiscardsAgree(os, w, nonTrans, path, as4)}}

ProjectionAgrees(os, attrs, sources) ==
    /\ \E source \in sources : /\ SortedPath(source.path) = SortedPath(attrs.path)
                              /\ source.aggregator = attrs.aggregator
    /\ \A f \in DOMAIN Plain : attrs[f] = FirstEffectiveAttribute(os, Plain[f])
    /\ attrs.nextHop = FirstEffectiveAttribute(os, 3)

ValidateCapturedAttributeProjection(os, attrs) ==
    ProjectionAgrees(os, attrs,
        EffectiveSourceAs4(os, FirstEffectiveOccurrence(os, 2), FirstEffectiveOccurrence(os, 7),
                           FirstOccurrence(os, 17), FirstOccurrence(os, 18)))

\* Mutant of ValidateIdentityAttributes: only the fingerprinted copy is compared.
ValidateIdentityCopy(payload, attrs, os) ==
    payload.attrs = [attrs EXCEPT !.path = SortedPath(@)]

ValidateIdentityAttributes(payload, attrs, os) ==
    /\ payload.attrs = [attrs EXCEPT !.path = SortedPath(@)]
    /\ payload.atomic = (FirstEffectiveOccurrence(os, 6) # Nothing)
    /\ payload.large = FirstEffectiveAttribute(os, 32)
    /\ ValidateCapturedAttributeProjection(os, attrs)

ValidateSemanticIdentity(r) ==
    IF r.identity.completeness = "complete"
    THEN /\ r.identity.payload # NoPayload
         /\ r.identity.fingerprint = r.identity.payload
         /\ ValidateCompleteOccurrences(r.ranges)
         /\ ValidateIdentityAttributes(r.identity.payload, r.attrs, r.ranges)
    ELSE r.identity.payload = NoPayload /\ r.identity.fingerprint = NoPayload

\* An imported inventory spells the whole message, in order.
ValidateImportedMessageClosure(r) == [i \in DOMAIN r.ranges |-> r.ranges[i].wire] = r.message

\* ...and each decoded value is what its octets spell; an AGGREGATOR's width is
\* read off its length, and NEXT_HOP, LOCAL_PREF and the like need their width only.
ImportedValueDecodes(a) ==
    CASE a.code \in {1, 3, 4, 5, 6, 9, 35} -> ScalarOctets(a)
      [] a.code = 7 -> a.octets \in {6, 8} /\ a.value[1] # 0
      [] a.code = 18 -> AggregatorOctets(a, 4)
      [] a.code \in {8, 32} -> ListOctets(a)
      [] a.code = 10 -> a.octets % 4 = 0
      [] a.code = 17 -> As4PathOctets(a)
      [] OTHER -> TRUE

\* The octets are read at the width that fits the claimed path; interpretations of
\* an AS_PATH are not compared with the octets.
ImportedPathAgrees(o) ==
    LET width == IF o.wire.octets = PathOctets(o.decoded, 2) THEN 2 ELSE 4
    IN  o.interpretations = {} =>
            \E p \in o.wire.value[width] : NoAsZero(p) /\ SortedPath(p) = SortedPath(o.decoded)

ValidateImportedOccurrenceValues(r) ==
    \A i \in DOMAIN r.ranges : r.ranges[i].valid =>
        IF r.ranges[i].wire.code = 2 THEN ImportedPathAgrees(r.ranges[i])
        ELSE /\ ImportedValueDecodes(r.ranges[i].wire)
             /\ r.ranges[i].decoded = r.ranges[i].wire.value

RouteAdmitted(r) ==
    /\ r.kind = "Imported" => ValidateImportedMessageClosure(r)
                              /\ ValidateImportedOccurrenceValues(r)
    /\ ValidateSemanticIdentity(r)

\* The announced route stays a candidate, but no identity is trusted.
AmbiguousAttributes(r) ==
    \/ r.identity.completeness # "complete"
    \/ \E i \in DOMAIN r.ranges :
          \/ Later(r.ranges, i) /\ r.ranges[i].disposition # "discard_later_occurrence"
          \/ r.ranges[i].reading = "unresolved"

(***************************************************************************)
(* One route: decoded, perhaps altered on its way, and admitted or not.    *)
(***************************************************************************)
WithPath(r, v) ==
    [r EXCEPT !.attrs.path = v, !.identity.payload.attrs.path = SortedPath(v),
              !.identity.fingerprint.attrs.path = SortedPath(v)]

PathsOf(r) == {r.ranges[i].decoded : i \in {j \in DOMAIN r.ranges : r.ranges[j].wire.code \in {2, 17}}}

Rewrites(r) ==
    {WithPath(r, v) : v \in PathsOf(r)}
    \cup {[r EXCEPT !.attrs.aggregator = v, !.identity.payload.attrs.aggregator = v,
                    !.identity.fingerprint.attrs.aggregator = v] :
        v \in {r.ranges[i].decoded : i \in {j \in DOMAIN r.ranges : r.ranges[j].wire.code \in {7, 18}}}}

Relabels(r) ==
    {[r EXCEPT !.ranges[i].disposition = d] :
        i \in DOMAIN r.ranges, d \in {"accept_evidence_only", "attribute_discard"}}

Reread(r) ==
    {[r EXCEPT !.ranges = [i \in DOMAIN @ |-> [@[i] EXCEPT !.reading = x]]] :
        x \in {"decoded", "external"}}

\* Interpretations in place of the path of an AS_PATH.
Recasts(r) ==
    {[WithPath(r, v) EXCEPT !.ranges[i].decoded = Nothing, !.ranges[i].interpretations = {v}] :
        i \in {j \in DOMAIN r.ranges : r.ranges[j].wire.code = 2}, v \in PathsOf(r)}

Drops(r) == {[r EXCEPT !.ranges = RemoveAt(@, i)] : i \in DOMAIN r.ranges}

\* Completeness claimed where the decoder claimed none.
Upgraded(r, p) ==
    [r EXCEPT !.identity = [completeness |-> "complete", payload |-> p, fingerprint |-> p]]

Altered(r) ==
    Relabels(r) \cup Drops(r) \cup Reread(r)
    \cup (IF r.identity.completeness = "complete" THEN Rewrites(r) \cup Recasts(r)
          ELSE {Upgraded(c, Payload(r.attrs, FALSE, Nothing)) : c \in {r} \cup Reread(r)})

\* `spelled` is the width the sender wrote its numbers in; a session that lacks
\* an OPEN does not know it.
IdentityInit(Raws(_)) ==
    \E kind \in {"Captured", "Imported"}, spelled \in {2, 4}, known \in BOOLEAN,
       peer \in {"Unknown", "Internal", "External"} : \E wire \in Raws(spelled) :
        LET layout == [width |-> IF known THEN spelled ELSE 0, mp |-> {}, baseUnknown |-> FALSE]
        IN ident = [kind |-> kind, wire |-> wire, spelled |-> spelled, layout |-> layout,
                    peer |-> peer, steps |-> 0, claim |-> RouteRecord(kind, wire, layout, peer)]

Alter == \E c \in Altered(ident.claim) :
            ident' = [ident EXCEPT !.claim = c, !.steps = @ + 1]

Honest == RouteRecord(ident.kind, ident.wire, ident.layout, ident.peer)

\* The reducer, recomputing the projection its own way, admits every route the
\* decoder makes; and the route is trusted exactly when its identity is complete.
DecodedAdmitted ==
    ident.steps = 0 =>
        /\ RouteAdmitted(ident.claim)
        /\ AmbiguousAttributes(ident.claim) = (ident.claim.identity.completeness # "complete")

PeerFields == {"localPref", "originator", "clusters"}

\* What the decoder says of this message, knowing the width.
HonestPayload(width) ==
    RouteRecord(ident.kind, ident.wire, [ident.layout EXCEPT !.width = width], "Internal")
        .identity.payload

SamePayload(p, q) ==
    /\ p # NoPayload
    /\ p.atomic = q.atomic
    /\ p.large = q.large
    /\ \A f \in DOMAIN p.attrs : q.attrs[f] = p.attrs[f] \/ (f \in PeerFields /\ q.attrs[f] = Nothing)

\* The claimed AS_PATH is a value, or the one path its octets spell at some width.
PathRead ==
    \A i \in DOMAIN ident.claim.ranges :
        LET o == ident.claim.ranges[i]
        IN  o.interpretations # {} => \E p \in PathAlternatives(o.wire, 0) :
                                         NoAsZero(p) /\ o.interpretations = {p}

\* What the first occurrence of an attribute in the message says.
Says(code) ==
    ValueOf(AcceptedFirst(ident.wire, [i \in DOMAIN ident.wire |-> "accept_evidence_only"], code), 0)

FieldsSpelled(p) ==
    /\ p.attrs.nextHop = Says(3)
    /\ \A f \in DOMAIN Plain : p.attrs[f] = Says(Plain[f]) \/ (f \in PeerFields /\ p.attrs[f] = Nothing)
    /\ p.atomic = \E i \in DOMAIN ident.wire : ident.wire[i].code = 6
    /\ p.large = Says(32)

\* However an imported route was altered before it was admitted, an admitted complete
\* identity is the one its message has at a width its octets allow; only what depends
\* on the peer can have been left out.  An AS_PATH given as interpretations is not
\* read again from its octets (validate_imported_occurrence_values): if they are not
\* one reading of the octets, the path, and the aggregator chosen with it, are the
\* importer's word, and only the other fields are those of the message.
IdentityBound ==
    /\ ident.claim.kind = "Imported" /\ RouteAdmitted(ident.claim)
    /\ ident.claim.identity.completeness = "complete"
    => /\ FieldsSpelled(ident.claim.identity.payload)
       /\ PathRead => \E width \in {2, 4} :
                         SamePayload(HonestPayload(width), ident.claim.identity.payload)

\* What the decoder spells the identity check admits, and what it admits is
\* the identity of the message it is bound to (validate_identity_attributes
\* and its callers).
IdentitySound == DecodedAdmitted /\ IdentityBound
==============================================================================
