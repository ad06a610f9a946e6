------------------------------- MODULE BgpWire -------------------------------
(***************************************************************************)
(* The captured BGP decoder (product/src/deep/bgp.rs, bgp/producer.rs):    *)
(* the OPEN evidence of one session generation, the layout it supports,    *)
(* the error handling that decides what becomes of an UPDATE, and the      *)
(* decoder's transition.                                                   *)
(*                                                                         *)
(* An UPDATE is [withdrawn, attrs, envelope, nlri]: two sequences of       *)
(* prefixes, the attribute occurrences in wire order, and whether the      *)
(* attribute block ends in an incomplete envelope ("complete", "short" or, *)
(* when its type octet names a multiprotocol attribute, "short_mp").  An   *)
(* occurrence is [code, flags, partial, valid, ignored, family, routes]:   *)
(* its type, its optional and transitive bits, the partial bit, whether    *)
(* its value decodes, whether the reconstruction of a four-octet path sets *)
(* an AS4 attribute aside, and the family and the prefixes of a            *)
(* multiprotocol value.                                                    *)
(***************************************************************************)
EXTENDS Integers, Sequences, FiniteSets, SequencesExt

CONSTANTS
    Contents,        \* OPEN content -> [codes, ambiguous]
    FamilyOf,        \* prefix -> family
    UnicastFamilies, \* the families an identity can be complete for
    MaxOpens         \* limits.elements, for the retained OPENs

Senders == {0, 1}
NoSender == 2
Multiprotocol == 1       \* capability codes
FourOctetAsn == 65
AddPath == 69
BaseFamily == 1

(***************************************************************************)
(* OPEN bodies: [asn, hold, caps], a capability being [code, value, valid] *)
(* with valid "yes", "no" or, for a code that is not interpreted,          *)
(* "unknown".  The value of ADD-PATH is a set of <<family, mode>>.         *)
(***************************************************************************)
AsTrans == 23456
MaxTwoOctet == 65535
SingleValued == {6, 9, FourOctetAsn, AddPath}

CapabilityValues(o, code) ==
    {o.caps[i].value : i \in {j \in DOMAIN o.caps : o.caps[j].code = code}}

ValidValues(o, code) ==
    {o.caps[i].value : i \in {j \in DOMAIN o.caps :
        o.caps[j].code = code /\ o.caps[j].valid = "yes"}}

\* The four-octet number disagrees with the two-octet field; two different
\* four-octet capabilities leave none to compare.
AsnInconsistent(o) ==
    /\ Cardinality(CapabilityValues(o, FourOctetAsn)) = 1
    /\ \E asn \in ValidValues(o, FourOctetAsn) :
          o.asn # IF asn <= MaxTwoOctet THEN asn ELSE AsTrans

AddPathConflict(o) ==
    \E x, y \in UNION ValidValues(o, AddPath) : x[1] = y[1] /\ x[2] # y[2]

ParseOpenBody(o) ==
    [codes |-> {o.caps[i].code : i \in DOMAIN o.caps},
     ambiguous |-> \/ \E c \in SingleValued : Cardinality(CapabilityValues(o, c)) > 1
                   \/ \E i \in DOMAIN o.caps : o.caps[i].valid = "no"
                   \/ AddPathConflict(o)
                   \/ o.asn = 0
                   \/ o.hold \in {1, 2}
                   \/ AsnInconsistent(o)]

(***************************************************************************)
(* OPEN evidence.                                                          *)
(***************************************************************************)
NewWire == [gen |-> 0, opens |-> [d \in Senders |-> <<>>]]

ResetWire(w) == [gen |-> w.gen + 1, opens |-> [d \in Senders |-> <<>>]]

UnambiguousOpen(w, d) ==
    /\ w.opens[d] # <<>>
    /\ \A i \in DOMAIN w.opens[d] :
          /\ ~Contents[w.opens[d][i].content].ambiguous
          /\ w.opens[d][i].content = w.opens[d][1].content

Offered(w, d) == Contents[w.opens[d][1].content].codes

ObservedAddPath(w) ==
    \E d \in Senders : \E i \in DOMAIN w.opens[d] :
        AddPath \in Contents[w.opens[d][i].content].codes

\* The grammar that the OPENs of this generation support; width 0 is unknown.
LayoutEvidence(w, scoped) ==
    IF ~scoped
    THEN [width |-> 0, mp |-> {}, baseUnknown |-> FALSE, basis |-> "missing_scope"]
    ELSE IF \E d \in Senders : w.opens[d] # <<>> /\ ~UnambiguousOpen(w, d)
    THEN [width |-> 0, mp |-> {}, baseUnknown |-> ObservedAddPath(w),
          basis |-> "ambiguous_open_evidence"]
    ELSE IF \E d \in Senders : w.opens[d] = <<>>
    THEN [width |-> 0, mp |-> {}, baseUnknown |-> ObservedAddPath(w),
          basis |-> "missing_open_evidence"]
    ELSE [width |-> IF \A d \in Senders : FourOctetAsn \in Offered(w, d) THEN 4 ELSE 2,
          mp |-> IF \A d \in Senders : Multiprotocol \in Offered(w, d)
                 THEN UnicastFamilies ELSE {},
          baseUnknown |-> FALSE,
          basis |-> "bilateral"]

(***************************************************************************)
(* Attribute error handling.                                               *)
(***************************************************************************)
Reach == 14
Unreach == 15
MpCodes == {Reach, Unreach}
PeerDependent == {5, 9, 10}
WellKnownCodes == {1, 2, 3, 5, 6}
OptionalCodes == {4, 9, 10, 14, 15, 26}
TransitiveCodes == {7, 8, 16, 17, 18, 32, 35}
KnownCodes == WellKnownCodes \cup OptionalCodes \cup TransitiveCodes

AttributeFlags(code) ==
    CASE code \in WellKnownCodes -> {"transitive"}
      [] code \in OptionalCodes -> {"optional"}
      [] code \in TransitiveCodes -> {"optional", "transitive"}

FlagsValid(a) == a.code \in KnownCodes => a.flags = AttributeFlags(a.code)

AttributeErrorDisposition(code) ==
    IF code \in {6, 7, 9, 10, 17, 18, 26} THEN "attribute_discard"
    ELSE IF code \in MpCodes THEN "session_reset" ELSE "treat_as_withdraw"

Rank == [accept_evidence_only |-> 0, attribute_discard |-> 1,
         treat_as_withdraw |-> 2, session_reset |-> 3]

Strongest(S) == CHOOSE a \in S : \A b \in S : Rank[b] <= Rank[a]

Repeated(as, i) == \E j \in 1 .. (i - 1) : as[j].code = as[i].code

\* What becomes of one occurrence in a session with this layout and peer.
Disposition(as, i, layout, peer) ==
    LET a == as[i]
    IN  CASE Repeated(as, i) ->
               IF a.code \in MpCodes THEN "session_reset" ELSE "discard_later_occurrence"
          [] ~Repeated(as, i) /\ layout.width = 4 /\ a.code \in {17, 18} ->
               "attribute_discard"
          [] ~Repeated(as, i) /\ a.code \in MpCodes /\ ~FlagsValid(a) -> "session_reset"
          [] ~Repeated(as, i) /\ a.code \in PeerDependent ->
               IF ~FlagsValid(a) THEN "treat_as_withdraw"
               ELSE IF peer = "Unknown" THEN "peer_relationship_unresolved"
               ELSE IF peer = "External" THEN "attribute_discard"
               ELSE IF ~a.valid THEN "treat_as_withdraw" ELSE "accept_evidence_only"
          [] OTHER ->
               IF ~a.valid THEN AttributeErrorDisposition(a.code)
               ELSE IF ~FlagsValid(a) THEN "treat_as_withdraw"
               ELSE IF a.code \notin KnownCodes /\ "optional" \notin a.flags
               THEN "session_reset"
               ELSE IF a.code \notin KnownCodes /\ "transitive" \notin a.flags
               THEN "attribute_discard"
               ELSE IF layout.width = 2 /\ a.code \in {17, 18} /\ a.ignored
               THEN "attribute_discard"
               ELSE "accept_evidence_only"

\* A multiprotocol value whose layout this session does not determine.
OpaqueMp(a, layout) ==
    a.code \in MpCodes /\ a.valid /\ a.family \notin layout.mp

MpRoutes(as, code, layout) ==
    FoldLeft(LAMBDA s, a :
                IF a.code = code /\ a.valid /\ ~OpaqueMp(a, layout)
                THEN s \o a.routes ELSE s,
             <<>>, as)

(***************************************************************************)
(* The fate of an UPDATE.                                                  *)
(***************************************************************************)
Codes(as) == {as[i].code : i \in DOMAIN as}
AllDispositions(as, layout, peer) == {Disposition(as, i, layout, peer) : i \in DOMAIN as}

Accepted(as, layout, peer) ==
    {as[i].code : i \in {j \in DOMAIN as :
        Disposition(as, j, layout, peer) = "accept_evidence_only"}}

PeerUnresolved(as, peer) == peer = "Unknown" /\ Codes(as) \cap PeerDependent # {}

EnvelopeAction(u) ==
    CASE u.envelope = "complete" -> "accept_evidence_only"
      [] u.envelope = "short" -> "treat_as_withdraw"
      [] u.envelope = "short_mp" -> "session_reset"

BaseRoutes(routes, layout) == IF layout.baseUnknown THEN <<>> ELSE routes

Announcements(u, layout) ==
    BaseRoutes(u.nlri, layout) \o MpRoutes(u.attrs, Reach, layout)
Withdrawals(u, layout) ==
    BaseRoutes(u.withdrawn, layout) \o MpRoutes(u.attrs, Unreach, layout)

\* Mutant of Mandatory: NEXT_HOP is not required of conventional routes.
MandatoryWithoutNextHop(u, layout) ==
    IF Announcements(u, layout) = <<>> THEN {} ELSE {1, 2}

Mandatory(u, layout) ==
    IF Announcements(u, layout) = <<>> THEN {}
    ELSE IF BaseRoutes(u.nlri, layout) = <<>> THEN {1, 2} ELSE {1, 2, 3}

MissingMandatory(u, layout, peer) ==
    Mandatory(u, layout) \ Accepted(u.attrs, layout, peer)

\* The strongest action; without an announcement there is nothing to treat as
\* withdrawn, and the session is reset.
ListedAction(u, layout, peer) ==
    Strongest({EnvelopeAction(u)}
        \cup (AllDispositions(u.attrs, layout, peer) \cap DOMAIN Rank)
        \cup (IF MissingMandatory(u, layout, peer) = {} THEN {} ELSE {"treat_as_withdraw"}))

KnownAction(u, layout, peer) ==
    IF /\ ListedAction(u, layout, peer) = "treat_as_withdraw"
       /\ Announcements(u, layout) = <<>>
    THEN "session_reset" ELSE ListedAction(u, layout, peer)

LocalPrefMissing(u, layout, peer) ==
    /\ Announcements(u, layout) # <<>>
    /\ peer = "Internal"
    /\ 5 \notin Codes(u.attrs)

QuarantineLocalPref(u, layout, peer, known) ==
    LocalPrefMissing(u, layout, peer) /\ Rank[known] < Rank["treat_as_withdraw"]

UpdateDisposition(u, layout, peer, known) ==
    IF QuarantineLocalPref(u, layout, peer, known) THEN "internal_local_pref_missing"
    ELSE IF known # "session_reset" /\ PeerUnresolved(u.attrs, peer)
    THEN "peer_relationship_unresolved" ELSE known

RouteAction(op, routes) == [i \in DOMAIN routes |-> [op |-> op, prefix |-> routes[i]]]

ParsedRecords(u, layout, known) ==
    RouteAction("Withdraw", Withdrawals(u, layout))
    \o RouteAction(IF known = "treat_as_withdraw" THEN "Withdraw" ELSE "Announce",
                   Announcements(u, layout))

Suppressed(u, layout, peer, known) ==
    \/ known = "session_reset"
    \/ PeerUnresolved(u.attrs, peer)
    \/ QuarantineLocalPref(u, layout, peer, known)

OpaqueBlocks(u, layout) ==
    Cardinality({i \in DOMAIN u.attrs : OpaqueMp(u.attrs[i], layout)})
    + (IF layout.baseUnknown /\ u.withdrawn # <<>> THEN 1 ELSE 0)
    + (IF layout.baseUnknown /\ u.nlri # <<>> THEN 1 ELSE 0)

\* An announcement has a complete identity only when every attribute is
\* understood, at a width and with a next hop that nothing leaves open.
IdentityCodes == {1, 2, 3, 4, 5, 6, 7, 8, 9, 10, 14, 15, 17, 18, 32}

OccurrenceUnderstood(as, i, layout, peer) ==
    LET a == as[i]
        d == Disposition(as, i, layout, peer)
    IN  \/ d = "discard_later_occurrence"
        \/ /\ \/ d = "accept_evidence_only"
              \/ d = "attribute_discard" /\ a.code \in {17, 18}
              \/ d = "attribute_discard" /\ a.code \in PeerDependent /\ a.valid
           /\ FlagsValid(a) /\ a.valid /\ ~a.partial
           /\ a.code \in {2, 7} => layout.width # 0
           /\ ~OpaqueMp(a, layout)

IdentityComplete(as, layout, peer) ==
    /\ \A i \in DOMAIN as :
          as[i].code \in IdentityCodes /\ OccurrenceUnderstood(as, i, layout, peer)
    /\ {1, 2} \subseteq Codes(as)
    /\ (3 \in Codes(as)) # (Reach \in Codes(as))

EndOfRib(u, layout, peer) ==
    CASE u.withdrawn = <<>> /\ u.nlri = <<>> /\ u.attrs = <<>>
         /\ u.envelope = "complete" -> {BaseFamily}
      [] u.withdrawn = <<>> /\ u.nlri = <<>> /\ Len(u.attrs) = 1
         /\ u.attrs[1].code = Unreach /\ u.attrs[1].routes = <<>>
         /\ Disposition(u.attrs, 1, layout, peer) = "accept_evidence_only" ->
            {u.attrs[1].family}
      [] OTHER -> {}

\* opaque counts the retained evidence that is not a route action.
ParsedUpdate(u, layout, peer, known) ==
    [disposition |-> UpdateDisposition(u, layout, peer, known),
     known |-> known,
     records |-> IF Suppressed(u, layout, peer, known) THEN <<>>
                 ELSE ParsedRecords(u, layout, known),
     opaque |-> OpaqueBlocks(u, layout)
                + IF Suppressed(u, layout, peer, known)
                  THEN Len(ParsedRecords(u, layout, known)) ELSE 0,
     eor |-> EndOfRib(u, layout, peer),
     complete |-> IdentityComplete(u.attrs, layout, peer)]

ParseUpdate(u, layout, peer) ==
    ParsedUpdate(u, layout, peer, KnownAction(u, layout, peer))

(***************************************************************************)
(* AS paths: sequences of [kind, values], kind 1 a set, 2 a sequence, 3    *)
(* and 4 confederation segments.                                           *)
(***************************************************************************)
Confederation == {3, 4}

SegmentHops(s) ==
    IF s.kind \in Confederation THEN 0
    ELSE IF s.kind = 1 THEN (IF s.values = <<>> THEN 0 ELSE 1) ELSE Len(s.values)

PathCount(path) == FoldLeft(LAMBDA n, s : n + SegmentHops(s), 0, path)

LeadingStep(acc, s) ==
    IF acc.stop THEN acc
    ELSE IF s.kind \in Confederation THEN [acc EXCEPT !.path = Append(@, s)]
    ELSE IF acc.count = 0 THEN [acc EXCEPT !.stop = TRUE]
    ELSE LET take == IF s.kind = 1 \/ Len(s.values) < acc.count
                     THEN Len(s.values) ELSE acc.count
             used == IF s.kind = 1 /\ take > 0 THEN 1 ELSE take
         IN  [acc EXCEPT
                !.path = IF take = 0 THEN @
                         ELSE Append(@, [s EXCEPT !.values = SubSeq(@, 1, take)]),
                !.count = IF used > @ THEN 0 ELSE @ - used]

LeadingPath(path, count) ==
    FoldLeft(LeadingStep, [path |-> <<>>, count |-> count, stop |-> FALSE], path).path

Usable(as4) == SelectSeq(as4, LAMBDA s : s.kind \notin Confederation)

ReconstructAs4Suffix(base, as4) ==
    IF PathCount(Usable(as4)) > PathCount(base) THEN base
    ELSE LeadingPath(base, PathCount(base) - PathCount(Usable(as4))) \o Usable(as4)

(***************************************************************************)
(* The decoder.  A message is [rec, dir, peer, stamp, type, body]; its     *)
(* metadata is everything but the type and the body.  A message that does  *)
(* not decode leaves the state alone and is not a message here.            *)
(***************************************************************************)
Metadata(m) == [rec |-> m.rec, dir |-> m.dir, peer |-> m.peer, stamp |-> m.stamp]

Scoped(m) == m.dir # NoSender

Witness(m) == [content |-> m.body, metadata |-> Metadata(m)]

OpenCount(w) == Len(w.opens[0]) + Len(w.opens[1])

DecodeOpen(w, m) ==
    IF ~Scoped(m) \/ Witness(m) \in ToSet(w.opens[m.dir])
    THEN [ok |-> TRUE, wire |-> w, reset |-> FALSE]
    ELSE [ok |-> OpenCount(w) < MaxOpens,
          wire |-> [w EXCEPT !.opens[m.dir] = Append(@, Witness(m))],
          reset |-> FALSE]

Parsed(w, m) == ParseUpdate(m.body, LayoutEvidence(w, Scoped(m)), "Unknown")

ResetsSession(w, m) == m.type = "Update" /\ Parsed(w, m).known = "session_reset"

Decode(w, m) ==
    CASE m.type = "Open" -> DecodeOpen(w, m)
      [] m.type = "Notification" \/ ResetsSession(w, m) ->
            [ok |-> TRUE, wire |-> ResetWire(w), reset |-> TRUE]
      [] OTHER -> [ok |-> TRUE, wire |-> w, reset |-> FALSE]
(***************************************************************************)
(* What the error handling promises, for one UPDATE.                       *)
(***************************************************************************)
FirstOf(as, code) ==
    CHOOSE i \in DOMAIN as : as[i].code = code /\ ~Repeated(as, i)

\* An announcement comes out of an UPDATE only if nothing in it calls for more
\* than discarding an attribute: every mandatory attribute has a first
\* occurrence that is well formed, no multiprotocol attribute is malformed or
\* repeated, the attribute block is complete, and no attribute depends on a
\* peer relationship that is not known.  The decoder resets the session exactly
\* when the reported disposition says so.
AnnounceSound(u, layout, peer, p) ==
    /\ (p.disposition = "session_reset") = (p.known = "session_reset")
    /\ (\E i \in DOMAIN p.records : p.records[i].op = "Announce") =>
          /\ u.envelope = "complete"
          /\ \A c \in {1, 2} \cup (IF u.nlri # <<>> /\ ~layout.baseUnknown THEN {3} ELSE {}) :
                /\ c \in Codes(u.attrs)
                /\ u.attrs[FirstOf(u.attrs, c)].valid
                /\ FlagsValid(u.attrs[FirstOf(u.attrs, c)])
          /\ \A i \in DOMAIN u.attrs : u.attrs[i].code \in MpCodes =>
                u.attrs[i].valid /\ FlagsValid(u.attrs[i]) /\ ~Repeated(u.attrs, i)
          /\ Codes(u.attrs) \cap PeerDependent # {} => peer # "Unknown"
          /\ peer = "Internal" => 5 \in Codes(u.attrs)

\* The reconstructed path has the hops of the path it replaces and ends in the
\* four-octet path.
SamePath(base, as4, path) ==
    /\ PathCount(path) = PathCount(base)
    /\ PathCount(Usable(as4)) <= PathCount(base) =>
          SubSeq(path, Len(path) - Len(Usable(as4)) + 1, Len(path)) = Usable(as4)
    /\ SelectSeq(path, LAMBDA s : s.kind \in Confederation)
          = SubSeq(SelectSeq(base, LAMBDA s : s.kind \in Confederation), 1,
                   Len(SelectSeq(path, LAMBDA s : s.kind \in Confederation)))
=============================================================================
