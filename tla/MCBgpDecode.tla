---------------------------- MODULE MCBgpDecode ----------------------------
(***************************************************************************)
(* The decoder's algorithms, the reducers and their join, one at a time:   *)
(* `part` is "pipeline" for the join, "session" for the observer and "rib" *)
(* for the table on their own, under smaller limits, "update" and "path"   *)
(* for one UPDATE or one pair of AS paths in `input`, and "identity" for   *)
(* the identity of one decoded route, altered once before it comes back as *)
(* an import. The events of a behaviour are those of one menu; a record is *)
(* fresh (the next number) or, in the menus that reuse records, one        *)
(* already used.                                                           *)
(***************************************************************************)
EXTENDS BgpPipeline, TLC

CONSTANTS
    Depth,           \* fresh records of the join
    ReducerEvents, ReducerBytes, ReducerUnits, ReducerElements, ReducerActive,
    MaxDepth         \* events of a reducer on its own

VARIABLES
    part, menu, input, steps,
    ident            \* the route of BgpIdentity

Observer == INSTANCE BgpSession
    WITH MaxEvents <- ReducerEvents, MaxBytes <- ReducerBytes, MaxUnits <- ReducerUnits
Table == INSTANCE BgpRib
    WITH MaxElements <- ReducerElements, MaxActive <- ReducerActive

IdentityContents == [x |-> [codes |-> {}, ambiguous |-> FALSE]]
IdentityFamilies == [x |-> 1]

I == INSTANCE BgpIdentity WITH Contents <- IdentityContents, FamilyOf <- IdentityFamilies,
        UnicastFamilies <- {1}, MaxOpens <- 2

(***************************************************************************)
(* The join: small menus of messages.                                      *)
(***************************************************************************)
Cap(code, value) == [code |-> code, value |-> value, valid |-> "yes"]
Body(asn, hold, caps) == [asn |-> asn, hold |-> hold, caps |-> caps]

\* A four-octet number that agrees with the two-octet field, one that does not
\* fit it, ADD-PATH, both of these, and two ADD-PATH capabilities that
\* contradict each other.
Bodies ==
    <<Body(7, 90, <<Cap(Multiprotocol, {1}), Cap(FourOctetAsn, 7)>>),
      Body(AsTrans, 90, <<Cap(FourOctetAsn, 70000)>>),
      Body(7, 90, <<Cap(AddPath, {<<1, 1>>})>>),
      Body(AsTrans, 0, <<Cap(FourOctetAsn, 70000), Cap(AddPath, {<<1, 1>>})>>),
      Body(7, 90, <<Cap(AddPath, {<<1, 1>>}), Cap(AddPath, {<<1, 3>>})>>)>>
MCContents == [c \in 1 .. 5 |-> ParseOpenBody(Bodies[c])]

MCFamily == [p1 |-> 1, p2 |-> 2]

Occ(code, flags, valid) ==
    [code |-> code, flags |-> flags, partial |-> FALSE, valid |-> valid,
     ignored |-> FALSE, family |-> 0, routes |-> <<>>]
Origin == Occ(1, {"transitive"}, TRUE)
BadOrigin == Occ(1, {"transitive"}, FALSE)
AsPath == Occ(2, {"transitive"}, TRUE)
NextHop == Occ(3, {"transitive"}, TRUE)
LocalPref == Occ(5, {"transitive"}, TRUE)

Full == <<Origin, AsPath, NextHop>>
Upd(w, as, n) == [withdrawn |-> w, attrs |-> as, envelope |-> "complete", nlri |-> n]

Announce == Upd(<<>>, Full, <<"p1">>)
Withdraw == Upd(<<"p1">>, <<>>, <<>>)
Broken == Upd(<<>>, <<BadOrigin, AsPath, NextHop>>, <<"p1">>)
Fatal == Upd(<<"p1">>, <<BadOrigin>>, <<>>)
Unrelated == Upd(<<>>, Full \o <<LocalPref>>, <<"p1">>)
Idle == Upd(<<>>, <<Origin>>, <<>>)
Marker1 == Upd(<<>>, <<>>, <<>>)

Msg(t, d, b) == [type |-> t, dir |-> d, peer |-> "p", stamp |-> 0, body |-> b]

Opens == {Msg("Open", 0, 1), Msg("Open", 1, 1)}

\* The messages of each menu, the caller's boundaries, and whether records
\* are reused.
Menus ==
    [layout |-> [messages |-> {Msg("Open", 0, 1), Msg("Open", 1, 2), Msg("Open", 1, 3),
                    Msg("Update", 0, Announce), Msg("Update", 0, Broken),
                    Msg("Open", NoSender, 1)},
                 boundaries |-> {}, reuse |-> FALSE],
     resets |-> [messages |-> Opens \cup {Msg("Update", 0, Announce),
                    Msg("Notification", NoSender, 0), Msg("Update", 1, Fatal)},
                 boundaries |-> {"Reset"}, reuse |-> FALSE],
     losses |-> [messages |-> Opens \cup {Msg("Update", 0, Announce),
                    Msg("Update", 0, Unrelated), Msg("Update", 0, Withdraw),
                    [Msg("Update", 0, Announce) EXCEPT !.peer = "q"]},
                 boundaries |-> {"Gap"}, reuse |-> FALSE],
     replays |-> [messages |-> Opens \cup {Msg("Update", 0, Announce),
                    [Msg("Update", 0, Announce) EXCEPT !.stamp = 1],
                    Msg("Update", 0, Idle), Msg("Keepalive", 1, 0)},
                 boundaries |-> {"Gap", "Reset"}, reuse |-> TRUE]]

WithRec(x, r) == [rec |-> r, type |-> x.type, dir |-> x.dir, peer |-> x.peer,
                  stamp |-> x.stamp, body |-> x.body]

Used == Cardinality(DOMAIN applied \cup DOMAIN boundaries)
RecordChoices == (IF Menus[menu].reuse THEN 1 .. Used ELSE {}) \cup {Used + 1}

JoinInit == PipelineInit /\ menu \in DOMAIN Menus /\ steps = 0

JoinNext ==
    /\ steps < IF Menus[menu].reuse THEN Depth ELSE Depth + 1
    /\ steps' = steps + 1
    /\ UNCHANGED menu
    /\ \/ \E x \in Menus[menu].messages, r \in RecordChoices :
            ReplayMessage(WithRec(x, r)) \/ ApplyMessage(WithRec(x, r))
       \/ \E kind \in Menus[menu].boundaries, r \in RecordChoices :
            \/ ReplayBoundary(r, kind, 1)
            \/ kind = "Gap" /\ ObserveGap(r, 1)
            \/ kind = "Reset" /\ ResetGeneration(r, 1)

(***************************************************************************)
(* The reducers: events for each of them, UPDATEs and AS paths.            *)
(***************************************************************************)
Shape(g, d, k, v) == [gen |-> g, dir |-> d, kind |-> k, val |-> v]

\* Opens and what may spoil them; boundaries between generations; markers;
\* records that come again.
SessionMenus ==
    [opens |-> {Shape(1, 0, "Open", 1), Shape(1, 1, "Open", 4),
                Shape(1, 0, "CapturedOpen", 1), Shape(1, 1, "CapturedOpen", 4),
                Shape(1, 1, "CapturedOpen", 5), Shape(1, NoDir, "CapturedOpen", 1),
                Shape(1, 0, "Update", 0), Shape(1, NoDir, "Gap", 0)},
     boundaries |-> {Shape(1, 0, "NotificationReset", 0),
                Shape(1, NoDir, "UpdateReset", 0), Shape(2, NoDir, "Reset", 1),
                Shape(3, NoDir, "Reset", 1), Shape(2, 0, "Keepalive", 0),
                Shape(1, 1, "Update", 0), Shape(2, 1, "CapturedOpen", 1),
                Shape(1, 0, "Notification", 0)},
     markers |-> {Shape(1, 0, "Stale", 1), Shape(1, 0, "Stale", 2),
                Shape(1, 0, "EndOfRib", 1), Shape(1, 1, "EndOfRib", 1),
                Shape(1, 0, "RouteRefresh", 1), Shape(1, NoDir, "Keepalive", 0),
                Shape(1, 1, "Keepalive", 0), Shape(1, NoDir, "Notification", 0)},
     again |-> {Shape(1, 0, "CapturedOpen", 1), Shape(1, 0, "CapturedOpen", 4),
                Shape(1, 1, "CapturedOpen", 1), Shape(2, NoDir, "Reset", 1),
                Shape(1, 0, "Update", 0)}]

WithRecord(x, r) ==
    [rec |-> r, gen |-> x.gen, dir |-> x.dir, kind |-> x.kind, val |-> x.val]

SessionInputs ==
    {WithRecord(x, r) : x \in SessionMenus[menu],
        r \in (IF menu = "again" THEN 1 ELSE Len(observer.events) + 1)
              .. (Len(observer.events) + 1)}

Scope(s, g, d, p) == [session |-> s, gen |-> g, dir |-> d, peer |-> p]
Act(op, p, path, a) == [op |-> op, prefix |-> p, path |-> path, attrs |-> a]
Event(s, k, v, as) == [scope |-> s, kind |-> k, val |-> v, actions |-> as]
A(p, a) == Act("Announce", p, "absent", a)
W(p) == Act("Withdraw", p, "absent", "x")

S1 == Scope("s", 1, 0, NoPeer)
Other == Scope("s", 1, 1, NoPeer)
Peer == Scope("s", 1, 0, "p")
Nowhere == Scope("s", 1, NoSide, NoPeer)
S2 == Scope("s", 2, 0, NoPeer)
T1 == Scope("t", 1, 0, NoPeer)

RibMenus ==
    [routes |-> {Event(S1, "Update", 0, <<A("p1", "a")>>),
                 Event(S1, "Update", 0, <<A("p1", "b"), W("p1"), A("p2", "a")>>),
                 Event(S1, "Update", 0, <<W("p1")>>),
                 Event(S1, "Stale", 1, <<>>), Event(S1, "EndOfRib", 1, <<>>),
                 Event(Other, "Update", 0, <<A("p1", "a"), Act("Reject", "p1", "absent", "x")>>),
                 Event(Nowhere, "Gap", 0, <<>>)},
     peers |-> {Event(S1, "Update", 0, <<A("p1", "a")>>),
                Event(Peer, "Update", 0, <<A("p1", "a")>>),
                Event(Other, "Update", 0, <<A("p1", "a")>>),
                Event(Peer, "EndOfRib", 1, <<>>),
                Event(S1, "Update", 0, <<Act("Announce", "p1", UnknownPath, "a")>>),
                Event(Nowhere, "Update", 0, <<A("p1", "a")>>)},
     resets |-> {Event(S1, "Update", 0, <<A("p1", "a")>>),
                 Event(S2, "Update", 0, <<A("p1", "a")>>),
                 Event(T1, "Update", 0, <<A("p1", "a")>>),
                 Event(Scope("s", 2, NoSide, NoPeer), "Reset", 1, <<>>),
                 Event(Scope("s", 3, NoSide, NoPeer), "Reset", 1, <<>>),
                 Event(Scope("t", 1, NoSide, NoPeer), "Gap", 0, <<>>)},
     again |-> {Event(S1, "Update", 0, <<A("p1", "a")>>),
                Event(S1, "Update", 0, <<A("p1", "b")>>),
                Event(Scope("s", 2, NoSide, NoPeer), "Reset", 1, <<>>)}]

MCOrigins == IF menu = "again" THEN {NoOrigin, "d1", "d2"} ELSE {NoOrigin}

WithRibRecord(x, r) ==
    [scope |-> x.scope, rec |-> r, kind |-> x.kind, val |-> x.val,
     actions |-> x.actions]

RibInputs ==
    {WithRibRecord(x, r) : x \in RibMenus[menu],
        r \in (IF menu = "again" THEN 1 ELSE Len(rib.events) + 1)
              .. (Len(rib.events) + 1)}

\* UPDATEs: up to two occurrences after a whole or an incomplete set of the
\* mandatory attributes.
MpOcc(code, family, p) ==
    [Occ(code, {"optional"}, TRUE) EXCEPT !.family = family, !.routes = p]
WellKnown(code) == Occ(code, {"transitive"}, TRUE)

Heads == {<<>>, <<WellKnown(1), WellKnown(2), WellKnown(3)>>,
          <<WellKnown(1), WellKnown(2)>>, <<WellKnown(2), WellKnown(3)>>}
Spoilers == {Occ(1, {"transitive"}, FALSE), Occ(1, {"optional"}, TRUE), WellKnown(3),
           WellKnown(5), Occ(4, {"optional"}, FALSE), Occ(7, {}, FALSE),
           MpOcc(Reach, 1, <<"p1">>), MpOcc(Reach, 2, <<"p2">>),
           [MpOcc(Unreach, 1, <<"p1">>) EXCEPT !.valid = FALSE],
           MpOcc(Unreach, 1, <<>>), Occ(99, {}, TRUE),
           [Occ(17, {"optional", "transitive"}, TRUE) EXCEPT !.ignored = TRUE]}
Tails == {<<>>} \cup {<<a>> : a \in Spoilers} \cup {<<a, b>> : a, b \in Spoilers}

Layouts == {[width |-> 0, mp |-> {}, baseUnknown |-> TRUE, basis |-> "missing_open_evidence"],
            [width |-> 4, mp |-> {1}, baseUnknown |-> FALSE, basis |-> "bilateral"],
            [width |-> 2, mp |-> {1}, baseUnknown |-> FALSE, basis |-> "bilateral"]}

Updates ==
    {[update |-> [withdrawn |-> w, attrs |-> h \o t, envelope |-> e, nlri |-> n],
      layout |-> l, peer |-> q] :
        w, n \in {<<>>, <<"p1">>}, h \in Heads, t \in Tails,
        e \in {"complete", "short", "short_mp"}, l \in Layouts,
        q \in {"Unknown", "Internal", "External"}}

AsSegments == {[kind |-> k, values |-> v] : k \in {1, 2}, v \in {<<1>>, <<2, 3>>}}
            \cup {[kind |-> 3, values |-> <<9>>]}
AsPaths(n) == UNION {[1 .. k -> AsSegments] : k \in 0 .. n}

ReducersInit ==
    /\ \/ part = "session" /\ menu \in DOMAIN SessionMenus /\ input = <<>>
       \/ part = "rib" /\ menu \in DOMAIN RibMenus /\ input = <<>>
       \/ part = "update" /\ menu = "" /\ input \in Updates
       \/ part = "path" /\ menu = "" /\ input \in [base : AsPaths(3), as4 : AsPaths(2)]
    /\ SessionInit
    /\ RibInit

DepthOf == IF menu = "again" THEN MaxDepth - 1 ELSE MaxDepth

ReducersNext ==
    /\ UNCHANGED <<part, menu, input>>
    /\ \/ /\ part = "session"
          /\ Len(observer.events) < DepthOf
          /\ Observer!SessionNext(SessionInputs)
          /\ UNCHANGED rib
       \/ /\ part = "rib"
          /\ Len(rib.events) < DepthOf
          /\ Table!RibNext(RibInputs, MCOrigins)
          /\ UNCHANGED observer

(***************************************************************************)
(* Attribute blocks for the identity.                                      *)
(***************************************************************************)
At(code, value, octets) ==
    [code |-> code, flags |-> IF code = 99 THEN {"optional"} ELSE I!AttributeFlags(code),
     partial |-> FALSE, value |-> value, octets |-> octets]
PathAt(path, w) == At(2, I!PathValue(I!PathWords(path, w)), I!PathOctets(path, w))
Seg(k, vs) == [kind |-> k, values |-> vs]
Opt(S) == {<<>>} \cup {<<x>> : x \in S}

\* The octets of the last one, written in two-octet numbers, are a path of four-octet
\* numbers as well.
Paths == {<<>>, <<Seg(2, <<1, 2>>)>>, <<Seg(1, <<2, 1>>), Seg(2, <<23456>>)>>,
          <<Seg(3, <<4>>), Seg(2, <<1>>)>>, <<Seg(2, <<1>>), Seg(2, <<513>>), Seg(2, <<1>>)>>}
As4Paths == {<<Seg(2, <<7>>)>>, <<Seg(2, <<7, 8, 9>>)>>, <<Seg(3, <<7>>)>>}

Extras(w) ==
    {<<>>, <<At(5, <<100>>, 4)>>, <<PathAt(<<Seg(2, <<5>>)>>, w)>>,
     <<[At(6, <<>>, 0) EXCEPT !.partial = TRUE]>>, <<At(6, <<>>, 0), At(32, <<1>>, 12)>>,
     <<At(10, <<1>>, 3)>>, <<At(99, <<1>>, 1)>>}

RawsWith(w, aggregators4, extras) ==
    {<<At(1, <<0>>, 1)>> \o a \o b \o c \o d \o e \o <<At(3, <<"h">>, 4)>> :
        a \in {<<PathAt(p, w)>> : p \in Paths},
        b \in Opt({At(17, p, I!PathOctets(p, 4)) : p \in As4Paths}),
        c \in Opt({At(7, <<n, "x">>, w + 4) : n \in {23456, 3}}),
        d \in aggregators4,
        e \in extras}

Raws(w) ==
    RawsWith(w, {<<>>}, Extras(w)) \cup RawsWith(w, {<<At(18, <<70, "y">>, 8)>>}, {<<>>})

NoIdent == [steps |-> 1, claim |-> [kind |-> "none"]]

\* The join alone.
JoinSpec ==
    /\ JoinInit /\ part = "pipeline" /\ input = <<>> /\ ident = NoIdent
    /\ [][JoinNext /\ UNCHANGED <<part, input, ident>>]_<<pipeline, receipt, menu, steps, part, input, ident>>

joinVars == <<wire, applied, boundaries, cached, tainted, receipt, steps>>

DecodeInit ==
    \/ part = "pipeline" /\ input = <<>> /\ ident = NoIdent /\ JoinInit
    \/ /\ part = "identity" /\ input = <<>> /\ I!IdentityInit(Raws)
       /\ PipelineInit /\ menu = "" /\ steps = 0
    \/ /\ ReducersInit
       /\ ident = NoIdent
       /\ steps = 0
       /\ wire = NewWire
       /\ applied = NoMap
       /\ boundaries = NoMap
       /\ cached = 0
       /\ tainted = FALSE
       /\ receipt = NoReceipt

DecodeNext ==
    \/ part = "pipeline" /\ JoinNext /\ UNCHANGED <<part, input, ident>>
    \/ /\ part = "identity" /\ ident.steps = 0 /\ I!Alter
       /\ UNCHANGED <<part, input, menu, observer, rib, joinVars>>
    \/ ReducersNext /\ UNCHANGED <<ident, joinVars>>

DecodeSpec == DecodeInit /\ [][DecodeNext]_<<part, input, ident, menu, observer, rib, joinVars>>

\* See BgpIdentity: the reducer's own projection admits every decoded route, and
\* an admitted complete identity is the one its message has.
IdentitySound == part = "identity" => I!IdentitySound

\* However its events were admitted, the observer is the function of its
\* journal that observing them one by one gives, and it proposes a candidate
\* context only where the journal of the generation supports one (append,
\* stage and context in bgp_session.rs).
ObserverSound == part = "session" => Observer!ObserverDerived /\ Observer!CandidateSound

\* The table that staging and its indexes built is the one its whole journal
\* determines, and every candidate it calls active is supported by that
\* journal (stage, commit and entry status in bgp_rib.rs).
TableSound == part = "rib" => Table!TableDerived /\ Table!ActiveJustified

\* The decoder's algorithms keep what they promise for every small input: an
\* announcement comes out of an UPDATE only under the conditions of the error
\* handling (parse_update in bgp.rs), and merging AS4_PATH into AS_PATH keeps
\* the length of the path and ends in the four-octet hops
\* (reconstruct_as4_suffix in bgp.rs).
UpdateFate ==
    /\ part = "update" =>
          AnnounceSound(input.update, input.layout, input.peer,
                        ParseUpdate(input.update, input.layout, input.peer))
    /\ part = "path" =>
          SamePath(input.base, input.as4, ReconstructAs4Suffix(input.base, input.as4))

\* Decoder, observer and table advance together (bgp_pipeline.rs): outside a
\* conflict they are in one generation, inside one nothing is active, and what
\* is active was read under the layout the decoder still has.
PipelineSound ==
    part = "pipeline" => GenerationsAgree /\ ConflictQuarantines /\ ActiveUnderLayout

\* See BgpPipeline: a candidate stops being active by a message that names its
\* route, or by an effect on its scope that the receipt announces.
EffectExplains == [][part = "pipeline" => EffectExplained]_<<pipeline, receipt>>
=============================================================================
