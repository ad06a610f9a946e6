----------------------------- MODULE MrtArchive -----------------------------
(***************************************************************************)
(* The replay of an MRT file and the archive built from it                 *)
(* (product/src/deep/bgp/mrt.rs, bgp_mrt.rs, bgp_mrt_archive.rs,           *)
(* bgp_mrt_rib.rs).                                                        *)
(***************************************************************************)
EXTENDS BgpNative

(***************************************************************************)
(* The replay of BGP4MP records (product/src/deep/bgp/mrt.rs): the         *)
(* sessions an MRT file reports on, the decoder of each, and the           *)
(* continuity cuts that tell every known source partition what a record    *)
(* that could not be understood may have cost it.                          *)
(*                                                                         *)
(* A record is [id, body, head, readable, old, new, type, frame, ok,       *)
(* content, update, subtype, entries].  A header is [addr, peer, local,    *)
(* iface, width, addPath, dir]: the address pair, two ASN labels, the      *)
(* interface, the ASN width and the ADD-PATH layout of the container, and  *)
(* the sender.  The ADD-PATH capability is offered for both directions.    *)
(***************************************************************************)
CONSTANTS
    AsnOf,           \* OPEN content -> the ASN label it advertises at each width
    MaxSessions,     \* limits.active
    MaxReplay        \* limits.retained_bytes, in sessions, OPENs and contexts

ZeroAsn == "zero"
TransAsn == "as_trans"
NoFsm == 0
NoSlot == -1
NoSession == <<>>
NoKey == <<>>
Extended == 6            \* capability codes
EnhancedRefresh == 70

(***************************************************************************)
(* The session a record belongs to.                                        *)
(***************************************************************************)
KnownAsn(asn, width) ==
    IF asn = ZeroAsn \/ (width = 2 /\ asn = TransAsn) THEN "" ELSE asn

SessionIdentity(h) ==
    [addr |-> h.addr, peer |-> KnownAsn(h.peer, h.width),
     local |-> KnownAsn(h.local, h.width), iface |-> h.iface]

CompatibleValue(x, y, none) == x = none \/ y = none \/ x = y

IdentitiesCompatible(i, j) ==
    /\ i.addr = j.addr
    /\ CompatibleValue(i.peer, j.peer, "")
    /\ CompatibleValue(i.local, j.local, "")
    /\ CompatibleValue(i.iface, j.iface, 0)

Enrich(i, j) ==
    [i EXCEPT !.peer = IF @ = "" THEN j.peer ELSE @,
              !.local = IF @ = "" THEN j.local ELSE @,
              !.iface = IF @ = 0 THEN j.iface ELSE @]

SessionId(h, slot) == <<h.addr, h.peer, h.local, h.iface, slot>>

\* The source partition of a record: the labels its own header carries.
Partition(h) == <<h.addr, h.peer, h.local>>

NewReplay ==
    [sessions |-> <<>>, contexts |-> [k \in {} |-> 0], pending |-> [k \in {} |-> 0],
     held |-> 0]

CompatibleSessions(rs, h) ==
    {i \in DOMAIN rs.sessions :
        IdentitiesCompatible(rs.sessions[i].identity, SessionIdentity(h))}

NoOpens == [d \in Senders |-> <<>>]

ClearGrammar(s) == [s EXCEPT !.wire.opens = NoOpens, !.fsm = NoFsm, !.conflict = TRUE]

Cleared(rs, S) ==
    [rs EXCEPT !.sessions =
        [i \in DOMAIN @ |-> IF i \in S THEN ClearGrammar(@[i]) ELSE @[i]]]

AffectedScopes(rs, S) == {<<rs.sessions[i].id, rs.sessions[i].wire.gen>> : i \in S}

NewSession(rs, h) ==
    [id |-> SessionId(h, Cardinality({i \in DOMAIN rs.sessions :
                                        rs.sessions[i].identity.addr = h.addr})),
     identity |-> SessionIdentity(h), wire |-> NewWire, fsm |-> NoFsm,
     conflict |-> FALSE, epoch |-> NoEpoch]

Resolved(found, rs, at, scopes) == [found |-> found, rs |-> rs, at |-> at, scopes |-> scopes]

ResolveSession(rs, h) ==
    LET S == CompatibleSessions(rs, h)
        i == CHOOSE x \in S : TRUE
    IN  IF Cardinality(S) > 1
        THEN Resolved("ambiguous", Cleared(rs, S), 0, AffectedScopes(rs, S))
        ELSE IF S # {}
        THEN Resolved("selected", [rs EXCEPT !.sessions[i].identity =
                                     Enrich(@, SessionIdentity(h))], i, {})
        ELSE IF Len(rs.sessions) >= MaxSessions
        THEN Resolved("limit", rs, 0, {})
        ELSE Resolved("selected", [rs EXCEPT !.sessions = Append(@, NewSession(rs, h))],
                      Len(rs.sessions) + 1, {})

(***************************************************************************)
(* State changes.                                                          *)
(***************************************************************************)
FsmStates == 1 .. 6

ValidFsmTransition(old, new) ==
    new \in CASE old = 1 -> {2, 3}
              [] old = 2 -> {1, 3, 4}
              [] old = 3 -> {1, 2, 4}
              [] old = 4 -> {1, 3, 5}
              [] old = 5 -> {1, 6}
              [] old = 6 -> {1}

StateStatus(s, r) ==
    IF ~({r.old, r.new} \subseteq FsmStates) THEN "rejected"
    ELSE IF ~ValidFsmTransition(r.old, r.new) \/ s.fsm \notin {NoFsm, r.old}
    THEN "quarantined" ELSE "reported_transition"

ResetSession(s) == [s EXCEPT !.wire = ResetWire(@), !.fsm = NoFsm]

\* Idle, or OpenSent back to Active, begins another generation.
StateSession(s, r, status) ==
    IF status # "reported_transition"
    THEN [ResetSession(s) EXCEPT !.conflict = TRUE]
    ELSE [s EXCEPT
            !.wire = IF r.new = 1 \/ (r.old = 4 /\ r.new = 3) THEN ResetWire(@) ELSE @,
            !.fsm = r.new,
            !.conflict = FALSE]

(***************************************************************************)
(* Messages.  A step is the session after it, the status and, for an       *)
(* UPDATE that reads, what it says.                                        *)
(***************************************************************************)
MessageStep(s, status) == [session |-> s, status |-> status, limit |-> FALSE, update |-> NoUpdate]

\* Long frames need the other side to have announced that it takes them.
FrameValid(s, r, layout) ==
    \/ r.frame = "plain"
    \/ /\ r.frame = "long"
       /\ r.type \notin {1, 4}
       /\ Bilateral(layout)
       /\ Extended \in Offered(s.wire, 1 - r.head.dir)

ExpectedAsn(h) == IF h.dir = 1 THEN h.local ELSE h.peer

\* An OPEN whose ASN is not the container's is kept as ambiguous evidence.
OpenEvidence(r) ==
    [content |-> <<r.content, AsnOf[r.content][r.head.width] = ExpectedAsn(r.head)>>]

Opening(s) == ~s.conflict /\ s.fsm \in 2 .. 4

OpenStep(s, r) ==
    IF ~r.ok THEN MessageStep(s, "rejected")
    ELSE IF ~Opening(s) THEN MessageStep(s, "quarantined_open_fsm_state")
    ELSE [MessageStep([s EXCEPT !.wire.opens[r.head.dir] = Append(@, OpenEvidence(r))],
                      "decoded_open") EXCEPT !.limit = OpenCount(s.wire) >= MaxOpens]

Established(s) == s.fsm = 6 /\ ~s.conflict

\* The container fixes the layout of this record; the OPENs are the evidence
\* it is compared with.
WireLayout(h, layout) == [layout EXCEPT !.width = h.width]

AddPathNegotiated(s) == \A d \in Senders : AddPath \in Offered(s.wire, d)

LayoutConflict(s, h, layout, parsed) ==
    \/ h.width # layout.width
    \/ parsed.records # <<>> /\ h.addPath # AddPathNegotiated(s)

ReadUpdate(s, r, layout, parsed) ==
    IF LayoutConflict(s, r.head, layout, parsed) THEN MessageStep(s, "quarantined")
    ELSE IF parsed.known = "session_reset"
    THEN MessageStep(ResetSession(s), "quarantined_session_reset")
    ELSE LET incomplete == RouteProjectionIncomplete(r.update, layout, parsed)
         IN  [MessageStep(s, IF incomplete THEN "opaque_update_continuity_gap"
                             ELSE "decoded_update_candidate")
              EXCEPT !.update = [records |-> parsed.records, incomplete |-> incomplete,
                                 eor |-> parsed.eor, complete |-> parsed.complete,
                                 path |-> IF r.head.addPath THEN "present" ELSE "absent"]]

\* A layout with evidence of both senders leaves no ADD-PATH mode open, so the
\* code's refusal of an UPDATE for an unresolved mode is never reached.
UpdateStep(s, r, layout) ==
    IF ~Established(s) \/ ~Bilateral(layout) THEN MessageStep(s, "quarantined")
    ELSE IF ~r.ok THEN MessageStep(s, "rejected")
    ELSE ReadUpdate(s, r, layout,
                    ParseUpdate(r.update, WireLayout(r.head, layout), PeerRelation))

NotificationStep(s, r) ==
    IF r.ok THEN MessageStep(ResetSession(s), "decoded_notification_reset")
    ELSE MessageStep(s, "rejected")

KeepaliveStep(s, r) ==
    MessageStep(s, IF ~r.ok THEN "rejected"
                   ELSE IF ~s.conflict /\ s.fsm \in {5, 6} THEN "decoded_keepalive"
                   ELSE "quarantined_keepalive_fsm_state")

RefreshSenderLayout(s, d) ==
    UnambiguousOpen(s.wire, 1 - d) /\ EnhancedRefresh \in Offered(s.wire, 1 - d)

RefreshStep(s, r) ==
    MessageStep(s, IF ~r.ok THEN "rejected"
                   ELSE IF r.subtype > 2 THEN "ignored_unknown_route_refresh_subtype"
                   ELSE IF ~Established(s) THEN "quarantined_route_refresh_fsm_state"
                   ELSE IF r.subtype # 0 /\ ~RefreshSenderLayout(s, r.head.dir)
                   THEN "quarantined_route_refresh_capability_context"
                   ELSE "decoded_route_refresh")

TypedStep(s, r, layout) ==
    CASE r.type = 1 -> OpenStep(s, r)
      [] r.type = 2 -> UpdateStep(s, r, layout)
      [] r.type = 3 -> NotificationStep(s, r)
      [] r.type = 4 -> KeepaliveStep(s, r)
      [] r.type = 5 -> RefreshStep(s, r)
      [] OTHER -> MessageStep(s, "rejected")

LayoutStep(s, r, layout) ==
    IF FrameValid(s, r, layout) THEN TypedStep(s, r, layout)
    ELSE MessageStep(ClearGrammar(s), "rejected")

MessageOutcome(s, r) == LayoutStep(s, r, LayoutEvidence(s.wire, Established(s)))

(***************************************************************************)
(* The event of a record: what it is about, in which generation, and the   *)
(* scopes it names when it is about several sessions or about all.         *)
(***************************************************************************)
Event(kind, status, session, gen, dir, scopes, next) ==
    [kind |-> kind, status |-> status, session |-> session, gen |-> gen, dir |-> dir,
     scopes |-> scopes, next |-> next]

Replayed(rs, event, update, limit) ==
    [ok |-> ~limit, rs |-> rs, event |-> event, update |-> update]

OverLimit(rs) == Replayed(rs, Event("none", "", NoSession, 0, 0, {}, 0), NoUpdate, TRUE)

AmbiguousEvent(f, r, kind, dir) ==
    Replayed(f.rs, Event(kind, "quarantined_ambiguous_session",
                         SessionId(r.head, NoSlot), 0, dir, f.scopes, 0), NoUpdate, FALSE)

WithSession(f, s) == [f.rs EXCEPT !.sessions[f.at] = s]

StateEvent(f, r, status, s) ==
    Replayed(WithSession(f, s),
        Event("state_change", status, s.id, s.wire.gen, NoDirection, {}, s.wire.gen),
        NoUpdate, FALSE)

StateOutcome(f, r) ==
    LET s == f.rs.sessions[f.at]
    IN  StateEvent(f, r, StateStatus(s, r), StateSession(s, r, StateStatus(s, r)))

\* The event of a message carries the generation before it.
MessageEvent(f, r, s, m) ==
    Replayed(WithSession(f, m.session),
        Event("message", m.status, s.id, s.wire.gen, r.head.dir, {}, m.session.wire.gen),
        m.update, m.limit)

MalformedEvent(f, r) ==
    LET s == ClearGrammar(f.rs.sessions[f.at])
    IN  Replayed(WithSession(f, s),
            Event("malformed_record", "rejected", s.id, s.wire.gen, NoDirection, {},
                  s.wire.gen), NoUpdate, FALSE)

\* The peer of a record that is broken before its header ends is unknown.
CoverageUnknown(rs) ==
    Replayed(Cleared(rs, DOMAIN rs.sessions),
        Event("malformed_record", "quarantined_coverage_unknown", NoSession, NoEpoch,
              NoDirection, AffectedScopes(rs, DOMAIN rs.sessions), 0), NoUpdate, FALSE)

EventKind(r) ==
    CASE r.body = "State" -> "state_change"
      [] r.body = "Message" -> "message"
      [] r.body = "Malformed" -> "malformed_record"

OfSession(f, r) ==
    CASE f.found = "limit" -> OverLimit(f.rs)
      [] f.found = "ambiguous" ->
           AmbiguousEvent(f, r, EventKind(r),
                          IF r.body = "Message" THEN r.head.dir ELSE NoDirection)
      [] f.found = "selected" /\ r.body = "State" -> StateOutcome(f, r)
      [] f.found = "selected" /\ r.body = "Message" ->
           MessageEvent(f, r, f.rs.sessions[f.at], MessageOutcome(f.rs.sessions[f.at], r))
      [] f.found = "selected" /\ r.body = "Malformed" -> MalformedEvent(f, r)

ReplayRecord(rs, r) ==
    IF r.readable THEN OfSession(ResolveSession(rs, r.head), r) ELSE CoverageUnknown(rs)

(***************************************************************************)
(* Continuity.  contexts holds the generation of every known partition of  *)
(* every session, pending what a partition not known yet will inherit.     *)
(***************************************************************************)
Retained(rs) ==
    Len(rs.sessions) + rs.held
    + FoldLeft(LAMBDA n, s : n + OpenCount(s.wire), 0, rs.sessions)

Without(f, S) == [x \in DOMAIN f \ S |-> f[x]]

KnownSession(rs, id) == {i \in DOMAIN rs.sessions : rs.sessions[i].id = id}

Discovery(rs, key) == [rs |-> rs, key |-> key]

Advanced(rs, i, key, next, moved) ==
    LET retired == {k \in DOMAIN rs.pending : moved /\ k[1] = key[1]}
    IN  [rs EXCEPT
            !.sessions[i].epoch = next,
            !.contexts = [k \in DOMAIN @ \cup {key} |->
                            IF k = key \/ (moved /\ k[1] = key[1]) THEN next ELSE @[k]],
            !.pending = Without(@, retired),
            !.held = @ + (IF key \in DOMAIN rs.contexts THEN 0 ELSE 1) - Cardinality(retired)]

\* The session and partition of the record are known from here on.  Only an
\* advance of the generation retires what is pending for the session.
Discover(rs, event, r) ==
    LET known == KnownSession(rs, event.session)
        i == CHOOSE x \in known : TRUE
        key == <<event.session, Partition(r.head)>>
        next == rs.sessions[i].wire.gen
    IN  IF ~r.readable \/ known = {} THEN Discovery(rs, NoKey)
        ELSE Discovery(Advanced(rs, i, key, next, rs.sessions[i].epoch \notin {NoEpoch, next}),
                       IF key \in DOMAIN rs.contexts THEN NoKey ELSE key)

Rejecting == {"rejected", "quarantined", "quarantined_open_fsm_state",
    "quarantined_keepalive_fsm_state", "quarantined_route_refresh_fsm_state",
    "quarantined_route_refresh_capability_context"}
Widespread == {"quarantined_ambiguous_session", "quarantined_coverage_unknown"}
QuarantinedReset == "quarantined_session_reset"

Cut(gen, dir, rec) == [gen |-> gen, dir |-> dir, rec |-> rec]

\* What the record itself costs: everything its session, or every session it
\* may be about, holds in the generation it had.
Selected(rs, event) ==
    {k \in DOMAIN rs.contexts :
        IF event.status \in Widespread THEN <<k[1], rs.contexts[k]>> \in event.scopes
        ELSE /\ event.status \in Rejecting
             /\ k[1] = event.session
             /\ rs.contexts[k] = event.gen}

\* A partition seen for the first time inherits what its session lost before.
Inherited(rs, discovered) ==
    {k \in DOMAIN rs.pending :
        discovered # NoKey /\ k[1] = discovered[1] /\ rs.pending[k].gen = rs.contexts[discovered]}

\* The observation itself cuts its own partition; the others are told here.
GapReaches(rs, event, gap, r) ==
    {k \in DOMAIN rs.contexts :
        /\ gap
        /\ k[1] = event.session
        /\ rs.contexts[k] = event.gen
        /\ k[2] # Partition(r.head)}

QuarantineId(r) == <<"quarantine", r.id>>
UpdateId(r) == <<"update", r.id>>

Placed(k, cut) == [session |-> k[1], part |-> k[2], cut |-> cut]

\* Mutant of Cuts: a partition that appears later starts clean.
CutsKnownOnly(rs, discovered, event, gap, r) ==
    {Placed(k, Cut(rs.contexts[k], NoDirection, QuarantineId(r))) : k \in Selected(rs, event)}
    \cup {Placed(k, Cut(event.gen, event.dir, UpdateId(r))) : k \in GapReaches(rs, event, gap, r)}

Cuts(rs, discovered, event, gap, r) ==
    {Placed(k, Cut(rs.contexts[k], NoDirection, QuarantineId(r))) : k \in Selected(rs, event)}
    \cup {Placed(discovered, rs.pending[k]) : k \in Inherited(rs, discovered)}
    \cup {Placed(k, Cut(event.gen, event.dir, UpdateId(r))) : k \in GapReaches(rs, event, gap, r)}

\* The first cut of a session stands for the later ones of its generation.
NewPending(rs, event, gap, r) ==
    LET whole == {<<k[1], NoDirection>> : k \in Selected(rs, event)}
        sided == IF gap THEN {<<event.session, event.dir>>} ELSE {}
        genOf(id) == CHOOSE g \in {rs.contexts[k] : k \in {x \in DOMAIN rs.contexts : x[1] = id}} : TRUE
    IN  [k \in (whole \cup sided) \ DOMAIN rs.pending |->
            IF k \in whole THEN Cut(genOf(k[1]), NoDirection, QuarantineId(r))
            ELSE Cut(event.gen, event.dir, UpdateId(r))]

Noted(admitted, rs, cuts, new) ==
    [ok |-> admitted /\ Retained(rs) + Cardinality(cuts) + Cardinality(DOMAIN new) <= MaxReplay,
     rs |-> [rs EXCEPT !.pending = [k \in DOMAIN @ \cup DOMAIN new |->
                                      IF k \in DOMAIN @ THEN @[k] ELSE new[k]],
                       !.held = @ + Cardinality(DOMAIN new)],
     cuts |-> cuts]

ContinuityCuts(rs, event, gap, r) ==
    LET d == Discover(rs, event, r)
    IN  Noted(Retained(rs) + (IF d.key = NoKey THEN 0 ELSE 1) <= MaxReplay,
              d.rs, Cuts(d.rs, d.key, event, gap, r), NewPending(d.rs, event, gap, r))

(***************************************************************************)
(* The archive of an MRT file (product/src/deep/bgp_mrt.rs,                *)
(* bgp_mrt_archive.rs, bgp_mrt_rib.rs): every record is replayed, its      *)
(* resets, continuity cuts, routes and quarantines are applied to the      *)
(* native table in that order, and what happened is published as source    *)
(* occurrences.                                                            *)
(*                                                                         *)
(* archive holds the whole builder.  live, lost and moved are history: the *)
(* routes that stand by the updates alone, the <<session, generation>>     *)
(* pairs that lost evidence, and the records that began a generation.      *)
(***************************************************************************)
CONSTANTS
    RecordNames,     \* the identity of the n-th record of the file
    MaxRecords,
    MaxObservations  \* limits.elements

VARIABLE archive

NewArchive ==
    [replay |-> NewReplay, rib |-> Rib!NewRib, tracked |-> [k \in {} |-> 0],
     observations |-> <<>>, source |-> <<>>, candidates |-> <<>>, table |-> 0,
     file |-> <<>>, status |-> "reading",
     live |-> {}, lost |-> {}, moved |-> {}]

Refused(a, why) == [a EXCEPT !.status = why]

(***************************************************************************)
(* Generation boundaries of the tracked partitions.                        *)
(***************************************************************************)
ResetGeneration(event) ==
    CASE event.kind = "state_change" -> event.gen
      [] event.kind = "message" /\ event.status = "decoded_notification_reset" -> event.next
      [] event.kind = "message" /\ event.status = QuarantinedReset -> event.gen + 1
      [] OTHER -> NoEpoch

Crossing(tracked, event) ==
    {k \in DOMAIN tracked :
        /\ ResetGeneration(event) # NoEpoch
        /\ k[1] = event.session
        /\ tracked[k] # ResetGeneration(event)}

ResetId(r) == <<"reset", r.id>>

PeerOf(key) == key[2][2]

Boundaries(tracked, event, r) ==
    LET keys == SetToSeq(Crossing(tracked, event))
    IN  [i \in DOMAIN keys |->
            Observation("boundary", ResetId(r), keys[i], ResetGeneration(event),
                        tracked[keys[i]], NoDirection, NoUpdate, PeerOf(keys[i]))]

BoundariesAdvance(bs) == \A i \in DOMAIN bs : bs[i].gen = bs[i].prev + 1

(***************************************************************************)
(* The observation of a readable UPDATE.                                   *)
(***************************************************************************)
Observed(update) ==
    update.records # <<>> \/ update.incomplete \/ EndOfRibFamily(update) # {}

UpdateObservation(event, update, r) ==
    IF ~Observed(update) THEN <<>>
    ELSE <<Observation("routes", UpdateId(r), <<event.session, Partition(r.head)>>,
                       event.gen, NoEpoch, r.head.dir, update, r.head.peer)>>

Tracked(tracked, obs) ==
    FoldLeft(LAMBDA t, o : [k \in DOMAIN t \cup {o.key} |-> IF k = o.key THEN o.gen ELSE t[k]],
             tracked, obs)

(***************************************************************************)
(* Native events.                                                          *)
(***************************************************************************)
GapReason(rec) == IF rec[1] = "update" THEN 1 ELSE 2

\* The last event of every partition of the session that the table knows.
PriorScopes(table, event) ==
    LET last(s) == CHOOSE i \in DOMAIN table.events :
                     /\ table.events[i].scope.session = s
                     /\ \A j \in (i + 1) .. Len(table.events) : table.events[j].scope.session # s
        known == {table.events[i].scope.session : i \in DOMAIN table.events}
    IN  {table.events[last(s)].scope : s \in {x \in known : x[2] = event.session}}

\* Also partitions the table knows by a gap alone are reset.
NativeResets(table, event, r) ==
    LET due == {s \in PriorScopes(table, event) :
                   /\ ResetGeneration(event) # NoEpoch
                   /\ s.gen # ResetGeneration(event)}
        scopes == SetToSeq(due)
    IN  [i \in DOMAIN scopes |->
            NativeEvent([scopes[i] EXCEPT !.gen = ResetGeneration(event), !.dir = NoDirection],
                        ResetId(r), "Reset", scopes[i].gen, <<>>, "none")]

ResetsAdvance(resets) ==
    \A i \in DOMAIN resets : resets[i].event.scope.gen = resets[i].event.val + 1

ApplyContinuityCuts(cuts) ==
    LET s == SetToSeq(cuts)
    IN  [i \in DOMAIN s |->
            NativeEvent(Scope(<<s[i].session, s[i].part>>, s[i].cut.gen, s[i].cut.dir, s[i].part[2]),
                        s[i].cut.rec, "Gap", GapReason(s[i].cut.rec), <<>>, "none")]

ObservationEvents(obs, name) ==
    FoldLeft(LAMBDA es, o : es \o ObservationEvent(o, name), <<>>, obs)

QuarantineKeys(tracked, event) ==
    {k \in DOMAIN tracked :
        IF event.status \in Widespread THEN \E s \in event.scopes : s[1] = k[1]
        ELSE event.status \in Rejecting /\ k[1] = event.session}

QuarantineGeneration(event, k) ==
    IF event.status \in Widespread
    THEN (CHOOSE s \in event.scopes : s[1] = k[1])[2] ELSE event.gen

QuarantineInScope(tracked, event) ==
    \A k \in QuarantineKeys(tracked, event) : tracked[k] = QuarantineGeneration(event, k)

QuarantineEvents(tracked, event, r) ==
    LET keys == SetToSeq(QuarantineKeys(tracked, event))
    IN  [i \in DOMAIN keys |->
            NativeEvent(Scope(keys[i], tracked[keys[i]], NoDirection, PeerOf(keys[i])),
                        QuarantineId(r), "Gap", 2, <<>>, "none")]

(***************************************************************************)
(* Source occurrences.                                                     *)
(***************************************************************************)
StateAdvanced(r, event) ==
    /\ r.body = "State"
    /\ event.status \notin Widespread
    /\ r.new = 1 \/ (r.old = 4 /\ r.new = 3) \/ event.status \in {"rejected", "quarantined"}

TypeKinds == <<"Open", "Update", "Notification", "Keepalive", "RouteRefresh">>

SourceEventKind(r, event, boundary) ==
    IF \/ boundary
       \/ StateAdvanced(r, event)
       \/ event.status \in {"decoded_notification_reset", QuarantinedReset}
    THEN "GenerationBoundary"
    ELSE IF event.status \in Rejecting \cup Widespread \cup {"opaque_update_continuity_gap"}
    THEN "ContinuityGap"
    ELSE CASE r.body = "State" -> "SessionMetadata"
           [] r.body = "Message" /\ r.type \in DOMAIN TypeKinds -> TypeKinds[r.type]
           [] OTHER -> "Opaque"

Row(n, o, kind, cuts, effects) ==
    [record |-> n, observation |-> o, kind |-> kind, cuts |-> cuts, effects |-> effects]

ObservationRow(n, i, o) ==
    Row(n, i, IF o.kind = "boundary" THEN "GenerationBoundary"
              ELSE IF o.update.incomplete THEN "ContinuityGap" ELSE "Update", {}, {})

OwnCut(event, gap, r) ==
    IF gap THEN {Placed(<<event.session, Partition(r.head)>>,
                        Cut(event.gen, event.dir, UpdateId(r)))} ELSE {}

(***************************************************************************)
(* History.                                                                *)
(***************************************************************************)
Generations(rs) == {<<rs.sessions[i].id, rs.sessions[i].wire.gen>> : i \in DOMAIN rs.sessions}

Begins(before, after) ==
    \E i \in DOMAIN after.sessions :
        after.sessions[i].wire.gen
        # IF i \in DOMAIN before.sessions THEN before.sessions[i].wire.gen ELSE NewWire.gen

Concerned(rs, r) ==
    IF ~r.readable THEN Generations(rs)
    ELSE {<<rs.sessions[i].id, rs.sessions[i].wire.gen>> : i \in CompatibleSessions(rs, r.head)}

\* A record that may be about several sessions is lost to all of them.
NewlyLost(before, rs, r, event, gap) ==
    IF \/ gap
       \/ event.status \in Rejecting \cup Widespread
       \/ r.readable /\ Cardinality(CompatibleSessions(before, r.head)) > 1
    THEN Concerned(rs, r) ELSE {}

(***************************************************************************)
(* One BGP4MP record.                                                      *)
(***************************************************************************)
Publish(a, r, n, x, cc, obs, tracked, native, boundary, lost) ==
    [a EXCEPT
        !.replay = cc.rs,
        !.rib = native.rib,
        !.tracked = tracked,
        !.source = @ \o <<Row(n, 0, SourceEventKind(r, x.event, boundary),
                              cc.cuts \cup OwnCut(x.event, x.update.incomplete, r),
                              native.effects)>>
                     \o [i \in DOMAIN obs |->
                            ObservationRow(n, Len(a.observations) + i, obs[i])],
        !.observations = @ \o obs,
        !.lost = lost,
        !.moved = IF Begins(a.replay, cc.rs) THEN @ \cup {n} ELSE @,
        !.live = Standing(@, obs, lost, Generations(cc.rs))]

Joined(a, r, n, x, cc, obs, tracked) ==
    LET native == ApplyNative(a.rib,
                    NativeResets(a.rib, x.event, r) \o ApplyContinuityCuts(cc.cuts)
                    \o ObservationEvents(obs, RecordNames[n])
                    \o QuarantineEvents(tracked, x.event, r))
    IN  IF \/ ~native.ok
           \/ ~ResetsAdvance(NativeResets(a.rib, x.event, r))
           \/ ~QuarantineInScope(tracked, x.event)
        THEN Refused(a, "inconsistent")
        ELSE Publish(a, r, n, x, cc, obs, tracked, native,
                \E i \in (Len(a.rib.events) + 1) .. Len(native.rib.events) :
                    native.rib.events[i].kind = "Reset",
                a.lost \cup NewlyLost(a.replay, cc.rs, r, x.event, x.update.incomplete))

Native(a, r, n, x, cc, obs) ==
    IF ~cc.ok THEN Refused(a, "limit") ELSE Joined(a, r, n, x, cc, obs, Tracked(a.tracked, obs))

Decoded(a, r, n, x, bs, obs) ==
    IF ~x.ok \/ Len(a.observations) + Len(obs) > MaxObservations THEN Refused(a, "limit")
    ELSE IF ~BoundariesAdvance(bs) THEN Refused(a, "inconsistent")
    ELSE Native(a, r, n, x, ContinuityCuts(x.rs, x.event, x.update.incomplete, r), obs)

Replayed4mp(a, r, n, x, bs) ==
    Decoded(a, r, n, x, bs, bs \o UpdateObservation(x.event, x.update, r))

Bgp4mp(a, r, n, x) ==
    Replayed4mp(a, r, n, x, IF r.body = "Malformed" THEN <<>> ELSE Boundaries(a.tracked, x.event, r))

(***************************************************************************)
(* Table dumps.  A peer table holds for the uninterrupted run of routing   *)
(* records after it; anything else ends the run.                           *)
(***************************************************************************)
TableRun == {"PeerIndex", "Rib", "RibOther"}

NextTable(a, r, n) ==
    IF r.body = "PeerIndex" THEN n ELSE IF r.body \in TableRun THEN a.table ELSE 0

\* Entries name peers of the table; those with attributes that are not
\* understood are counted and produce no candidate.
RibEntriesValid(a, r) ==
    /\ a.table # 0
    /\ \A i \in DOMAIN r.entries : r.entries[i].peer \in 1 .. Len(a.file[a.table].entries)

SupportedEntries(r) ==
    SelectSeq([i \in DOMAIN r.entries |-> i], LAMBDA i : r.entries[i].supported)

RibId(r, i) == <<"rib", r.id, i>>

\* The session of an entry is its table and its peer; which prefix the record
\* is for makes no difference here.
RibObservation(a, r, i) ==
    Observation("routes", RibId(r, i),
                <<<<"mrt", a.table, r.entries[i].peer>>, <<r.id, r.entries[i].peer>>>>,
                0, NoEpoch, NoDirection,
                [NoUpdate EXCEPT !.records = <<[op |-> "Announce", prefix |-> "dumped"]>>],
                r.entries[i].peer)

RibObservations(a, r) ==
    [j \in DOMAIN SupportedEntries(r) |-> RibObservation(a, r, SupportedEntries(r)[j])]

CollectorCandidates(a, r, n) ==
    [j \in DOMAIN SupportedEntries(r) |->
        [record |-> n, entry |-> SupportedEntries(r)[j], table |-> a.table,
         peer |-> r.entries[SupportedEntries(r)[j]].peer,
         observation |-> Len(a.observations) + j]]

FallbackKind(r) ==
    CASE r.body = "PeerIndex" -> "SessionMetadata"
      [] r.body = "Rib" -> "Update"
      [] OTHER -> "Opaque"

\* What a table dump tells is kept as observations and candidates, and never
\* reaches the native table.
DumpedEntries(a, r, n, obs) ==
    IF Len(a.observations) + Len(obs) > MaxObservations THEN Refused(a, "limit")
    ELSE [a EXCEPT !.source = @ \o <<Row(n, 0, FallbackKind(r), {}, {})>>
                                \o [i \in DOMAIN obs |->
                                       ObservationRow(n, Len(a.observations) + i, obs[i])],
                   !.observations = @ \o obs,
                   !.candidates = IF obs = <<>> THEN @ ELSE @ \o CollectorCandidates(a, r, n)]

Dumped(a, r, n) ==
    IF r.body # "Rib" THEN DumpedEntries(a, r, n, <<>>)
    ELSE IF ~RibEntriesValid(a, r) THEN Refused(a, "malformed")
    ELSE DumpedEntries(a, r, n, RibObservations(a, r))

(***************************************************************************)
(* The builder.                                                            *)
(***************************************************************************)
Bgp4mpBodies == {"State", "Message", "Malformed"}

Applied(a, r, n) ==
    IF r.body \in Bgp4mpBodies THEN Bgp4mp(a, r, n, ReplayRecord(a.replay, r)) ELSE Dumped(a, r, n)

Numbered(r, n) == [r EXCEPT !.id = RecordNames[n]]

DecodeRecord(a, m) ==
    LET n == Len(a.file) + 1
        r == Numbered(m, n)
    IN  [Applied(a, r, n) EXCEPT !.file = Append(@, r), !.table = NextTable(a, r, n)]

Reading == archive.status = "reading" /\ Len(archive.file) < MaxRecords

ReadRecord(menu) ==
    /\ Reading
    /\ \E m \in menu : archive' = DecodeRecord(archive, m)

Finish ==
    /\ archive.status = "reading"
    /\ archive' = [archive EXCEPT !.status =
                     IF BatchAdmissible(archive.observations) THEN "done" ELSE "inconsistent"]

ArchiveNext(menu) == ReadRecord(menu) \/ Finish

(***************************************************************************)
(* Properties.                                                             *)
(***************************************************************************)
ActiveRoutes ==
    {Route(<<k.scope.session[2], k.scope.session[1]>>, k.scope.gen, k.scope.dir, k.prefix) :
        k \in {x \in DOMAIN archive.rib.entries : archive.rib.entries[x].status = "Active"}}

\* The native table shows as active exactly the routes that the understood
\* updates announced and did not withdraw, in the current generation of
\* sessions that lost nothing in it.  A record that could not be understood
\* takes away the routes of every session it may have been about, in every
\* partition, also in one that a later header shows for the first time.
ActiveExact == ActiveRoutes = archive.live

DecoderGeneration(id) ==
    archive.replay.sessions[CHOOSE i \in DOMAIN archive.replay.sessions :
                              archive.replay.sessions[i].id = id].wire.gen

\* The decoder, the tracked partitions, the continuity contexts and the native
\* table agree on every generation; the join refuses no file for an
\* inconsistency of its own making, and taints no session.
JoinConsistent ==
    /\ archive.status # "inconsistent"
    /\ archive.rib.tainted = {}
    /\ \A k \in DOMAIN archive.tracked :
          archive.tracked[k] = DecoderGeneration(k[1])
    /\ \A k \in DOMAIN archive.replay.contexts :
          archive.replay.contexts[k] = DecoderGeneration(k[1])
    /\ \A s \in RibKeys : archive.rib.gens[s] # NoEpoch
                           => archive.rib.gens[s] = DecoderGeneration(s[2])
    /\ archive.replay.held = Cardinality(DOMAIN archive.replay.contexts)
                             + Cardinality(DOMAIN archive.replay.pending)
    /\ \A i, j \in DOMAIN archive.replay.sessions :
          i # j => archive.replay.sessions[i].id # archive.replay.sessions[j].id

\* A container occurrence is labelled a generation boundary exactly when its
\* record made the decoder begin another generation, whether or not the table
\* or the journal had anything to reset.
BoundaryTold ==
    {archive.source[i].record : i \in
        {j \in DOMAIN archive.source : /\ archive.source[j].observation = 0
                                       /\ archive.source[j].kind = "GenerationBoundary"}}
    = archive.moved

\* A collector candidate belongs to the peer table that opens the
\* uninterrupted run of table records its own record is in, and points at the
\* observation of its own entry, which has a row of that record.
TableFollows ==
    \A i \in DOMAIN archive.candidates :
        LET c == archive.candidates[i]
        IN  /\ archive.file[c.table].body = "PeerIndex"
            /\ \A n \in (c.table + 1) .. c.record : archive.file[n].body \in {"Rib", "RibOther"}
            /\ c.peer <= Len(archive.file[c.table].entries)
            /\ archive.observations[c.observation].rec = RibId(archive.file[c.record], c.entry)
            /\ \E j \in DOMAIN archive.source :
                  /\ archive.source[j].record = c.record
                  /\ archive.source[j].observation = c.observation

\* The decoder, the continuity contexts and the native table of an MRT archive
\* agree on every generation, each boundary the decoder met is told, and a
\* collector candidate belongs to the peer table of its run (bgp_mrt_store.rs).
MrtConsistent == JoinConsistent /\ BoundaryTold /\ TableFollows
=============================================================================
