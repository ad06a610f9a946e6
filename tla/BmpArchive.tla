------------------------------ MODULE BmpArchive ------------------------------
(***************************************************************************)
(* The archive of a BMP file (product/src/deep/bgp_bmp.rs, bgp/bmp.rs,     *)
(* bgp_bmp_store.rs): records are framed, the reported state of every      *)
(* monitored peer is kept beside the decoder of its session, and routes,   *)
(* boundaries and gaps go to the journal, to the native table and to the   *)
(* event inventory that session queries read.                              *)
(*                                                                         *)
(* A record is [id, type, head, kind, peer, stream, rib, width, form,      *)
(* reason, opens, claims, frame, ok, update]: the message type; the        *)
(* per-peer header ("ok", "short", "padding", or "invalid" when it reads   *)
(* but is out of range), whether its peer type is supported, the peer and  *)
(* its policy stream; which Adj-RIB; the AS path width; whether the rest   *)
(* has its form; the reason code; both OPENs, whether they parse, and the  *)
(* ASN and identifier that the received one claims; the UPDATE.            *)
(*                                                                         *)
(* live and lost are history: the routes that stand by the updates alone,  *)
(* and the <<stream, generation>> pairs that lost evidence.                *)
(***************************************************************************)
EXTENDS BgpNative

CONSTANTS
    PeerClaims,      \* peer -> the ASN and identifier its header reports
    MaxPeers,        \* bmp_limits.peers
    MaxMonitored,    \* limits.active
    BmpNames,        \* the identity of the n-th record of the file
    MaxBmpEvents     \* limits.elements

VARIABLE bmp

PeerStreams == {"pre", "post"}
StreamOrder == <<"pre", "post">>
NoMonitored == "none"
ExtendedMessages == 6

(***************************************************************************)
(* Framing.                                                                *)
(***************************************************************************)
PeerTypes == {0, 1, 2, 3, 6}
PerPeer == {0, 2, 3}

PeerReads(r) == r.type \in PeerTypes /\ r.kind = "supported" /\ r.head # "short"
ReadsPeer(r) == PeerReads(r) /\ r.head # "padding"
RecordPeer(r) == IF ReadsPeer(r) THEN r.peer ELSE NoMonitored

Malformed == "malformed_known_record"

BodyKinds == <<"RouteMonitoring", "", "PeerDown", "PeerUp", "Initiation", "Termination">>

\* The reason why a body is opaque; "" when it is read.
Opacity(r) ==
    CASE PeerReads(r) /\ r.head = "padding" -> Malformed
      [] r.type > 6 -> "unknown_message_type"
      [] r.type \in {1, 6} -> "unsupported_message_type"
      [] r.type \in PerPeer /\ r.kind # "supported" -> "unsupported_peer_type"
      [] r.type \in PerPeer /\ r.kind = "supported" /\ r.head \in {"short", "invalid"} -> Malformed
      [] r.type = 0 /\ r.head = "ok" /\ r.kind = "supported" /\ r.rib = "out" ->
           "unsupported_adj_rib_out"
      [] r.type = 2 /\ r.head = "ok" /\ r.kind = "supported" /\ r.reason \notin 1 .. 5 ->
           "unsupported_peer_down_reason"
      [] OTHER -> IF r.form = "bad" THEN Malformed
                  ELSE IF r.type = 5 /\ r.reason > 4 THEN "unsupported_termination_reason"
                  ELSE ""

Body(r) == IF Opacity(r) = "" THEN BodyKinds[r.type + 1] ELSE "Opaque"

(***************************************************************************)
(* The reported state.                                                     *)
(***************************************************************************)
NewMonitor ==
    [sessions |-> [p \in {} |-> 0], closed |-> FALSE, uncertain |-> FALSE, peers |-> {}]

NewPeer(m) ==
    [index |-> Cardinality(DOMAIN m.sessions), wire |-> NewWire, up |-> FALSE, used |-> {},
     unresolved |-> FALSE]

WithPeer(m, p, s) ==
    [m EXCEPT !.sessions = [q \in DOMAIN @ \cup {p} |-> IF q = p THEN s ELSE @[q]]]

Label(index, stream) == [index |-> index, stream |-> stream]
NoLabel == Label(-1, "")

StreamKey(p, s, stream) == <<Label(s.index, stream), <<p, "monitored">>>>

UsedStreams(s) == SelectSeq(StreamOrder, LAMBDA x : x \in s.used)

StreamRecordId(r, stream) == <<r.id, stream>>

\* Every used stream is told; the streams stay in use.
ResetPeer(p, s, r) ==
    [session |-> [s EXCEPT !.wire = ResetWire(@), !.up = FALSE, !.unresolved = FALSE],
     obs |-> [i \in DOMAIN UsedStreams(s) |->
                Observation("boundary", StreamRecordId(r, UsedStreams(s)[i]),
                            StreamKey(p, s, UsedStreams(s)[i]), s.wire.gen + 1, s.wire.gen,
                            NoDirection, NoUpdate, p)]]

GapContexts(p, s) ==
    [i \in DOMAIN UsedStreams(s) |->
        [key |-> StreamKey(p, s, UsedStreams(s)[i]), gen |-> s.wire.gen, peer |-> p]]

StreamScopes(s) == {[label |-> Label(s.index, x), gen |-> s.wire.gen] : x \in s.used}

PeerOrder(m) == SetToSeq(DOMAIN m.sessions)

OverPeers(m, told) == FoldLeft(LAMBDA acc, p : acc \o told[p], <<>>, PeerOrder(m))

AllScopes(m) == UNION {StreamScopes(m.sessions[p]) : p \in DOMAIN m.sessions}

(***************************************************************************)
(* The event of a record.  scoped says that it carries an inventory, which *)
(* may be empty.                                                           *)
(***************************************************************************)
BmpEvent(status, label, gen, scoped, scopes) ==
    [status |-> status, label |-> label, gen |-> gen, scoped |-> scoped, scopes |-> scopes]

BmpReplayed(m, obs, gaps, event) ==
    [ok |-> TRUE, monitor |-> m, obs |-> obs, gaps |-> gaps, event |-> event]

GapScopes(gaps) == {[label |-> gaps[i].key[1], gen |-> gaps[i].gen] : i \in DOMAIN gaps}

InitiationStep(m) ==
    BmpReplayed([m EXCEPT !.closed = FALSE], <<>>, <<>>,
                BmpEvent("reported_initiation", NoLabel, 0, FALSE, {}))

TerminationStep(m, r) ==
    BmpReplayed([m EXCEPT !.closed = TRUE,
                          !.sessions = [p \in DOMAIN @ |-> ResetPeer(p, @[p], r).session]],
                OverPeers(m, [p \in DOMAIN m.sessions |-> ResetPeer(p, m.sessions[p], r).obs]), <<>>,
                BmpEvent("reported_monitor_termination", NoLabel, 0, TRUE, AllScopes(m)))

Unsettling(r) ==
    \/ Opacity(r) = Malformed /\ r.type \in {0, 2, 3, 5}
    \/ Opacity(r) \in {"unsupported_termination_reason", "unsupported_peer_down_reason"}

Unresolve(s) == [s EXCEPT !.unresolved = TRUE]

\* A record that may have said something about a peer unsettles it; when the
\* peer cannot be read, it unsettles every peer known so far.
OpaqueStep(m, r) ==
    LET p == RecordPeer(r)
        event(label, gen, scoped, scopes) ==
            BmpEvent("opaque_quarantine", label, gen, scoped, scopes)
    IN  CASE Unsettling(r) /\ p \in DOMAIN m.sessions ->
               BmpReplayed(WithPeer(m, p, Unresolve(m.sessions[p])), <<>>,
                  GapContexts(p, m.sessions[p]),
                  event(Label(m.sessions[p].index, ""), m.sessions[p].wire.gen, TRUE,
                        StreamScopes(m.sessions[p])))
          [] Unsettling(r) /\ p = NoMonitored ->
               BmpReplayed([m EXCEPT !.uncertain = TRUE,
                                     !.sessions = [q \in DOMAIN @ |-> Unresolve(@[q])]],
                  <<>>, OverPeers(m, [q \in DOMAIN m.sessions |-> GapContexts(q, m.sessions[q])]),
                  event(NoLabel, 0, TRUE, AllScopes(m)))
          [] OTHER -> BmpReplayed(m, <<>>, <<>>, event(NoLabel, 0, FALSE, {}))

(***************************************************************************)
(* Records of one peer.                                                    *)
(***************************************************************************)
\* Gaps without an inventory of their own are the inventory.
Unsettled(m, p, s, status, label) ==
    BmpReplayed(WithPeer(m, p, Unresolve(s)), <<>>, GapContexts(p, s),
                BmpEvent(status, label, s.wire.gen, TRUE, GapScopes(GapContexts(p, s))))

ReportedOpens(r) ==
    [d \in Senders |->
        IF d = 1 THEN <<[content |-> <<r.opens[1], TRUE>>]>>
        ELSE <<[content |-> <<r.opens[2], r.claims = PeerClaims[r.peer]>>]>>]

PeerIsUp(m, p, s, r, obs) ==
    BmpReplayed(WithPeer(m, p, [s EXCEPT !.wire.opens = ReportedOpens(r), !.up = TRUE,
                                         !.unresolved = FALSE]),
                obs, <<>>,
                BmpEvent("reported_peer_up", Label(s.index, ""), s.wire.gen, FALSE, {}))

PeerUpStep(m, p, s, r) ==
    IF ~r.ok THEN Unsettled(m, p, s, "quarantined_peer_up", Label(s.index, ""))
    ELSE IF s.up \/ s.used # {}
    THEN PeerIsUp(m, p, ResetPeer(p, s, r).session, r, ResetPeer(p, s, r).obs)
    ELSE PeerIsUp(m, p, s, r, <<>>)

PeerDownStep(m, p, s, r) ==
    BmpReplayed(WithPeer(m, p, ResetPeer(p, s, r).session), ResetPeer(p, s, r).obs, <<>>,
                BmpEvent(IF r.reason = 5 THEN "reported_coverage_close" ELSE "reported_peer_down",
                         Label(s.index, ""), s.wire.gen + 1, TRUE, StreamScopes(s)))

Listening(m, s) == ~m.closed /\ s.up /\ ~s.unresolved

RoutesReadable(m, s, layout) == Listening(m, s) /\ Bilateral(layout) /\ ~layout.baseUnknown

MonitoredFrame(s, r) ==
    r.frame = "plain" \/ (r.frame = "long" /\ ExtendedMessages \in Offered(s.wire, 1))

RouteCandidate(m, p, s, r, layout, parsed) ==
    LET incomplete == RouteProjectionIncomplete(r.update, layout, parsed)
        update == [records |-> parsed.records, incomplete |-> incomplete, eor |-> parsed.eor,
                   complete |-> parsed.complete, path |-> "absent"]
    IN  BmpReplayed(WithPeer(m, p, [s EXCEPT !.used = @ \cup {r.stream}]),
            <<Observation("routes", StreamRecordId(r, r.stream), StreamKey(p, s, r.stream),
                          s.wire.gen, NoEpoch, 0, update, p)>>, <<>>,
            BmpEvent(IF incomplete THEN "opaque_route_monitoring_continuity_gap"
                     ELSE "decoded_route_monitoring_candidate",
                     Label(s.index, r.stream), s.wire.gen, FALSE, {}))

RouteParsed(m, p, s, r, layout, parsed) ==
    IF parsed.known # "session_reset" THEN RouteCandidate(m, p, s, r, layout, parsed)
    ELSE BmpReplayed(WithPeer(m, p, ResetPeer(p, s, r).session), ResetPeer(p, s, r).obs, <<>>,
            BmpEvent("quarantined_session_reset", Label(s.index, r.stream), s.wire.gen, TRUE,
                     StreamScopes(s)))

\* A record may widen the AS path whatever the OPENs say.
RouteStep(m, p, s, r, layout) ==
    IF ~RoutesReadable(m, s, layout)
    THEN BmpReplayed(WithPeer(m, p, s), <<>>, <<>>,
            BmpEvent("quarantined_route_monitoring", Label(s.index, r.stream), s.wire.gen,
                     FALSE, {}))
    ELSE IF ~MonitoredFrame(s, r) \/ ~r.ok
    THEN Unsettled(m, p, s, "quarantined_malformed_update", Label(s.index, r.stream))
    ELSE RouteParsed(m, p, s, r, [layout EXCEPT !.width = r.width],
            ParseUpdate(r.update, [layout EXCEPT !.width = r.width], PeerRelation))

OfPeer(m, p, s, r) ==
    CASE Body(r) = "PeerUp" -> PeerUpStep(m, p, s, r)
      [] Body(r) = "PeerDown" -> PeerDownStep(m, p, s, r)
      [] Body(r) = "RouteMonitoring" ->
           RouteStep(m, p, s, r, LayoutEvidence(s.wire, TRUE))

PeersExceeded(m) ==
    [BmpReplayed(m, <<>>, <<>>, BmpEvent("", NoLabel, 0, FALSE, {})) EXCEPT !.ok = FALSE]

BmpReplayRecord(m, r) ==
    LET p == RecordPeer(r)
    IN  CASE Body(r) = "Initiation" -> InitiationStep(m)
          [] Body(r) = "Termination" -> TerminationStep(m, r)
          [] Body(r) = "Opaque" -> OpaqueStep(m, r)
          [] OTHER ->
               IF p \in DOMAIN m.sessions THEN OfPeer(m, p, m.sessions[p], r)
               ELSE IF Cardinality(DOMAIN m.sessions) >= MaxMonitored THEN PeersExceeded(m)
               ELSE OfPeer(m, p, NewPeer(m), r)

(***************************************************************************)
(* The archive.                                                            *)
(***************************************************************************)
NewBmpArchive ==
    [monitor |-> NewMonitor, rib |-> Rib!NewRib, observations |-> <<>>, events |-> <<>>,
     source |-> <<>>, status |-> "reading", live |-> {}, lost |-> {}]

NativeScopeInitialized(table, session) ==
    \E i \in DOMAIN table.events : table.events[i].scope.session = session

\* A boundary of a scope the table never admitted stays in the journal.
JoinObservation(t, o, name) ==
    IF o.kind = "boundary" /\ ~NativeScopeInitialized(t.rib, <<o.key[2], o.key[1]>>) THEN t
    ELSE FoldLeft(ApplyNativeEvent, t, ObservationEvent(o, name))

BmpGapId(r, i) == <<"gap", r.id, i>>
QuarantinedContext == 3  \* reason: quarantined_bmp_context_continuity

GapEvents(r, gaps) ==
    [i \in DOMAIN gaps |->
        NativeEvent(Scope(gaps[i].key, gaps[i].gen, NoDirection, gaps[i].peer),
                    BmpGapId(r, i), "Gap", QuarantinedContext, <<>>, "none")]

BmpNative(table, r, x, name) ==
    FoldLeft(ApplyNativeEvent,
             FoldLeft(LAMBDA t, o : JoinObservation(t, o, name),
                      [ok |-> TRUE, rib |-> table, effects |-> {}], x.obs),
             GapEvents(r, x.gaps))

ContainerKind(r, x) ==
    IF x.gaps # <<>> THEN "ContinuityGap"
    ELSE CASE Body(r) = "Termination" -> "GenerationBoundary"
           [] Body(r) = "Opaque" -> "Opaque"
           [] OTHER -> "SessionMetadata"

BmpRow(n, o, kind, gaps, effects) ==
    [record |-> n, observation |-> o, kind |-> kind, cuts |-> GapScopes(gaps),
     effects |-> effects]

BmpObservationRow(n, i, o) ==
    BmpRow(n, i, IF o.kind = "boundary" THEN "GenerationBoundary"
                 ELSE IF o.update.incomplete THEN "ContinuityGap" ELSE "Update", <<>>, {})

(***************************************************************************)
(* History.                                                                *)
(***************************************************************************)
StreamGenerations(m) ==
    {<<Label(m.sessions[p].index, x), m.sessions[p].wire.gen>> :
        p \in DOMAIN m.sessions, x \in PeerStreams}

\* A record that cannot be read is lost to the peer it names, or to all; an
\* UPDATE that is read in part is lost to its own stream.
BmpLost(before, r, x) ==
    LET whole(p) == {<<Label(before.sessions[p].index, y), before.sessions[p].wire.gen>> :
                        y \in PeerStreams}
        unread == \/ r.type \in {0, 2, 3, 5} /\ Opacity(r) = Malformed
                  \/ r.type = 2 /\ Opacity(r) = "unsupported_peer_down_reason"
                  \/ r.type = 5 /\ Opacity(r) = "unsupported_termination_reason"
                  \/ x.event.status \in {"quarantined_peer_up", "quarantined_malformed_update"}
    IN  (IF ~unread THEN {}
         ELSE UNION {whole(p) : p \in {q \in DOMAIN before.sessions :
                                          RecordPeer(r) \in {q, NoMonitored}}})
        \cup {<<x.obs[i].key[1], x.obs[i].gen>> :
                 i \in {j \in DOMAIN x.obs : x.obs[j].update.incomplete}}

\* A readable Peer Up starts the account of its peer.
Restarted(x) ==
    IF x.event.status # "reported_peer_up" THEN {}
    ELSE {<<Label(x.event.label.index, y), x.event.gen>> : y \in PeerStreams}

(***************************************************************************)
(* One record.                                                             *)
(***************************************************************************)
BmpPublished(a, r, n, x, native, lost) ==
    [a EXCEPT
        !.monitor = x.monitor,
        !.rib = native.rib,
        !.events = Append(@, x.event),
        !.source = @ \o <<BmpRow(n, 0, ContainerKind(r, x), x.gaps, native.effects)>>
                     \o [i \in DOMAIN x.obs |->
                            BmpObservationRow(n, Len(a.observations) + i, x.obs[i])],
        !.observations = @ \o x.obs,
        !.lost = lost,
        !.live = Standing(@, x.obs, lost, StreamGenerations(x.monitor))]

BmpJoined(a, r, n, x, native) ==
    IF ~native.ok THEN [a EXCEPT !.status = "inconsistent"]
    ELSE BmpPublished(a, r, n, x, native,
            (a.lost \ Restarted(x)) \cup BmpLost(a.monitor, r, x))

BmpApplied(a, r, n, x) ==
    IF \/ ~x.ok
       \/ Len(a.source) + 1 + Len(x.obs) > MaxBmpEvents
    THEN [a EXCEPT !.status = "limit"]
    ELSE BmpJoined(a, r, n, x, BmpNative(a.rib, r, x, BmpNames[n]))

BmpFramed(a, r, n, peers) ==
    IF Cardinality(peers) > MaxPeers THEN [a EXCEPT !.status = "limit"]
    ELSE BmpApplied(a, r, n, BmpReplayRecord([a.monitor EXCEPT !.peers = peers], r))

BmpRead(a, m) ==
    LET n == Len(a.events) + 1
        r == [m EXCEPT !.id = BmpNames[n]]
    IN  BmpFramed(a, r, n, a.monitor.peers \cup ({RecordPeer(r)} \ {NoMonitored}))

BmpReadRecord(menu) ==
    /\ bmp.status = "reading"
    /\ \E m \in menu : bmp' = BmpRead(bmp, m)

BmpFinish ==
    /\ bmp.status = "reading"
    /\ bmp' = [bmp EXCEPT !.status =
                 IF BatchAdmissible(bmp.observations) THEN "done" ELSE "inconsistent"]

(***************************************************************************)
(* Session queries over the events.                                        *)
(***************************************************************************)
OfLabel(x, q) == x = q \/ (q.stream = "" /\ x.index = q.index)

\* An inventory decides membership, also an empty one.
EventMatches(e, q) ==
    IF e.scoped THEN \E x \in e.scopes : OfLabel(x.label, q)
    ELSE /\ e.label # NoLabel
         /\ OfLabel(q, e.label)

(***************************************************************************)
(* Properties.                                                             *)
(***************************************************************************)
ActiveKeys == {k \in DOMAIN bmp.rib.entries : bmp.rib.entries[k].status = "Active"}

BmpActiveRoutes ==
    {Route(<<k.scope.session[2], k.scope.session[1]>>, k.scope.gen, k.scope.dir, k.prefix) :
        k \in ActiveKeys}

\* The native table shows as active exactly the routes that the readable
\* Route Monitoring records announced and did not withdraw, in the current
\* generation of streams that lost nothing in it; and while a route is active
\* its peer is reported up, settled and monitored, so that no record about the
\* route can be set aside without cutting it.
BmpActiveExact ==
    /\ BmpActiveRoutes = bmp.live
    /\ \A k \in ActiveKeys :
          LET s == bmp.monitor.sessions[k.scope.peer]
          IN  /\ Listening(bmp.monitor, s)
              /\ Bilateral(LayoutEvidence(s.wire, TRUE))

\* The decoder, the journal and the native table agree on the generation of
\* every stream: the archive of a readable file is never refused for an
\* inconsistency of its own making, and no session is tainted.
BmpConsistent ==
    /\ bmp.status # "inconsistent"
    /\ bmp.rib.tainted = {}
    /\ BatchAdmissible(bmp.observations)
    /\ \A p \in DOMAIN bmp.monitor.sessions, x \in PeerStreams :
          LET s == bmp.monitor.sessions[p]
              g == bmp.rib.gens[<<<<p, "monitored">>, Label(s.index, x)>>]
          IN  g # NoEpoch => g = s.wire.gen /\ x \in s.used

\* A query for a policy stream returns every event whose record changed the
\* journal or the native continuity of the stream; an event with an inventory
\* is returned for no other stream, in particular not for one that was first
\* used after it.
QueryExact ==
    \A n \in DOMAIN bmp.events, p \in DOMAIN bmp.monitor.sessions, x \in PeerStreams :
        LET q == Label(bmp.monitor.sessions[p].index, x)
            rows == {i \in DOMAIN bmp.source : bmp.source[i].record = n}
            changed == \/ \E i \in rows : \E e \in bmp.source[i].effects : e[1][2] = q
                       \/ \E i \in rows : /\ bmp.source[i].observation # 0
                                          /\ bmp.observations[bmp.source[i].observation].key[1] = q
        IN  /\ changed => EventMatches(bmp.events[n], q)
            /\ bmp.events[n].scoped /\ EventMatches(bmp.events[n], q) =>
                  \/ changed
                  \/ \E i \in DOMAIN bmp.source :
                        /\ bmp.source[i].record < n
                        /\ bmp.source[i].observation # 0
                        /\ bmp.observations[bmp.source[i].observation].key[1] = q

\* The decoder, the journal and the native table of a BMP archive agree on every
\* generation, and a query for a stream returns what changed it and nothing of
\* another stream (bgp_bmp_store.rs).
BmpSound == BmpConsistent /\ QueryExact
==============================================================================
