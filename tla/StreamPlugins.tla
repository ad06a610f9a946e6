--------------------------- MODULE StreamPlugins ----------------------------
(***************************************************************************)
(* The protocol plugins of one window                                      *)
(* (src/streaming/src/plugin.rs, src/streaming/src/plugin/dnp_workflow.rs, *)
(* driven by src/streaming/src/runner.rs). A datagram is analysed when it  *)
(* is read; both directions of a TCP flow when the window is flushed. The  *)
(* events of every chunk are held back, put into the order of the capture  *)
(* and only then emitted, so the records that the correlators use have to  *)
(* be renumbered. Then requests are paired with responses, and DNP3        *)
(* confirmations with fragments.                                           *)
(*                                                                         *)
(* A chunk is [offset, matches, ports, items, packets, frames, tail]: the  *)
(* detectors that match it and the configured ports, in registry order;    *)
(* its items as DNP3 with the packet of each; its frames as any other      *)
(* protocol and the packets of an unfinished last one. A frame is          *)
(* [kind, packets, hint, complete, record]: kind "frame" or "malformed",   *)
(* record is what a TLS record adds to the handshake ("none", "part",      *)
(* "hello", or "unreadable"), and hint is empty or one [key, role,         *)
(* compat], compat "" when it constrains nothing. Packets are numbered in  *)
(* capture order.                                                          *)
(*                                                                         *)
(* A flow is [session, generation, trouble, syn, chunks]: trouble is "no", *)
(* "anomaly" or "error" (of reconstruction, or a conflict); syn and chunks *)
(* are indexed by 1 + direction.                                           *)
(***************************************************************************)
EXTENDS Dnp3

CONSTANTS
    AllowPortHints,    \* config.allow_port_hints
    MaxPluginEvents,   \* config.max_plugin_events
    MaxBuffered,       \* config.max_event_bytes, in events
    MaxChecks,         \* limits.max_correlation_checks
    MaxInputs          \* bound: flows and datagrams of the window

VARIABLES
    win,      \* what the window emitted and retained
    inputs    \* the flows and datagrams it analysed, in order

pluginVars == <<win, inputs>>

StreamProtocols == {"dnp3", "modbus", "dns", "http1", "tls", "smb2"}
DatagramProtocols == {"dnp3", "dns", "quic", "dhcp", "dhcpv6"}
NoOffset == 1000

PluginInit ==
    /\ win = [sink |-> <<>>, records |-> <<>>, confirmations |-> <<>>,
              remaining |-> MaxPluginEvents, flushed |-> FALSE, failed |-> FALSE,
              paired |-> FALSE, transactions |-> {}, confirmed |-> {}]
    /\ inputs = <<>>

(***************************************************************************)
(* Which plugins see a chunk.                                              *)
(***************************************************************************)
Hinted(chunk) == IF AllowPortHints /\ chunk.matches = <<>> THEN chunk.ports ELSE <<>>

Selection(chunk) == chunk.matches \o Hinted(chunk)

FlowContext(flow, direction) ==
    LET gaps == \E d \in 1 .. 2 : Len(flow.chunks[d]) > 1
    IN  [session |-> flow.session, generation |-> flow.generation, direction |-> direction,
         tcp |-> TRUE, ambiguous |-> flow.trouble # "no" \/ gaps,
         boundary |-> flow.syn[1 + direction] /\ flow.trouble # "error"
                        /\ Len(flow.chunks[1 + direction]) <= 1]

DatagramContext(d) ==
    [session |-> d.session, generation |-> 0, direction |-> d.direction, tcp |-> FALSE,
     ambiguous |-> FALSE, boundary |-> TRUE]

(***************************************************************************)
(* What a plugin has to say about a chunk, in order.                       *)
(***************************************************************************)
Emission(type, layer, index, packets, offset) ==
    [type |-> type, layer |-> layer, index |-> index, packets |-> packets, offset |-> offset,
     complete |-> TRUE, outside |-> FALSE, hint |-> <<>>, witness |-> <<>>]

ChunkEnded(d, at) == IF d.failed THEN d ELSE Bounded(EndChunk(d, at))

DecodeChunk(items) ==
    LET read(d, i) == Bounded(Decode(d, items[i], i))
    IN  ChunkEnded(FoldLeft(read, NewDecoder, [i \in 1 .. Len(items) |-> i]), Len(items) + 1)

\* The frames whose octets a fragment consists of; a repeated segment adds none.
Carriers(d, ids) ==
    FoldLeft(LAMBDA c, i :
                IF c = <<>> \/ d.frames[i].seq = (d.frames[Last(c)].seq + 1) % TransportModulus
                THEN Append(c, i) ELSE c,
             <<>>, ids)

Role(m) == CASE m.class = "request" -> "request"
             [] m.class = "response" -> "response"
             [] OTHER -> "unknown"

\* Why a message is not offered to the pairing of the window.
PairingEligibility(ctx, d, m) ==
    IF ~m.complete THEN "incomplete"
    ELSE IF NoResponse(m) THEN "no_response_expected"
    ELSE IF Role(m) = "unknown" THEN "not_a_solicited_request_response"
    ELSE IF ~ctx.tcp THEN "datagram_pairing_not_enabled"
    ELSE MessageIssue(d, m, "c1")

DnpHint(m) ==
    [key |-> IF m.class = "request" THEN <<m.src, m.dst, m.first>> ELSE <<m.dst, m.src, m.first>>,
     role |-> Role(m), compat |-> ""]

DnpEmissions(ctx, d, chunk) ==
    LET all == Range(chunk.packets)
        ofFrame(i) == {chunk.packets[d.frames[i].at]}
        ofFragment(g) == UNION {ofFrame(i) : i \in Range(Carriers(d, d.fragments[g].frames))}
        ofMessage(m) == UNION {ofFragment(g) : g \in Range(m.fragments)}
        issue(i) == Emission("issue", "decoder", i, all, NoOffset)
        rejected(i) == Emission("issue", "link", i, {chunk.packets[d.rejected[i].at]},
                                chunk.offset + d.rejected[i].at)
        link(i) == [Emission("message", "link", i, ofFrame(i), chunk.offset + d.frames[i].at)
                      EXCEPT !.outside = LinkIssue(d.frames[i]) # "none"]
        confirming(g) ==
            IF FragmentIssue(d, d.fragments[g], "c1") = "none"
            THEN [Emission("message", "confirmation", g, ofFragment(g), NoOffset)
                    EXCEPT !.witness = <<[fragment |-> d.fragments[g],
                                          link |-> LinkDirection(d, d.fragments[g])]>>]
            ELSE Emission("issue", "confirmation", g, ofFragment(g), NoOffset)
        message(n) ==
            LET m == d.messages[n]
            IN  [Emission("message", "application", n, ofMessage(m), NoOffset)
                   EXCEPT !.complete = m.complete,
                          !.hint = IF PairingEligibility(ctx, d, m) = "none"
                                   THEN <<DnpHint(m)>> ELSE <<>>]
        orphan(g) == [Emission("message", "fragment", g, ofFragment(g), NoOffset)
                        EXCEPT !.complete = FALSE]
        numbers(list) == [i \in 1 .. Len(list) |-> i]
        fragments == numbers(d.fragments)
        referenced == UNION {Range(d.messages[n].fragments) : n \in 1 .. Len(d.messages)}
        each(op(_), ids) == [i \in 1 .. Len(ids) |-> op(ids[i])]
    IN  each(issue, numbers(d.issues)) \o each(rejected, numbers(d.rejected))
          \o each(link, numbers(d.frames))
          \o each(confirming,
                  SelectSeq(fragments, LAMBDA g : ctx.tcp
                                                    /\ d.fragments[g].function \in {0, 129, 130}))
          \o each(message, numbers(d.messages))
          \o each(orphan, SelectSeq(fragments, LAMBDA g : g \notin referenced))

\* The length-framed protocols and TLS: frame after frame until one cannot be read. What is said
\* so far, the octets of an open handshake, and whether the reading failed.
ReadFrame(r, f, index, offset) ==
    LET said == [Emission("message", "frame", index, f.packets, offset)
                   EXCEPT !.complete = f.complete, !.hint = f.hint]
        shake == r.handshake \cup f.packets
    IN  IF r.failed \/ f.kind = "malformed" THEN [r EXCEPT !.failed = TRUE]
        ELSE IF f.record = "unreadable"
        THEN [r EXCEPT !.said = Append(@, said), !.failed = TRUE]
        ELSE IF f.record = "part" THEN [r EXCEPT !.said = Append(@, said), !.handshake = shake]
        ELSE IF f.record = "hello"
        THEN [r EXCEPT !.handshake = {},
                       !.said = @ \o <<said, Emission("message", "hello", index, shake, NoOffset)>>]
        ELSE IF r.handshake # {}
        THEN [r EXCEPT !.handshake = {},
                       !.said = @ \o <<said, Emission("issue", "handshake", index, r.handshake,
                                                      NoOffset)>>]
        ELSE [r EXCEPT !.said = Append(@, said)]

\* HTTP: one header, whose body is never read as another message.
ReadHeader(chunk) ==
    LET f == chunk.frames[1]
        said == [Emission("message", "frame", 1, f.packets, chunk.offset)
                   EXCEPT !.complete = f.complete]
    IN  IF f.kind = "malformed" THEN [said |-> <<>>, handshake |-> {}, failed |-> TRUE]
        ELSE [handshake |-> {}, failed |-> FALSE,
              said |-> IF f.complete THEN <<said>>
                       ELSE <<Emission("issue", "framing", 1, f.packets, NoOffset), said>>]

\* At the end of a chunk an unfinished frame and an open handshake are issues.
FinishFrames(r, tail) ==
    LET open(layer, packets) ==
            IF packets = {} THEN <<>> ELSE <<Emission("issue", layer, 0, packets, NoOffset)>>
    IN  IF r.failed THEN r
        ELSE [r EXCEPT !.said = @ \o open("tail", tail) \o open("handshake", r.handshake)]

FramedEmissions(protocol, chunk) ==
    LET start == [said |-> <<>>, handshake |-> {}, failed |-> FALSE]
        read(r, i) == ReadFrame(r, chunk.frames[i], i, chunk.offset + i)
    IN  IF protocol = "http1" /\ chunk.frames # <<>> THEN FinishFrames(ReadHeader(chunk), {})
        ELSE FinishFrames(FoldLeft(read, start, [i \in 1 .. Len(chunk.frames) |-> i]), chunk.tail)

DnpAnalysis(ctx, d, chunk) ==
    [said |-> IF d.failed THEN <<>> ELSE DnpEmissions(ctx, d, chunk), handshake |-> {},
     failed |-> d.failed]

Analysis(ctx, protocol, chunk) ==
    IF protocol = "dnp3" THEN DnpAnalysis(ctx, DecodeChunk(chunk.items), chunk)
    ELSE FramedEmissions(protocol, chunk)

(***************************************************************************)
(* Saying it: budgets, the buffer of the chunk, and the records.           *)
(***************************************************************************)
Status(ctx, e) ==
    IF e.type = "issue" THEN "incomplete"
    ELSE IF e.outside THEN "rejected"
    ELSE IF ctx.ambiguous THEN "ambiguous"
    ELSE IF ~e.complete THEN "incomplete"
    ELSE IF e.layer \in {"link", "confirmation"} THEN "observed"
    ELSE "candidate"

\* What the window keeps of a message for its pairing.
MessageRecord(id, tag, ctx, protocol, e, hint) ==
    [event |-> id, tag |-> tag, session |-> ctx.session, direction |-> ctx.direction,
     protocol |-> protocol, key |-> hint.key, role |-> hint.role, compat |-> hint.compat,
     complete |-> e.complete, ambiguous |-> ctx.ambiguous, boundary |-> ctx.boundary]

\* What it keeps of a fragment that confirms or can be confirmed.
ConfirmationRecord(id, tag, ctx, w) ==
    [event |-> id, tag |-> tag, session |-> ctx.session, generation |-> ctx.generation,
     direction |-> ctx.direction, fragment |-> w.fragment, link |-> w.link,
     ambiguous |-> ctx.ambiguous, boundary |-> ctx.boundary]

\* One event of a plugin, into the budget of the window and the room of the buffer.
Emit(out, ctx, protocol, chunk, e) ==
    LET tag == <<ctx.session, ctx.direction, chunk, protocol, e.layer, e.index>>
        id == Len(out.events) + 1
        event == [type |-> e.type, tag |-> tag, status |-> Status(ctx, e),
                  packets |-> e.packets, offset |-> e.offset]
        records == [i \in 1 .. Len(e.hint) |->
                       MessageRecord(id, tag, ctx, protocol, e, e.hint[i])]
        confirmations == [i \in 1 .. Len(e.witness) |->
                             ConfirmationRecord(id, tag, ctx, e.witness[i])]
    IN  IF out.failed # "no" THEN out
        ELSE IF out.remaining = 0 THEN [out EXCEPT !.failed = "plugin"]
        ELSE IF id > out.room THEN [out EXCEPT !.remaining = @ - 1, !.failed = "sink"]
        ELSE [out EXCEPT !.remaining = @ - 1, !.events = Append(@, event),
                         !.records = @ \o records, !.confirmations = @ \o confirmations]

\* A plugin that fails leaves an issue behind, unless it was the sink that failed.
PluginDone(said, failed, ctx, protocol, index, chunk) ==
    LET problem == Emission("issue", "plugin", 0, Range(chunk.packets), NoOffset)
        told == Emit([said EXCEPT !.failed = "no"], ctx, protocol, index, problem)
    IN  IF said.failed = "sink" \/ (said.failed = "no" /\ ~failed) THEN said
        ELSE IF told.failed = "no" THEN told ELSE [told EXCEPT !.failed = "sink"]

PluginSays(out, ctx, protocol, index, chunk, result) ==
    PluginDone(FoldLeft(LAMBDA o, e : Emit(o, ctx, protocol, index, e), out, result.said),
               result.failed, ctx, protocol, index, chunk)

RunPlugin(out, ctx, protocol, index, chunk) ==
    PluginSays(out, ctx, protocol, index, chunk, Analysis(ctx, protocol, chunk))

NewOutput(remaining, room) ==
    [events |-> <<>>, records |-> <<>>, confirmations |-> <<>>, remaining |-> remaining,
     room |-> room, failed |-> "no"]

\* Every selected plugin that has an analyser for the transport, in registry order.
RunPlugins(ctx, index, chunk, available, remaining, room) ==
    LET selected == Selection(chunk)
        context == [ctx EXCEPT !.ambiguous = @ \/ Len(selected) > 1]
        run(out, p) == IF out.failed = "sink" THEN out
                       ELSE RunPlugin(out, context, p, index, chunk)
    IN  FoldLeft(run, NewOutput(remaining, room),
                 SelectSeq(selected, LAMBDA p : p \in available))

Detection(ctx, index, chunk) ==
    LET n == Len(Selection(chunk))
    IN  [type |-> "detection", tag |-> <<ctx.session, ctx.direction, index, "", "detection", 0>>,
         status |-> IF n > 1 THEN "ambiguous" ELSE IF n = 0 THEN "unsupported" ELSE "candidate",
         packets |-> Range(chunk.packets), offset |-> NoOffset]

(***************************************************************************)
(* Both directions of a flow: analysed chunk by chunk, emitted in the      *)
(* order of the capture.                                                   *)
(***************************************************************************)
\* The chunks of a flow with their contexts, direction 0 first.
ChunksOf(flow) ==
    LET of(direction) ==
            [i \in 1 .. Len(flow.chunks[1 + direction]) |->
                [ctx |-> FlowContext(flow, direction), index |-> i,
                 chunk |-> flow.chunks[1 + direction][i]]]
    IN  of(0) \o of(1)

\* One more chunk; what it says is held back, only the detection is emitted at once.
HoldBack(a, c, out) ==
    [a EXCEPT !.sink = Append(@, Detection(c.ctx, c.index, c.chunk)),
              !.remaining = out.remaining, !.failed = out.failed = "sink",
              !.buffered = @ + Len(out.events),
              !.analyses = IF out.events = <<>> THEN @
                           ELSE Append(@, [out |-> out, direction |-> c.ctx.direction,
                                           last |-> Max(Range(c.chunk.packets))])]

AnalyzeChunk(a, c) ==
    IF a.failed THEN a
    ELSE HoldBack(a, c, RunPlugins(c.ctx, c.index, c.chunk, StreamProtocols, a.remaining,
                                   MaxBuffered - a.buffered))

\* The packet that completes the evidence of an event, else the last of its chunk.
Completion(analysis, event) ==
    IF event.packets = {} THEN analysis.last ELSE Max(event.packets)

Before(a, b) ==
    \E i \in 1 .. 5 : a[i] < b[i] /\ \A j \in 1 .. i - 1 : a[j] = b[j]

\* The held events, each as <<completing packet, offset, direction, analysis, local number>>.
Scheduled(analyses) ==
    SortSeq(FlattenSeq([n \in 1 .. Len(analyses) |->
                [i \in 1 .. Len(analyses[n].out.events) |->
                    <<Completion(analyses[n], analyses[n].out.events[i]),
                      analyses[n].out.events[i].offset, analyses[n].direction, n, i>>]]),
            Before)

\* Mutant of ActualId: the number within the chunk, after what was emitted before the flow.
ActualIdLocal(order, sink, analysis, local) == Len(sink) + local

\* The number that an event of an analysis has in the sink.
ActualId(order, sink, analysis, local) ==
    Len(sink) + CHOOSE k \in 1 .. Len(order) : order[k][4] = analysis /\ order[k][5] = local

Renumbered(list, order, sink, analysis) ==
    [i \in 1 .. Len(list) |->
        [list[i] EXCEPT !.event = ActualId(order, sink, analysis, list[i].event)]]

\* The held events go to the sink in the order of the capture, and what was recorded about them
\* follows their new numbers.
Release(a, order) ==
    LET emitted == [k \in 1 .. Len(order) |-> a.analyses[order[k][4]].out.events[order[k][5]]]
        renumbered(listOf(_)) ==
            FlattenSeq([n \in 1 .. Len(a.analyses) |->
                Renumbered(listOf(a.analyses[n].out), order, a.sink, n)])
        records(out) == out.records
        confirmations(out) == out.confirmations
    IN  IF a.failed THEN [win EXCEPT !.sink = a.sink, !.remaining = a.remaining, !.failed = TRUE]
        ELSE [win EXCEPT !.sink = a.sink \o emitted, !.remaining = a.remaining,
                         !.records = @ \o renumbered(records),
                         !.confirmations = @ \o renumbered(confirmations)]

Replayed(a) == Release(a, Scheduled(a.analyses))

Streams(flow) ==
    Replayed(FoldLeft(AnalyzeChunk,
                      [sink |-> win.sink, remaining |-> win.remaining, buffered |-> 0,
                       analyses |-> <<>>, failed |-> FALSE],
                      ChunksOf(flow)))

\* A datagram is emitted as it is analysed.
Forward(sink, out) ==
    LET moved(list) == [i \in 1 .. Len(list) |-> [list[i] EXCEPT !.event = Len(sink) + @]]
    IN  [win EXCEPT !.sink = sink \o out.events, !.remaining = out.remaining,
                    !.records = @ \o moved(out.records),
                    !.confirmations = @ \o moved(out.confirmations),
                    !.failed = out.failed = "sink"]

DatagramAnalysed(ctx, d) ==
    Forward(Append(win.sink, Detection(ctx, d.index, d.chunk)),
            RunPlugins(ctx, d.index, d.chunk, DatagramProtocols, win.remaining, NoOffset))

Datagram(d) == DatagramAnalysed(DatagramContext(d), d)

(***************************************************************************)
(* Pairing within the window.                                              *)
(***************************************************************************)
Pairable(r) == r.complete /\ ~r.ambiguous /\ r.role # "unknown"

CompatibilityMatches(q, s) == q.compat = "" \/ s.compat = "" \/ q.compat = s.compat

PairReason(requests, responses) ==
    LET unique == Len(requests) = 1 /\ Len(responses) = 1
        q == requests[1]
        s == responses[1]
    IN  IF requests = <<>> THEN "orphan_response"
        ELSE IF responses = <<>> THEN "unanswered_in_window"
        ELSE IF ~unique \/ q.direction = s.direction
        THEN "identifier_reuse_or_direction_conflict"
        ELSE IF ~CompatibilityMatches(q, s) THEN "inconsistent_response"
        ELSE IF ~q.boundary \/ ~s.boundary THEN "candidate_unverified_boundary"
        ELSE "matching_identifiers_not_causality"

RecordKey(r) == <<r.session, r.protocol, r.key>>

IdentifierTransactions(records) ==
    LET pairable == SelectSeq(records, Pairable)
        of(k, role) == SelectSeq(pairable, LAMBDA r : RecordKey(r) = k /\ r.role = role)
        events(list) == {list[i].event : i \in 1 .. Len(list)}
        row(k) == [session |-> k[1], protocol |-> k[2], requests |-> events(of(k, "request")),
                   responses |-> events(of(k, "response")),
                   reason |-> PairReason(of(k, "request"), of(k, "response"))]
    IN  {row(k) : k \in {RecordKey(r) : r \in Range(pairable)}}

StreamConfirmationKey(c) ==
    LET g == c.fragment
    IN  <<c.session, c.generation>>
          \o (IF g.function = 0 THEN <<g.src, g.dst>> ELSE <<g.dst, g.src>>) \o <<g.seq, g.uns>>

GroupMembers(list, k, confirming) ==
    SelectSeq(list, LAMBDA c : StreamConfirmationKey(c) = k /\ (c.fragment.function = 0) = confirming)

\* The work of the pairing, charged before anything is emitted.
Required(list, keys) ==
    FoldSet(LAMBDA k, n : n + Len(GroupMembers(list, k, FALSE))
                            * (Len(GroupMembers(list, k, TRUE)) + 1),
            2 * Len(list), keys)

StreamExcluded(confirms, s) ==
    IF ~s.fragment.con THEN "target_does_not_request_confirmation"
    ELSE IF s.ambiguous THEN "ambiguous_stream_context"
    ELSE IF ~s.boundary THEN "unverified_stream_boundary"
    ELSE IF ~\E c \in Range(confirms) : c.direction # s.direction /\ c.link # s.link
    THEN "direction_evidence_not_jointly_compatible"
    ELSE "none"

StreamConfirmation(list, k) ==
    LET confirms == GroupMembers(list, k, TRUE)
        responses == GroupMembers(list, k, FALSE)
        eligible == SelectSeq(responses, LAMBDA s : StreamExcluded(confirms, s) = "none")
        some == Range(confirms) \cup Range(responses)
        events(l) == {l[i].event : i \in 1 .. Len(l)}
        reason ==
            IF \E c \in some : c.ambiguous THEN "ambiguous_stream_context"
            ELSE IF Len(confirms) > 1 THEN "duplicate_or_reused_confirmation_identifier"
            ELSE IF eligible = <<>> THEN "no_verified_response_fragment"
            ELSE IF ~confirms[1].boundary THEN "unverified_stream_boundary"
            ELSE IF Len(eligible) > 1 \/ Len(eligible) < Len(responses)
            THEN "duplicate_or_reused_response_identifier"
            ELSE "unique_verified_stream_fragment"
    IN  [confirms |-> events(confirms), targets |-> events(eligible),
         others |-> events(responses) \ events(eligible), reason |-> reason]

StreamConfirmations(list) ==
    LET keys == {StreamConfirmationKey(c) : c \in Range(list)}
    IN  {StreamConfirmation(list, k) : k \in {j \in keys : GroupMembers(list, j, TRUE) # <<>>}}

(***************************************************************************)
(* The window.                                                             *)
(***************************************************************************)
Open == ~win.failed /\ ~win.paired /\ Len(inputs) < MaxInputs

ReadDatagram(menu) ==
    \E d \in menu :
        /\ Open /\ ~win.flushed
        /\ win' = Datagram([d EXCEPT !.index = Len(inputs) + 1])
        /\ inputs' = Append(inputs, d)

FlushFlow(menu) ==
    \E flow \in menu :
        /\ Open
        /\ \A i \in 1 .. Len(inputs) : inputs[i].session # flow.session
        /\ win' = [Streams(flow) EXCEPT !.flushed = TRUE]
        /\ inputs' = Append(inputs, flow)

\* Transactions first; the confirmations are emitted only if all of their work is in the budget.
Correlate ==
    LET keys == {StreamConfirmationKey(c) : c \in Range(win.confirmations)}
        fits == Required(win.confirmations, keys) <= MaxChecks
    IN  /\ ~win.failed /\ ~win.paired
        /\ win' = IF Len(win.records) > MaxChecks THEN [win EXCEPT !.failed = TRUE]
                  ELSE [win EXCEPT !.transactions = IdentifierTransactions(win.records),
                                   !.confirmed = IF fits THEN StreamConfirmations(win.confirmations)
                                                 ELSE {},
                                   !.paired = fits, !.failed = ~fits]
        /\ UNCHANGED inputs

(***************************************************************************)
(* Properties.                                                             *)
(***************************************************************************)
Named(list) == {list[i].event : i \in 1 .. Len(list)}

\* Holding the events back loses and mixes up nothing: a record names the event that was emitted
\* for the very message it was made from, no two records share one, every event is emitted once,
\* and within a flow the events are in the order in which the capture completed their evidence
\* (plugin.rs streams, remap_buffered_event).
EventsTraceable ==
    /\ \A i \in 1 .. Len(win.records) :
           LET r == win.records[i]
           IN  /\ win.sink[r.event].tag = r.tag /\ win.sink[r.event].type = "message"
               /\ (win.sink[r.event].status = "candidate") = (r.complete /\ ~r.ambiguous)
    /\ \A i \in 1 .. Len(win.confirmations) :
           win.sink[win.confirmations[i].event].tag = win.confirmations[i].tag
    /\ Cardinality(Named(win.records)) = Len(win.records)
    /\ Cardinality(Named(win.confirmations)) = Len(win.confirmations)
    /\ Cardinality({<<e.tag, e.type>> : e \in Range(win.sink)}) = Len(win.sink)
    /\ \A i \in 1 .. Len(win.sink) - 1 :
           LET e == win.sink[i]
               f == win.sink[i + 1]
           IN  (e.type # "detection" /\ f.type # "detection" /\ e.tag[1] = f.tag[1])
                   => Max(e.packets) <= Max(f.packets)

\* The directions of the flows as the whole-capture analysis sees them.
Decoded(chunks) ==
    DecodeChunk(FlattenSeq([i \in 1 .. Len(chunks) |->
                    IF i = 1 THEN chunks[i].items
                    ELSE <<[chunks[i].items[1] EXCEPT !.kind = "gap"]>> \o chunks[i].items]))

Offline(flows) ==
    FlattenSeq([n \in 1 .. Len(flows) |->
        [d \in 1 .. 2 |-> [protocol |-> "dnp3", capture |-> "c1", flow |-> flows[n].session,
                           direction |-> d - 1, result |-> Decoded(flows[n].chunks[d]),
                           modbus |-> <<>>]]])

OnlyDnp(flow) ==
    /\ flow.trouble = "no"
    /\ \A d \in 1 .. 2 : /\ Len(flow.chunks[d]) <= 1
                         /\ \A i \in 1 .. Len(flow.chunks[d]) :
                                Selection(flow.chunks[d][i]) = <<"dnp3">>

\* The pairs and confirmations of the window, by place, are those of the directions `apps`.
SameCandidates(flows, apps) ==
    LET place(id) == LET tag == win.sink[id].tag
                         n == CHOOSE i \in 1 .. Len(flows) : flows[i].session = tag[1]
                     IN  <<2 * n - 1 + tag[2], tag[6]>>
        places(ids) == {place(id) : id \in ids}
        sure(c) == \A r \in c.confirms \cup c.targets :
                       flows[(r[1] + 1) \div 2].syn[1 + apps[r[1]].direction]
    IN  /\ {<<places(t.requests), places(t.responses)>> :
               t \in {u \in win.transactions :
                         u.reason \in {"matching_identifiers_not_causality",
                                       "candidate_unverified_boundary"}}}
             = {<<t.requests, t.responses>> :
                   t \in {u \in Transactions(apps) : u.status = "candidate_pair"}}
        /\ {<<places(c.confirms), places(c.targets)>> :
               c \in {d \in win.confirmed :
                         /\ d.reason = "unique_verified_stream_fragment"
                         /\ Blocking(apps, "c1", win.sink[CHOOSE e \in d.confirms : TRUE].tag[1])
                              = {}}}
             = {<<c.confirms, c.targets>> :
                   c \in {d \in ConfirmationCandidates(apps) :
                             d.status = "candidate_confirmation" /\ sure(d)}}

\* Two correlators, one answer: for flows that were reconstructed without doubt and read as DNP3
\* alone, the pairs that a window offers are those that the analysis of the whole capture offers,
\* and so are the confirmations, except that there an unreadable fragment of the flow forbids them
\* and here an unverified boundary does (plugin.rs IdentifierCorrelator and
\* correlate_dnp3_confirmations against correlate.rs and dnp3_confirmations.rs).
CorrelatorsAgree ==
    LET flows == SelectSeq(inputs, LAMBDA x : x.tcp)
    IN  win.paired /\ (\A i \in 1 .. Len(flows) : OnlyDnp(flows[i])) =>
            SameCandidates(flows, Offline(flows))

\* Pairs are candidates only without a rival, whatever the order (PairingSound, correlate.rs), and
\* the correlator of a window offers the pairs that the one of the whole capture offers
\* (CorrelatorsAgree, plugin.rs).
CorrelationSound == PairingSound /\ CorrelatorsAgree
=============================================================================
