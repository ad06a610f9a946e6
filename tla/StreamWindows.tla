--------------------------- MODULE StreamWindows ---------------------------
(***************************************************************************)
(* The windows of the streaming runner (streaming/src/runner.rs): each     *)
(* active tuple key owns a TcpTracker or a UDP session, and key count,     *)
(* retained payload and idleness force windows out.  A packet is a record  *)
(* [kind, key, refs, segment, time]: refs is the number of captured        *)
(* packets behind the datagram, kind "other" is anything that never        *)
(* reaches a transport.                                                    *)
(*                                                                         *)
(* `st` is the runner's State with the events it has emitted.  Of the      *)
(* events only flow start and end, the assignment of a segment, the        *)
(* coverage boundary of a window and the two ends of the capture are kept: *)
(* diagnostics, stream contents and plugin output carry the session that   *)
(* is open around them.  Frames order the windows totally, because a       *)
(* packet touches one window.                                              *)
(***************************************************************************)
EXTENDS Tcp

CONSTANTS
    TcpKeys, UdpKeys,   \* tuple keys by transport
    MaxActiveKeys,      \* max_active_keys
    MaxActivePayload,   \* max_active_payload
    IdleFrames,         \* idle_frames
    Packets,            \* the packets that may be captured
    PacketBound         \* model bound on the packets of a capture

\* StreamConfig::validate and tracker_limits: window_payload is StreamRetained,
\* window_packets is MaxSegments.
VARIABLES st, frame, phase

vars == <<st, frame, phase>>

Init ==
    /\ st = [active |-> [k \in {} |-> 0], retained |-> 0, session |-> 0, window |-> 0,
             log |-> <<>>]
    /\ frame = 0
    /\ phase = "reading"

-----------------------------------------------------------------------------
(***************************************************************************)
(* Events.                                                                 *)
(***************************************************************************)
FlowStart(id, w) == [kind |-> "FlowStart", session |-> id, window |-> w]
FlowEnd(id, w, n) == [kind |-> "FlowEnd", session |-> id, window |-> w, inputs |-> n]
Network(id, w) == [kind |-> "Network", session |-> id, window |-> w]
Boundary(w, reason) == [kind |-> "Boundary", session |-> None, window |-> w, reason |-> reason]
CaptureEnd(kind) == [kind |-> kind, session |-> None, window |-> None]

Emit(s, events) == [s EXCEPT !.log = @ \o events]

-----------------------------------------------------------------------------
(***************************************************************************)
(* create, flush, take and put.                                            *)
(***************************************************************************)
NewWindow(s, k, f, when) ==
    [window |-> s.window + 1, tracker |-> TrackerNew, flow_ids |-> [i \in {} |-> 0],
     udp |-> IF k \in UdpKeys THEN s.session + 1 ELSE None,
     payload |-> 0, refs |-> 0, last_frame |-> f, last_ns |-> when]

Created(s, k) ==
    LET w == s.window + 1
    IN  IF k \in UdpKeys
        THEN Emit([s EXCEPT !.window = w, !.session = @ + 1], <<FlowStart(s.session + 1, w)>>)
        ELSE [s EXCEPT !.window = w]

\* A flow without an identifier gets one when its window is flushed.
Unnamed(a) == DOMAIN a.tracker.flows \ DOMAIN a.flow_ids

FlowEvents(s, a, i) ==
    LET fresh == s.session + Cardinality({j \in Unnamed(a) : j <= i})
        id    == IF i \in Unnamed(a) THEN fresh ELSE a.flow_ids[i]
    IN  (IF i \in Unnamed(a) THEN <<FlowStart(id, a.window)>> ELSE <<>>)
            \o <<FlowEnd(id, a.window, Len(a.tracker.flows[i].inputs))>>

Flush(s, a, reason) ==
    LET flows == FlattenSeq([i \in DOMAIN a.tracker.flows |-> FlowEvents(s, a, i)])
        udp   == IF a.udp = None THEN <<>> ELSE <<FlowEnd(a.udp, a.window, None)>>
    IN  Emit([s EXCEPT !.session = @ + Cardinality(Unnamed(a))],
             flows \o udp \o <<Boundary(a.window, reason)>>)

Take(s, k) ==
    [s EXCEPT !.active = [j \in DOMAIN @ \ {k} |-> @[j]],
              !.retained = @ - s.active[k].payload]

CanPut(s, a) ==
    s.retained + a.payload <= MaxActivePayload /\ Cardinality(DOMAIN s.active) < MaxActiveKeys

Put(s, k, a) ==
    [s EXCEPT !.active = [j \in DOMAIN @ \cup {k} |-> IF j = k THEN a ELSE @[j]],
              !.retained = @ + a.payload]

-----------------------------------------------------------------------------
(***************************************************************************)
(* evict_oldest, room and expire: windows leave in the order of their last *)
(* frame.                                                                  *)
(***************************************************************************)
Evict(s, keys, reason) ==
    FoldLeft(LAMBDA x, k : Flush(Take(x, k), x.active[k], reason), s,
             SetToSortSeq(keys, LAMBDA j, k : s.active[j].last_frame < s.active[k].last_frame))

PayloadOf(s, keys) == SumFunctionOnSet([k \in DOMAIN s.active |-> s.active[k].payload], keys)

Fits(s, gone, bytes) ==
    /\ Cardinality(DOMAIN s.active \ gone) < MaxActiveKeys
    /\ s.retained - PayloadOf(s, gone) + bytes <= MaxActivePayload

\* The oldest windows up to each one, and none at all.
OldestSets(s) ==
    {{}} \cup {{j \in DOMAIN s.active : s.active[j].last_frame <= s.active[k].last_frame} :
               k \in DOMAIN s.active}

HasRoom(s, bytes) == \E gone \in OldestSets(s) : Fits(s, gone, bytes)

MakeRoom(s, bytes) ==
    LET enough == {gone \in OldestSets(s) : Fits(s, gone, bytes)}
    IN  Evict(s, CHOOSE gone \in enough : \A other \in enough : gone \subseteq other,
              "active_state_budget")

Expire(s, f) ==
    Evict(s, {k \in DOMAIN s.active : f - s.active[k].last_frame > IdleFrames},
          "idle_frame_boundary")

-----------------------------------------------------------------------------
(***************************************************************************)
(* transport: a step is a pair of the State, without the window in hand,   *)
(* and that window.                                                        *)
(***************************************************************************)
Bytes(p) == IF p.key \in TcpKeys THEN Len(p.segment.data) ELSE 0

Oversize(p) == Bytes(p) > StreamRetained \/ p.refs > MaxSegments

Opened(s, p, f) == [s |-> Created(s, p.key), a |-> NewWindow(s, p.key, f, p.time)]

Found(s, p, f) ==
    IF p.key \in DOMAIN s.active THEN [s |-> Take(s, p.key), a |-> s.active[p.key]]
    ELSE Opened(MakeRoom(s, Bytes(p)), p, f)

IdleTime(a, when) == when # None /\ a.last_ns # None /\ when - a.last_ns > IdleNs

Spent(a, p) == a.refs + p.refs > MaxSegments \/ a.payload + Bytes(p) > StreamRetained

\* Mutant of Rolled: the old window is dropped without being flushed.
RolledSilently(x, p, f) ==
    IF IdleTime(x.a, p.time) \/ Spent(x.a, p) THEN Opened(x.s, p, f) ELSE x

Rolled(x, p, f) ==
    IF IdleTime(x.a, p.time)
    THEN Opened(Flush(x.s, x.a, "idle_time_boundary"), p, f)
    ELSE IF Spent(x.a, p)
    THEN Opened(Flush(x.s, x.a, "reconstruction_window_budget"), p, f)
    ELSE x

Touched(a, p, f) ==
    [a EXCEPT !.last_frame = f, !.refs = @ + p.refs,
              !.last_ns = IF p.time = None THEN @ ELSE Max({OrElse(@, p.time), p.time})]

\* The first segment assigned to a flow starts its session.
Named(x, i) ==
    IF i \in DOMAIN x.a.flow_ids
    THEN [x EXCEPT !.s = Emit(@, <<Network(x.a.flow_ids[i], x.a.window)>>)]
    ELSE LET id == x.s.session + 1
         IN  [s |-> Emit([x.s EXCEPT !.session = id],
                         <<FlowStart(id, x.a.window), Network(id, x.a.window)>>),
              a |-> [x.a EXCEPT !.flow_ids =
                        [j \in DOMAIN @ \cup {i} |-> IF j = i THEN id ELSE @[j]]]]

Recorded(x, p, step) ==
    LET b == [x EXCEPT !.a.tracker = step.t]
    IN  IF step.out.tag = "Assigned"
        THEN Named([b EXCEPT !.a.payload = @ + Bytes(p)], step.out.flow)
        ELSE [b EXCEPT !.s = Emit(@, <<Network(None, x.a.window)>>)]

\* A tracker that refuses a segment is flushed and the segment goes to a new one.
Reset(x, p, f) ==
    LET y == Opened(Flush(x.s, x.a, "tracker_admission_boundary"), p, f)
    IN  [y EXCEPT !.a.refs = p.refs]

Accepts(x, p) == Ingest(x.a.tracker, p.segment, p.time).out.tag # "Err"

Ready(x, p, f) == IF Accepts(x, p) THEN x ELSE Reset(x, p, f)

IngestedInto(x, p) == Recorded(x, p, Ingest(x.a.tracker, p.segment, p.time))

Ingested(x, p, f) ==
    IF p.key \in UdpKeys THEN [x EXCEPT !.s = Emit(@, <<Network(x.a.udp, x.a.window)>>)]
    ELSE IngestedInto(Ready(x, p, f), p)

\* The window of the packet, then the same with room made for it and the packet
\* counted.
Routed(s, p, f) == Rolled(Found(s, p, f), p, f)

Placed(x, p, f) == [s |-> MakeRoom(x.s, x.a.payload + Bytes(p)), a |-> Touched(x.a, p, f)]

Prepared(s, p, f) == Placed(Routed(s, p, f), p, f)

Crowded(x, p) == ~HasRoom(x.s, x.a.payload + Bytes(p))
Unplaceable(x) == ~CanPut(x.s, x.a)

\* The errors of transport: no room, a second refusal by a tracker, put.
Refused(s, p, f) ==
    \/ p.key \notin DOMAIN s.active /\ ~HasRoom(s, Bytes(p))
    \/ Crowded(Routed(s, p, f), p)
    \/ p.key \in TcpKeys /\ ~Accepts(Ready(Prepared(s, p, f), p, f), p)
    \/ Unplaceable(Ingested(Prepared(s, p, f), p, f))

Kept(x, p) == Put(x.s, p.key, x.a)

Transport(s, p, f) ==
    IF p.kind = "other" \/ Oversize(p) THEN s
    ELSE Kept(Ingested(Prepared(s, p, f), p, f), p)

-----------------------------------------------------------------------------
(***************************************************************************)
(* analyze_reader.                                                         *)
(***************************************************************************)
Step(p) == Transport(Expire(st, frame + 1), p, frame + 1)

Rejects(p) ==
    p.kind = "transport" /\ ~Oversize(p) /\ Refused(Expire(st, frame + 1), p, frame + 1)

Packet(p) ==
    /\ phase = "reading" /\ frame < PacketBound
    /\ frame' = frame + 1
    /\ IF Rejects(p) THEN phase' = "refused" /\ UNCHANGED st
       ELSE st' = Step(p) /\ UNCHANGED phase

\* The events of a step that fails reach the sink up to some point; the error is
\* reported to it once more and it may refuse that too.
Truncated(full) ==
    \E n \in Len(st.log) .. (Len(full) - 1), end \in {<<>>, <<CaptureEnd("CaptureAborted")>>} :
        st' = [st EXCEPT !.log = SubSeq(full, 1, n) \o end]

Drained == Evict(st, DOMAIN st.active, "eof")

SinkFails ==
    /\ phase = "reading"
    /\ \/ frame < PacketBound /\ \E p \in Packets : ~Rejects(p) /\ Truncated(Step(p).log)
       \/ Truncated(Drained.log)
    /\ phase' = "aborted"
    /\ UNCHANGED frame

\* The last event cannot be written, or cannot be flushed: nothing follows it.
CompletionFails ==
    /\ phase = "reading"
    /\ \E end \in {<<>>, <<CaptureEnd("CaptureComplete")>>} : st' = Emit(Drained, end)
    /\ phase' = "aborted"
    /\ UNCHANGED frame

ReadFails ==
    /\ phase = "reading"
    /\ st' = Emit(st, <<CaptureEnd("CaptureAborted")>>)
    /\ phase' = "aborted"
    /\ UNCHANGED frame

Finish ==
    /\ phase = "reading"
    /\ st' = Emit(Drained, <<CaptureEnd("CaptureComplete")>>)
    /\ phase' = "complete"
    /\ UNCHANGED frame

Next ==
    \/ \E p \in Packets : Packet(p)
    \/ SinkFails \/ CompletionFails \/ ReadFails \/ Finish

Spec == Init /\ [][Next]_vars

-----------------------------------------------------------------------------
(***************************************************************************)
(* Properties.                                                             *)
(***************************************************************************)
Log == st.log
Positions(kind) == {n \in DOMAIN Log : Log[n].kind = kind}
Of(id, kind) == {n \in Positions(kind) : Log[n].session = id}
Sessions == {Log[n].session : n \in DOMAIN Log} \ {None}

\* A session starts once, before anything else is said of it, ends at most once,
\* with nothing after, belongs to one window, and ends before that window's
\* boundary: no event joins what two windows saw.
SessionsBracketed ==
    \A id \in Sessions :
        LET all == {n \in DOMAIN Log : Log[n].session = id}
        IN  /\ Of(id, "FlowStart") = {Min(all)}
            /\ Of(id, "FlowEnd") \subseteq {Max(all)}
            /\ \A m, n \in all : Log[m].window = Log[n].window
            /\ \A b \in Positions("Boundary") :
                  Log[b].window = Log[Min(all)].window => Of(id, "FlowEnd") # {} /\ Max(all) < b

\* A capture reported complete leaves nothing open: every session has ended,
\* every window has exactly one boundary, and the flow that ends accounts for
\* exactly the segments that were reported as assigned to its session.
CompleteAccounts ==
    Positions("CaptureComplete") # {} =>
        /\ \A id \in Sessions : Of(id, "FlowEnd") # {}
        /\ \A w \in 1 .. st.window :
              Cardinality({b \in Positions("Boundary") : Log[b].window = w}) = 1
        /\ \A n \in Positions("FlowEnd") :
              Log[n].inputs # None =>
                  Log[n].inputs = Cardinality(Of(Log[n].session, "Network"))

\* The shared payload budget is charged with exactly what the windows hold,
\* neither it nor the number of windows is ever exceeded, and no capture is
\* abandoned for want of room: what room and the window reset make space for,
\* put and the second attempt accept.
BudgetExact ==
    /\ phase # "refused"
    /\ st.retained = PayloadOf(st, DOMAIN st.active)
    /\ st.retained <= MaxActivePayload
    /\ Cardinality(DOMAIN st.active) <= MaxActiveKeys
    /\ \A k \in DOMAIN st.active :
          /\ st.active[k].payload = st.active[k].tracker.retained
          /\ st.active[k].payload <= StreamRetained /\ st.active[k].refs <= MaxSegments

\* What the windows say adds up: sessions are bracketed and stay within a window, a
\* capture that is reported complete leaves nothing open, and the budget that forces
\* a window out is exact and never in the way.
WindowAccounts == SessionsBracketed /\ CompleteAccounts /\ BudgetExact
=============================================================================
