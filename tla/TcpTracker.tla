----------------------------- MODULE TcpTracker -----------------------------
(***************************************************************************)
(* One TcpTracker: any sequence of segments and timestamps, then finish.   *)
(* An error ends the tracker: the snapshot engine aborts and the streaming *)
(* runner flushes it and starts another.  `last` is the last call.         *)
(*                                                                         *)
(* Below it the instance that is model-checked, together with the bounded  *)
(* windows of trackers that the streaming runner keeps.                    *)
(***************************************************************************)
EXTENDS Tcp

CONSTANTS
    Inputs,         \* the segments that may be observed
    Times,          \* capture timestamps, None when unavailable
    Policy,         \* the configured overlap policy
    CallBound       \* model bound on the segments ingested

ASSUME TrackerInputs ==
    Times \subseteq Nat \cup {None} /\ Policy \in Policies /\ CallBound \in Nat

VARIABLES t, calls, phase, last, streams

vars == <<t, calls, phase, last, streams>>

Init ==
    /\ t = TrackerNew
    /\ calls = 0
    /\ phase = "open"
    /\ last = [tag |-> "None"]
    /\ streams = <<>>

IngestSegment(g, when) ==
    LET step == Ingest(t, g, when)
    IN  /\ phase = "open"
        /\ calls < CallBound
        /\ calls' = calls + 1
        /\ t' = step.t
        /\ phase' = IF step.out.tag = "Err" THEN "failed" ELSE "open"
        /\ last' = [tag |-> step.out.tag, out |-> step.out, segment |-> g, when |-> when]
        /\ UNCHANGED streams

FinishTracker ==
    /\ phase = "open"
    /\ phase' = "done"
    /\ streams' = TrackerFinish(t, Policy)
    /\ last' = [tag |-> "Finish"]
    /\ UNCHANGED <<t, calls>>

Next ==
    \/ \E g \in Inputs, when \in Times : IngestSegment(g, when)
    \/ FinishTracker

Spec == Init /\ [][Next]_vars

-----------------------------------------------------------------------------
Grew(i) == i \in DOMAIN t.flows /\ t'.flows[i] # t.flows[i]

\* A segment changes a generation only with good reason: one that is not an
\* initial SYN joins a generation only when no other generation of its key could
\* explain it, and what can be reconstructed from a closed generation never
\* changes (a late segment is refused, or is the pure acknowledgement of the
\* last FIN).
JoinJustified ==
    [][\A i \in DOMAIN t.flows : Grew(i) =>
          /\ t.flows[i].closed =>
                \A p \in Policies : FlowStreams(t'.flows[i], p) = FlowStreams(t.flows[i], p)
          /\ ~(last'.segment.syn /\ ~last'.segment.ack) =>
                Candidates(t, last'.segment, last'.when) = {i}]_vars

\* A direction that fails to reconstruct takes nothing away from the other:
\* each stream is what its own inputs alone give.
DirectionIsolated ==
    phase = "done" =>
        \A i \in DOMAIN t.flows : \A d \in Direction :
            LET f    == t.flows[i]
                mine == [f EXCEPT !.inputs = SelectSeq(@, LAMBDA x : x.dir = d)]
            IN  streams[i][d] = FlowStreams(mine, Policy)[d]

-----------------------------------------------------------------------------
(***************************************************************************)
(* The instance; a behaviour is one of either, as `part` says.             *)
(*                                                                         *)
(* Tracker: a 16-value sequence space with spans of 3, one connection key  *)
(* seen from both directions, a clock that may stand still, jump past the  *)
(* idle timeout, run backwards or be absent.                               *)
(* Windows: two at a time for two TCP keys and one UDP key, of two bytes   *)
(* and three packets against a shared budget of three bytes.               *)
(***************************************************************************)
CONSTANTS
    TcpKeys, UdpKeys, MaxActiveKeys, MaxActivePayload, IdleFrames, PacketBound, Packets,
    WindowPayload, WindowFlows   \* limits of a window's tracker

VARIABLES part, st, frame, reading

Windows == INSTANCE StreamWindows
    WITH phase <- reading, StreamRetained <- WindowPayload, MaxFlows <- WindowFlows

Seg(dir, seq, ackno, flags, data) ==
    [key |-> "k", dir |-> dir, seq |-> seq, ackno |-> ackno, syn |-> "S" \in flags,
     ack |-> "A" \in flags, fin |-> "F" \in flags, rst |-> "R" \in flags, data |-> data]

MCInputs == {
    Seg(0, 14, 0, {"S"}, <<>>),          \* connection request
    Seg(0, 1, 0, {"S"}, <<>>),           \* a second one, nearby
    Seg(1, 6, 0, {"S"}, <<>>),           \* simultaneous open
    Seg(1, 6, 15, {"S", "A"}, <<>>),     \* answer to the first request
    Seg(0, 15, 7, {"A"}, <<0, 1>>),      \* data across the wrap
    Seg(0, 1, 8, {"A", "F"}, <<>>),
    Seg(1, 7, 2, {"A", "F"}, <<>>),
    Seg(0, 2, 8, {"A"}, <<>>),           \* acknowledges the last FIN
    Seg(0, 2, 8, {"A"}, <<1>>),          \* the same with payload
    Seg(1, 8, 2, {"A", "R"}, <<>>),
    Seg(1, 12, 2, {"A"}, <<1>>)          \* beyond the span of 7 and 8
    }

MCTimes == {None, 1, 4}

Segment(key, seq, flags, data) ==
    [key |-> key, dir |-> 0, seq |-> seq, ackno |-> 0, syn |-> flags = "S", ack |-> FALSE,
     fin |-> FALSE, rst |-> flags = "R", data |-> data]
T(key, refs, time, segment) ==
    [kind |-> "transport", key |-> key, refs |-> refs, time |-> time, segment |-> segment]

MCPackets == {
    [kind |-> "other"],
    T("a", 1, 1, Segment("a", 1, "S", <<>>)),
    T("a", 1, 1, Segment("a", 9, "S", <<>>)),      \* another generation
    T("a", 1, 4, Segment("a", 2, "", <<1>>)),      \* past the idle timeout of 1
    T("a", 2, None, Segment("a", 2, "", <<1, 1>>)),
    T("a", 1, 1, Segment("a", 2, "R", <<>>)),
    T("a", 1, 1, Segment("a", 2, "", <<1, 1, 1>>)),
    T("b", 1, 1, Segment("b", 3, "", <<0, 0>>)),
    T("u", 1, 1, None)}

TrackersInit ==
    /\ part \in {"tracker", "windows"}
    /\ Init
    /\ Windows!Init

TrackersNext ==
    \/ part = "tracker" /\ Next /\ UNCHANGED <<part, st, frame, reading>>
    \/ part = "windows" /\ Windows!Next /\ UNCHANGED <<part, vars>>

TrackersSpec == TrackersInit /\ [][TrackersNext]_<<part, vars, st, frame, reading>>

\* See StreamWindows: sessions are bracketed by their window, a complete capture
\* leaves nothing open, and the shared budget is exact.
WindowAccounts == Windows!WindowAccounts
=============================================================================
