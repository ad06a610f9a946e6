-------------------------------- MODULE Tcp ---------------------------------
(***************************************************************************)
(* TCP as src/src/tcp.rs reads it: wrapping sequence numbers, the          *)
(* reconstruction of one direction of a flow, and the generations of a     *)
(* connection.                                                             *)
(***************************************************************************)
EXTENDS Integers, Sequences, SequencesExt, FiniteSets, FiniteSetsExt

(***************************************************************************)
(* Wrapping TCP sequence numbers (sequence_delta). Half stands for 2^31    *)
(* and the space for the 2^32 values of a u32.                             *)
(***************************************************************************)
CONSTANT Half

ASSUME HalfAssumption == Half \in Nat \ {0}

Mod == 2 * Half
Sequence == 0 .. (Mod - 1)

\* u32::wrapping_add of a length and u32::wrapping_sub.
WrapAdd(s, n) == (s + n) % Mod
WrapSub(s, t) == IF s >= t THEN s - t ELSE s - t + Mod

\* sequence_delta fails on the exact half-space difference ...
HasDelta(s, anchor) == WrapSub(s, anchor) # Half

\* ... and otherwise reads the wrapped difference as an i32.
Delta(s, anchor) ==
    LET d == WrapSub(s, anchor) IN IF d < Half THEN d ELSE d - Mod

(***************************************************************************)
(* Directional stream reconstruction (StreamAssembler). An assembler is a  *)
(* record; new, push, end_at and finish are operators on it, used by the   *)
(* assembler of Engine and, replayed over the inputs of a flow, by the     *)
(* tracker below.                                                          *)
(***************************************************************************)
CONSTANTS
    None,           \* an absent Option
    StreamRetained, \* limits.max_retained_payload
    MaxSegments,    \* limits.max_segments_per_flow
    Span            \* limits.max_stream_span

\* Limits::validate keeps the span below a quarter of the sequence space.
ASSUME StreamLimits ==
    /\ {StreamRetained, MaxSegments, Span} \subseteq Nat \ {0}
    /\ 2 * Span < Half
    /\ None \notin Int

Policies == {"RejectConflict", "FirstObserved", "LastObserved"}

AsmNew(syn) ==
    [base |-> IF syn = None THEN None ELSE WrapAdd(syn, 1), anchored |-> syn # None,
     segments |-> <<>>, min |-> 0, max |-> 0, fin |-> None, retained |-> 0]

BaseOr(asm, s) == IF asm.base = None THEN s ELSE asm.base

Room(asm, data) ==
    asm.retained + Len(data) <= StreamRetained /\ Len(asm.segments) < MaxSegments

InWindow(asm, start, end) ==
    /\ Max({asm.max, end}) - Min({asm.min, start}) <= Span
    /\ ~(asm.anchored /\ start < 0)

\* push succeeds: every check passes before anything is changed.
CanPush(asm, s, data) ==
    LET base  == BaseOr(asm, s)
        start == Delta(s, base)
    IN  \/ data = <<>>
        \/ Room(asm, data) /\ HasDelta(s, base) /\ InWindow(asm, start, start + Len(data))

AsmPush(asm, s, data) ==
    LET base  == BaseOr(asm, s)
        start == Delta(s, base)
    IN  IF data = <<>> THEN asm
        ELSE [asm EXCEPT !.base = base,
                    !.retained = @ + Len(data),
                    !.min = Min({@, start}),
                    !.max = Max({@, start + Len(data)}),
                    !.segments = Append(@, [start |-> start, data |-> data])]

CanEndAt(asm, s) ==
    LET base == BaseOr(asm, s)
        end  == Delta(s, base)
    IN  /\ HasDelta(s, base)
        /\ end >= asm.min
        /\ end - asm.min <= Span
        /\ asm.fin \in {None, end}

AsmEndAt(asm, s) ==
    LET base == BaseOr(asm, s) IN [asm EXCEPT !.base = base, !.fin = Delta(s, base)]

-----------------------------------------------------------------------------
(***************************************************************************)
(* finish: a sweep over the segment boundaries.  Between two neighbouring  *)
(* boundaries the same segments are active; each interval is missing, in   *)
(* conflict, or selected from one active segment.                          *)
(***************************************************************************)
SegEnd(g) == g.start + Len(g.data)
Indices(asm) == DOMAIN asm.segments

\* Mutant of Boundaries: the FIN position is not a boundary.
BoundariesWithoutFin(asm) ==
    {asm.segments[i].start : i \in Indices(asm)}
        \cup {SegEnd(asm.segments[i]) : i \in Indices(asm)}
        \cup (IF asm.anchored THEN {0} ELSE {})

Boundaries(asm) ==
    {asm.segments[i].start : i \in Indices(asm)}
        \cup {SegEnd(asm.segments[i]) : i \in Indices(asm)}
        \cup (IF asm.anchored THEN {0} ELSE {})
        \cup (IF asm.fin # None THEN {asm.fin} ELSE {})

ActiveAt(asm, a) ==
    {i \in Indices(asm) : asm.segments[i].start <= a /\ a < SegEnd(asm.segments[i])}

Slice(g, a, b) == SubSeq(g.data, a - g.start + 1, b - g.start)

Chosen(asm, a, policy) ==
    IF policy = "LastObserved" THEN Max(ActiveAt(asm, a)) ELSE Min(ActiveAt(asm, a))

Selected(asm, a, b, policy) == Slice(asm.segments[Chosen(asm, a, policy)], a, b)

Differs(asm, a, b, policy) ==
    \E i \in ActiveAt(asm, a) :
        Slice(asm.segments[i], a, b) # Selected(asm, a, b, policy)

Duplicates(asm, a, b, policy) ==
    (b - a) * Cardinality({i \in ActiveAt(asm, a) \ {Chosen(asm, a, policy)} :
                  Slice(asm.segments[i], a, b) = Selected(asm, a, b, policy)})

\* A chunk that ends where the interval begins is extended.
AddChunk(chunks, a, data) ==
    IF chunks # <<>> /\ Last(chunks).offset + Len(Last(chunks).data) = a
    THEN [chunks EXCEPT ![Len(chunks)].data = @ \o data]
    ELSE Append(chunks, [offset |-> a, data |-> data])

Interval(asm, policy, res, a, b) ==
    LET clash == Differs(asm, a, b, policy)
        noted == [res EXCEPT !.dup = @ + Duplicates(asm, a, b, policy),
                             !.conflicts = IF clash THEN Append(@, <<a, b>>) ELSE @]
    IN  IF ActiveAt(asm, a) = {}
        THEN [res EXCEPT !.gaps = Append(@, <<a, b>>)]
        ELSE IF clash /\ policy = "RejectConflict"
        THEN [noted EXCEPT !.gaps = Append(@, <<a, b>>)]
        ELSE [noted EXCEPT !.chunks = AddChunk(@, a, Selected(asm, a, b, policy))]

NoResult == [chunks |-> <<>>, gaps |-> <<>>, conflicts |-> <<>>, dup |-> 0]

Sweep(asm, policy) ==
    LET cuts == Boundaries(asm)
        lo   == Min(cuts)
        step(res, x) == IF x \in cuts
                        THEN Interval(asm, policy, res, x, Min({y \in cuts : y > x}))
                        ELSE res
    IN  FoldLeft(step, NoResult, [n \in 1 .. (Max(cuts) - lo) |-> lo + n - 1])

\* finish fails when payload extends beyond the FIN.
CanFinish(asm) == ~(asm.segments # <<>> /\ asm.fin # None /\ asm.max > asm.fin)

AsmFinish(asm, policy) ==
    IF asm.segments = <<>>
    THEN [NoResult EXCEPT !.gaps =
            IF asm.anchored /\ asm.fin # None /\ asm.fin > 0 THEN <<<<0, asm.fin>>>> ELSE <<>>]
    ELSE Sweep(asm, policy)

(***************************************************************************)
(* TCP connection generations (src/src/tcp.rs, TcpTracker).  A tracker is  *)
(* a record [flows, retained]; `keys`, the index from a flow key to its    *)
(* flows, is derived from the flows, which are created for both at once.   *)
(* Packet identifiers and the anomaly labels of a flow are left out.       *)
(***************************************************************************)
CONSTANTS
    MaxFlows,       \* limits.max_flows
    IdleNs          \* the idle timeout

ASSUME TcpLimits == {MaxFlows, IdleNs} \subseteq Nat \ {0}

Direction == {0, 1}
DataSequence(g) == IF g.syn THEN WrapAdd(g.seq, 1) ELSE g.seq

TrackerNew == [flows |-> <<>>, retained |-> 0]

NewFlow(key, midstream) ==
    [key |-> key, midstream |-> midstream, syn |-> [d \in Direction |-> None],
     anchors |-> [d \in Direction |-> None], fin |-> [d \in Direction |-> FALSE],
     fin_next |-> [d \in Direction |-> None], closed |-> FALSE, rst_seen |-> FALSE,
     has_payload |-> FALSE, first |-> None, last |-> None, inputs |-> <<>>]

History(t, key) == {i \in DOMAIN t.flows : t.flows[i].key = key}

(***************************************************************************)
(* Which generations a segment could belong to.  An unknown time never     *)
(* expires a generation.                                                   *)
(***************************************************************************)
Expired(f, when) == when # None /\ f.last # None /\ when - f.last > IdleNs

Near(s, anchor) == HasDelta(s, anchor) /\ Delta(s, anchor) \in -Span .. Span

Plausible(f, g) ==
    IF f.anchors[g.dir] # None THEN Near(DataSequence(g), f.anchors[g.dir])
    ELSE g.ack /\ f.anchors[1 - g.dir] # None => Near(g.ackno, f.anchors[1 - g.dir])

IsFinalAck(f, g) ==
    /\ ~f.rst_seen /\ f.fin[0] /\ f.fin[1]
    /\ ~g.syn /\ ~g.fin /\ ~g.rst /\ g.ack /\ g.data = <<>>
    /\ DataSequence(g) = f.fin_next[g.dir] /\ g.ackno = f.fin_next[1 - g.dir]

Candidates(t, g, when) ==
    {i \in History(t, g.key) : ~Expired(t.flows[i], when) /\ Plausible(t.flows[i], g)}

\* An initial SYN repeats an open one, newest first, ...
SameSyn(t, g, when) ==
    {i \in History(t, g.key) :
        ~t.flows[i].closed /\ ~Expired(t.flows[i], when) /\ t.flows[i].syn[g.dir] = g.seq}

\* ... or opens the newest generation from the other side, ...
Simultaneous(t, g, when) ==
    {i \in History(t, g.key) :
        LET f == t.flows[i] IN
        /\ i = Max(History(t, g.key))
        /\ ~f.closed /\ ~Expired(f, when) /\ ~f.midstream /\ ~f.has_payload
        /\ f.syn[g.dir] = None /\ f.syn[1 - g.dir] # None}

Select(i) == [tag |-> "Select", flow |-> i]
Create(midstream) == [tag |-> "Create", midstream |-> midstream]
Ambiguous(ids) == [tag |-> "Ambiguous", ids |-> ids]
Unassigned == [tag |-> "Unassigned"]

\* ... or starts a new one.
ChooseSyn(t, g, when) ==
    LET same == SameSyn(t, g, when)
        both == Simultaneous(t, g, when)
    IN  IF same # {} THEN Select(Max(same))
        ELSE IF both # {} THEN Select(Max(both))
        ELSE Create(FALSE)

\* Mutant of ChooseOther: the first of several open candidates is taken.
ChooseFirstOpen(t, g, when) ==
    LET open == {i \in Candidates(t, g, when) : ~t.flows[i].closed}
    IN  IF open = {} THEN Create(TRUE) ELSE Select(Min(open))

\* Any other segment needs exactly one explanation.
ChooseOther(t, g, when) ==
    LET all    == Candidates(t, g, when)
        shut   == {i \in all : t.flows[i].closed}
        open   == all \ shut
        final  == {i \in shut : IsFinalAck(t.flows[i], g)}
        gone   == \A i \in History(t, g.key) : Expired(t.flows[i], when)
    IN  IF Cardinality(final) = 1 /\ Cardinality(shut) = 1 /\ open = {}
        THEN Select(Min(final))
        ELSE IF shut # {} /\ open = {}
        THEN IF g.syn THEN Create(TRUE) ELSE Unassigned
        ELSE IF Cardinality(all) > 1 THEN Ambiguous(all)
        ELSE IF open # {} THEN Select(Min(open))
        ELSE IF gone \/ g.syn THEN Create(TRUE)
        ELSE Unassigned

ChooseFlow(t, g, when) ==
    IF g.syn /\ ~g.ack THEN ChooseSyn(t, g, when)
    ELSE IF History(t, g.key) = {} THEN Create(TRUE)
    ELSE ChooseOther(t, g, when)

(***************************************************************************)
(* ingest_with_packets.                                                    *)
(***************************************************************************)
OrElse(x, y) == IF x = None THEN y ELSE x

FinsWith(f, g) == [f.fin EXCEPT ![g.dir] = @ \/ g.fin]

Closes(f, g) == f.closed \/ f.rst_seen \/ g.rst \/ \A d \in Direction : FinsWith(f, g)[d]

Record(f, g, when) ==
    LET next == WrapAdd(DataSequence(g), Len(g.data) + 1)
    IN  [f EXCEPT
            !.syn[g.dir] = IF g.syn THEN g.seq ELSE @,
            !.anchors[g.dir] = OrElse(@, DataSequence(g)),
            !.first = IF when = None THEN @ ELSE Min({OrElse(@, when), when}),
            !.last = IF when = None THEN @ ELSE Max({OrElse(@, when), when}),
            !.has_payload = @ \/ g.data # <<>>,
            !.fin = FinsWith(f, g),
            !.fin_next[g.dir] = IF g.fin THEN OrElse(@, next) ELSE @,
            !.rst_seen = @ \/ g.rst,
            !.closed = Closes(f, g),
            !.inputs = Append(@, [dir |-> g.dir, seq |-> DataSequence(g), data |-> g.data,
                                  fin |-> g.fin, syn |-> g.syn])]

SynConflict(f, g) == g.syn /\ f.syn[g.dir] \notin {None, g.seq}

Assigned(i) == [tag |-> "Assigned", flow |-> i]

Charge(t, g, out) == t.retained + IF out.tag = "Assigned" THEN Len(g.data) ELSE 0

Verdict(t, g, c, i, f) ==
    IF t.retained + Len(g.data) > StreamRetained THEN [tag |-> "Err"]
    ELSE IF c.tag \in {"Ambiguous", "Unassigned"} THEN c
    ELSE IF c.tag = "Create" /\ i > MaxFlows THEN [tag |-> "Err"]
    ELSE IF Len(f.inputs) >= MaxSegments THEN [tag |-> "Err"]
    ELSE IF SynConflict(f, g) THEN Unassigned
    ELSE Assigned(i)

Settled(t, g, i, f, out) ==
    [out |-> out,
     t |-> [flows |-> IF out.tag # "Assigned" THEN t.flows
                      ELSE [j \in DOMAIN t.flows \cup {i} |-> IF j = i THEN f ELSE t.flows[j]],
            retained |-> Charge(t, g, out)]]

\* The flow a choice names, new or existing; an unassigned segment names none.
IngestAs(t, g, when, c) ==
    LET i == IF c.tag = "Create" THEN Len(t.flows) + 1 ELSE c.flow
        f == IF c.tag = "Create" THEN NewFlow(g.key, c.midstream) ELSE t.flows[i]
    IN  Settled(t, g, i, Record(f, g, when), Verdict(t, g, c, i, f))

Ingest(t, g, when) == IngestAs(t, g, when, ChooseFlow(t, g, when))

(***************************************************************************)
(* finish: the inputs of a flow are replayed into one assembler for each   *)
(* direction; the first error in a direction discards that direction only. *)
(***************************************************************************)
Replayed(a, x) ==
    LET pushed == AsmPush(a.asm, x.seq, x.data)
        end    == WrapAdd(x.seq, Len(x.data))
    IN  IF a.invalid THEN a
        ELSE IF ~CanPush(a.asm, x.seq, x.data) THEN [a EXCEPT !.invalid = TRUE]
        ELSE IF ~x.fin THEN [a EXCEPT !.asm = pushed]
        ELSE IF ~CanEndAt(pushed, end) THEN [a EXCEPT !.invalid = TRUE]
        ELSE [a EXCEPT !.asm = AsmEndAt(pushed, end)]

\* Mutant of Replay: an error in either direction stops both.
ReplayTogether(f) ==
    FoldLeft(LAMBDA a, x :
                LET r == Replayed([a[x.dir] EXCEPT !.invalid = a[0].invalid \/ a[1].invalid], x)
                IN  [d \in Direction |-> IF d = x.dir THEN r
                                         ELSE [a[d] EXCEPT !.invalid = r.invalid]],
             [d \in Direction |-> [asm |-> AsmNew(f.syn[d]), invalid |-> FALSE]],
             f.inputs)

Replay(f) ==
    FoldLeft(LAMBDA a, x : [a EXCEPT ![x.dir] = Replayed(@, x)],
             [d \in Direction |-> [asm |-> AsmNew(f.syn[d]), invalid |-> FALSE]],
             f.inputs)

\* The stream of one direction, or None when it could not be reconstructed.
FlowStreams(f, policy) ==
    LET a == Replay(f)
    IN  [d \in Direction |->
            IF a[d].invalid \/ ~CanFinish(a[d].asm) THEN None
            ELSE AsmFinish(a[d].asm, policy)]

TrackerFinish(t, policy) == [i \in DOMAIN t.flows |-> FlowStreams(t.flows[i], policy)]
=============================================================================
