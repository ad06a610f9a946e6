----------------------------- MODULE BgpSession -----------------------------
(***************************************************************************)
(* The offline observer of one BGP session (product/src/deep/              *)
(* bgp_session.rs): an append-only journal of events, an index of the      *)
(* journal by record, and a projection of it, the view.  The operators     *)
(* take and return an observer, so that the captured pipeline can stage an *)
(* event without publishing it.                                            *)
(*                                                                         *)
(* An event is [rec, gen, dir, kind, val]: its immutable record, the       *)
(* generation and the direction it is claimed for, what was observed, and  *)
(* the one datum of that observation: the content of an OPEN, a family, or *)
(* the predecessor that a reset names.                                     *)
(***************************************************************************)
EXTENDS Integers, Sequences, FiniteSets, SequencesExt

CONSTANTS
    Records,     \* record identities
    Adverts,     \* the advertisement in an OPEN of each content
    Imported,    \* whether the partition is imported rather than captured
    MaxEvents,   \* limits.elements
    MaxBytes,    \* limits.retained_bytes and limits.output_bytes
    MaxUnits     \* limits.work

Directions == {0, 1}
NoDir == 2
OpenKinds == {"Open", "CapturedOpen"}
ProtocolResets == {"NotificationReset", "UpdateReset"}

(***************************************************************************)
(* The view of one generation.                                             *)
(***************************************************************************)
Unresolved == [candidate |-> FALSE, codes |-> {}]

EmptySide == [opens |-> <<>>, keepalives |-> <<>>, updates |-> <<>>,
              notifications |-> <<>>, refreshes |-> <<>>, eors |-> <<>>,
              stale |-> <<>>]

EmptyView(g) ==
    [present |-> TRUE, gen |-> g, sides |-> [d \in Directions |-> EmptySide],
     context |-> Unresolved, gaps |-> <<>>, unscoped |-> <<>>,
     unscopedOpen |-> FALSE, resets |-> <<>>, closed |-> FALSE,
     conflict |-> FALSE]

NoView == [EmptyView(0) EXCEPT !.present = FALSE]

\* One OPEN content in a direction; repeated witnesses of it are accepted only
\* when the complete captured message identifies the content.
UniqueOpen(side) ==
    /\ Len(side.opens) = 1
    /\ Len(side.opens[1].witnesses) = 1 \/ side.opens[1].captured
    
Advert(side) == Adverts[side.opens[1].content]

\* Mutant of Context: a continuity loss does not unresolve the candidate.
ContextIgnoringGaps(v) ==
    IF \/ v.conflict \/ v.unscopedOpen \/ v.closed
       \/ \E d \in Directions : ~UniqueOpen(v.sides[d])
       \/ \E d \in Directions : Advert(v.sides[d]).ambiguous
    THEN Unresolved
    ELSE [candidate |-> TRUE,
          codes |-> Advert(v.sides[0]).codes \cap Advert(v.sides[1]).codes]

Context(v) ==
    IF \/ v.conflict \/ v.gaps # <<>> \/ v.unscopedOpen \/ v.closed
       \/ \E d \in Directions : ~UniqueOpen(v.sides[d])
       \/ \E d \in Directions : Advert(v.sides[d]).ambiguous
    THEN Unresolved
    ELSE [candidate |-> TRUE,
          codes |-> Advert(v.sides[0]).codes \cap Advert(v.sides[1]).codes]

(***************************************************************************)
(* The effect of an event on the view.                                     *)
(***************************************************************************)
Step(status, v) == [ok |-> TRUE, status |-> status, view |-> v]
Refused == [ok |-> FALSE, status |-> "Error", view |-> NoView]

\* A further witness of a known OPEN content, or a new alternative.
WithOpen(opens, e) ==
    LET captured == e.kind = "CapturedOpen"
        Same(o) == /\ Adverts[o.content] = Adverts[e.val]
                   /\ o.captured = captured
                   /\ captured => o.content = e.val
    IN  IF \E i \in DOMAIN opens : Same(opens[i])
        THEN LET i == SelectInSeq(opens, Same)
             IN  [opens EXCEPT ![i].witnesses = Append(@, e.rec)]
        ELSE Append(opens, [content |-> e.val, captured |-> captured,
                            witnesses |-> <<e.rec>>])

OtherFamily(stale, f) == SelectSeq(stale, LAMBDA s : s.family # f)
Marker(e) == [family |-> e.val, rec |-> e.rec]

DirectedSide(side, e) ==
    CASE e.kind \in OpenKinds -> [side EXCEPT !.opens = WithOpen(@, e)]
      [] e.kind = "Keepalive" -> [side EXCEPT !.keepalives = Append(@, e.rec)]
      [] e.kind = "Update" -> [side EXCEPT !.updates = Append(@, e.rec)]
      [] e.kind = "Notification" ->
            [side EXCEPT !.notifications = Append(@, e.rec)]
      [] e.kind = "RouteRefresh" ->
            [side EXCEPT !.refreshes = Append(@, Marker(e))]
      [] e.kind = "EndOfRib" ->
            [side EXCEPT !.eors = Append(@, Marker(e)),
                         !.stale = OtherFamily(@, e.val)]
      [] e.kind = "Stale" -> [side EXCEPT !.stale = Append(@, Marker(e))]

Refreshed(v) == [v EXCEPT !.context = Context(v)]

\* An event of the current generation with a direction.
Directed(v, e) ==
    Refreshed([v EXCEPT !.sides[e.dir] = DirectedSide(@, e),
                        !.closed = @ \/ e.kind = "Notification"])

\* An event of the current generation whose direction is unknown.
Undirected(v, e) ==
    [v EXCEPT
        !.unscoped = Append(@, e.rec),
        !.unscopedOpen = @ \/ e.kind \in OpenKinds,
        !.closed = @ \/ e.kind = "Notification",
        !.context = IF e.kind \in OpenKinds \cup {"Notification"}
                    THEN Unresolved ELSE @]

\* The successor generation keeps the history of resets and nothing else.
Successor(v, g, rec) ==
    [EmptyView(g) EXCEPT !.resets = Append(v.resets, rec)]

ResetValid(v, e) ==
    /\ e.dir = NoDir
    /\ e.val = v.gen
    /\ e.gen > v.gen
    /\ Imported => e.gen = v.gen + 1

ApplyCurrent(v, e) ==
    IF v.closed THEN Step("Closed", v)
    ELSE Step("Applied",
              IF e.kind = "Gap"
              THEN [v EXCEPT !.gaps = Append(@, e.rec), !.context = Unresolved]
              ELSE IF e.dir = NoDir THEN Undirected(v, e) ELSE Directed(v, e))

ApplyBoundary(v, e) ==
    IF e.kind = "Reset"
    THEN IF ResetValid(v, e)
         THEN Step("Applied", Successor(v, e.gen, e.rec)) ELSE Refused
    ELSE IF e.gen < v.gen THEN Step("Historical", v)
    ELSE IF e.gen > v.gen THEN Refused
    ELSE Step("Applied", Successor(v, e.gen + 1, e.rec))

ApplyView(v, e, conflict) ==
    IF conflict
    THEN Step("IdentityConflict",
              [v EXCEPT !.conflict = TRUE, !.context = Unresolved])
    ELSE IF v.conflict THEN Step("IdentityConflict", v)
    ELSE IF e.kind \in ProtocolResets \cup {"Reset"} THEN ApplyBoundary(v, e)
    ELSE IF e.gen < v.gen THEN Step("Historical", v)
    ELSE IF e.gen > v.gen THEN Refused
    ELSE ApplyCurrent(v, e)

\* The first event opens the view; a reset needs an observed predecessor.
ApplyInner(v, e, conflict) ==
    IF v.present THEN ApplyView(v, e, conflict)
    ELSE IF e.kind = "Reset" THEN Refused
    ELSE ApplyView(EmptyView(e.gen), e, conflict)

(***************************************************************************)
(* Logical size: one unit for each text, node and index slot retained.     *)
(***************************************************************************)
EventSize(e) ==
    1 + (IF e.kind \in OpenKinds THEN Cardinality(Adverts[e.val].codes) ELSE 0)
TextSize == 1
BaseSize == 1
NewIndexSize == 2

SumOf(s, Size(_)) == FoldLeft(LAMBDA n, x : n + Size(x), 0, s)

OpenSize(o) == 1 + Cardinality(Adverts[o.content].codes) + Len(o.witnesses)

SideSize(side) ==
    SumOf(side.opens, OpenSize)
    + TextSize * (Len(side.keepalives) + Len(side.updates)
                  + Len(side.notifications) + Len(side.refreshes)
                  + Len(side.eors) + Len(side.stale))

ViewSize(v) ==
    IF ~v.present THEN 0
    ELSE TextSize * (Len(v.gaps) + Len(v.unscoped) + Len(v.resets))
         + Cardinality(v.context.codes)
         + SideSize(v.sides[0]) + SideSize(v.sides[1])

IndexSize(slots) ==
    IF slots = <<>> THEN 0 ELSE NewIndexSize + Len(slots) - 1

MeasureSize(events, index, v) ==
    BaseSize + SumOf(events, EventSize)
    + SumOf(SetToSeq(Records), LAMBDA r : IndexSize(index[r]))
    + ViewSize(v)

(***************************************************************************)
(* The observer: prepare an event, then publish what was prepared.         *)
(***************************************************************************)
NewObserver ==
    [events |-> <<>>, index |-> [r \in Records |-> <<>>], bytes |-> BaseSize,
     work |-> 0, view |-> NoView]

Plan(status, next) == [ok |-> TRUE, status |-> status, next |-> next]
NoPlan(o) == [ok |-> FALSE, status |-> "Error", next |-> o]

Admitted(o, status, next) ==
    IF next.bytes > MaxBytes \/ next.work > MaxUnits THEN NoPlan(o) ELSE Plan(status, next)

\* The index only selects the events compared in full.
IdenticalReplay(o, e) ==
    \E i \in DOMAIN o.index[e.rec] : o.events[o.index[e.rec][i]] = e

\* A unique UPDATE or KEEPALIVE of the current, open generation.
Ordinary(o, e) ==
    /\ o.index[e.rec] = <<>>
    /\ e.dir # NoDir
    /\ e.kind \in {"Update", "Keepalive"}
    /\ o.view.present
    /\ o.view.gen = e.gen
    /\ ~o.view.conflict
    /\ ~o.view.closed

\* The append of an ordinary event: one witness, no copy, no new measurement.
AppendGrowth(e) == EventSize(e) + NewIndexSize + TextSize

AppendPlan(o, e) ==
    Admitted(o, "Applied",
        [events |-> Append(o.events, e),
         index |-> [o.index EXCEPT ![e.rec] = <<Len(o.events) + 1>>],
         bytes |-> o.bytes + AppendGrowth(e),
         work |-> o.work + 2 * AppendGrowth(e),
         view |-> [o.view EXCEPT !.sides[e.dir] = DirectedSide(@, e)]])

Indexed(o, e) ==
    [o.index EXCEPT ![e.rec] = Append(@, Len(o.events) + 1)]

\* Every other event is applied to a copy, which is then measured in full.
StagedPlan(o, e, r, bytes) ==
    IF ~r.ok THEN NoPlan(o)
    ELSE Admitted(o, r.status,
            [events |-> Append(o.events, e),
             index |-> Indexed(o, e),
             bytes |-> bytes,
             work |-> o.work + o.bytes + bytes,
             view |-> r.view])

MeasuredPlan(o, e, r) ==
    StagedPlan(o, e, r, MeasureSize(Append(o.events, e), Indexed(o, e), r.view))

Prepare(o, e) ==
    IF IdenticalReplay(o, e) THEN Plan("IdenticalReplay", o)
    ELSE IF Len(o.events) >= MaxEvents THEN NoPlan(o)
    ELSE IF Ordinary(o, e) THEN AppendPlan(o, e)
    ELSE MeasuredPlan(o, e, ApplyInner(o.view, e, o.index[e.rec] # <<>>))

\* Whether a captured OPEN is a second content of its direction in the open,
\* unquarantined current generation.
Contradicts(o, e) ==
    LET Earlier == {i \in DOMAIN o.events :
                        /\ o.events[i].kind = "CapturedOpen"
                        /\ o.events[i].gen = e.gen
                        /\ o.events[i].dir = e.dir}
    IN  /\ e.kind = "CapturedOpen"
        /\ o.view.present
        /\ ~Imported
        /\ e.gen = o.view.gen
        /\ e.dir # NoDir
        /\ ~o.view.conflict
        /\ ~o.view.closed
        /\ Earlier # {}
        /\ \A i \in Earlier : o.events[i].val # e.val

(***************************************************************************)
(* The observer on its own.                                                *)
(***************************************************************************)
VARIABLE observer

SessionInit == observer = NewObserver

Apply(e) ==
    /\ Prepare(observer, e).ok
    /\ observer' = Prepare(observer, e).next

SessionNext(Inputs) == \E e \in Inputs : Apply(e)

(***************************************************************************)
(* Properties.                                                             *)
(***************************************************************************)
Projected(es) ==
    FoldLeft(LAMBDA v, i :
                ApplyInner(v, es[i], \E j \in 1 .. (i - 1) : es[j].rec = es[i].rec).view,
             NoView, [i \in DOMAIN es |-> i])

\* The observer is a function of its journal, however its events were admitted
\* (appended or staged): the view is what applying the journal in order gives,
\* every reuse of a record being found by searching the journal, and the
\* retained size, kept incrementally on the append path, is the size measured
\* from nothing, which the work admitted covers.
ObserverDerived ==
    /\ observer.view = Projected(observer.events)
    /\ observer.bytes = MeasureSize(observer.events, observer.index, observer.view)
    /\ observer.work >= observer.bytes - BaseSize

\* A candidate capability context is what the journal of its generation
\* supports: no record was ever reused, and in that generation there is no
\* gap, no notification, no OPEN of unknown direction, and in each direction
\* one OPEN content, whose capabilities the context intersects.
CandidateSound ==
    observer.view.context.candidate =>
        LET es == observer.events
            mine == {i \in DOMAIN es : es[i].gen = observer.view.gen}
            Opens(d) == {i \in mine : es[i].kind \in OpenKinds /\ es[i].dir = d}
        IN  /\ \A i, j \in DOMAIN es : i # j => es[i].rec # es[j].rec
            /\ \A i \in mine : es[i].kind \notin {"Gap", "Notification"}
            /\ Opens(NoDir) = {}
            /\ \A d \in Directions : \E c \in DOMAIN Adverts :
                  /\ Opens(d) # {}
                  /\ \A i \in Opens(d) : es[i].val = c
                  /\ Cardinality(Opens(d)) > 1 =>
                        \A i \in Opens(d) : es[i].kind = "CapturedOpen"
                  /\ observer.view.context.codes \subseteq Adverts[c].codes
            /\ observer.view.context.codes =
                  {c \in UNION {Adverts[x].codes : x \in DOMAIN Adverts} :
                      \A i \in Opens(0) \cup Opens(1) : c \in Adverts[es[i].val].codes}
=============================================================================
