------------------------------- MODULE BgpRib -------------------------------
(***************************************************************************)
(* The versioned Adj-RIB-In candidates (product/src/deep/bgp_rib.rs): an   *)
(* append-only journal of events and what is derived from it, namely the   *)
(* route entries with their versions, the generation of every session, the *)
(* gaps, markers and rejections, the quarantined sessions, and the private *)
(* indexes.  An event is staged on a copy of the entries it may touch,     *)
(* measured, and only then published.  The operators take and return a     *)
(* whole table, so that the captured pipeline can stage an event too.      *)
(*                                                                         *)
(* An event is [scope, rec, kind, val, actions]: val is the family of an   *)
(* end-of-RIB or stale marker and the predecessor of a reset; only an      *)
(* update has actions.                                                     *)
(***************************************************************************)
EXTENDS Integers, Sequences, FiniteSets, SequencesExt

CONSTANTS
    RibSessions,     \* session keys (source partition and session)
    Family,          \* the family of each prefix
    Supported,       \* the prefixes of a supported family
    RibImported,     \* whether the partitions are imported
    MaxElements,     \* limits.elements: actions, versions and origins
    MaxActive,       \* limits.active: route entries
    MaxRetained,     \* limits.retained_bytes and limits.output_bytes
    MaxWork          \* limits.work

NoGen == -1
NoSide == 2          \* an unknown direction
NoPeer == "none"
NoOrigin == "none"
UnknownPath == "unknown"
RouteScoped == {"Update", "EndOfRib", "Stale"}

(***************************************************************************)
(* Scopes and keys.                                                        *)
(***************************************************************************)
BaseScope(s) == [session |-> s.session, gen |-> s.gen, dir |-> s.dir]
RouteKey(s, a) == [scope |-> s, prefix |-> a.prefix, path |-> a.path]
SameFamilyScope(k, s, f) == k.scope = s /\ Family[k.prefix] = f

(***************************************************************************)
(* Logical charges in units of eight bytes, every text having four bytes.  *)
(***************************************************************************)
Node == 32
Container == 8
Slot == 4
Text == Slot + 3

ChargePeer(p) == 1 + IF p = NoPeer THEN 0 ELSE Text
ChargeSource == Node + 2 * Text + 1
ChargeSession == Node + ChargeSource + Text
ChargeScope(s) == Node + ChargeSource + Text + 2 + ChargePeer(s.peer)
ChargeBase == Node + ChargeSource + Text + 2 + ChargePeer(NoPeer)
ChargePrefix == Node + 1 + Text
ChargeActionKey(s) == Node + ChargeScope(s) + 2 + ChargePrefix
ChargeAttributes == Node

ChargeAction(a) ==
    Node + ChargePrefix + 1
    + CASE a.op = "Announce" -> ChargeAttributes + Text
        [] a.op = "Withdraw" -> 0
        [] a.op = "Reject" -> Text

Total(s, Size(_)) == FoldLeft(LAMBDA n, x : n + Size(x), 0, s)

ChargeEvent(e) ==
    Node + ChargeScope(e.scope) + Text
    + CASE e.kind = "Update" ->
              Node + Container
              + Total(e.actions, LAMBDA a : Slot + ChargeAction(a))
        [] e.kind \in {"EndOfRib", "Stale"} -> Node + 2
        [] e.kind \in {"Gap", "Reset"} -> Node + 1 + Text

OccurrenceCharge == Node + 6 + Slot
OriginIndexCharge == Node + 5

ChargeVersion(v) ==
    Node + ChargeAttributes + Text + Container + 1
    + Len(v.witnesses) * (Slot + Text)
    + Container + Len(v.occurrences) * OccurrenceCharge

ChargeStoredEntry(k, en) ==
    3 * Node + 3 * ChargeActionKey(k.scope) + Container + 2 + Text
    + Total(en.versions, LAMBDA v : Slot + ChargeVersion(v))

ChargeBinding(s) == Node + 2 + Slot + ChargeActionKey(s)

ChargeBindings(bs) ==
    IF bs = <<>> THEN 0
    ELSE Node + 1 + Container + Total(bs, LAMBDA b : ChargeBinding(b.key.scope))

IsAnnounce(a) == a.op = "Announce"
Announces(e) == SelectSeq(e.actions, IsAnnounce)

\* What one action may add to the table, charged before anything is copied.
ActionBound(e, a, origin) ==
    (IF IsAnnounce(a)
     THEN Container + ChargeBinding(e.scope)
          + (IF origin # NoOrigin THEN OccurrenceCharge ELSE 0)
     ELSE 0)
    + CASE a.op = "Announce" ->
              4 * Node + 3 * ChargeActionKey(e.scope) + 2 * Container
              + 2 * Slot + 3 + 2 * Text + ChargeAttributes + Text
        [] a.op = "Withdraw" ->
              3 * Node + 3 * ChargeActionKey(e.scope) + Container + 2 + Text
        [] a.op = "Reject" -> Node + ChargeActionKey(e.scope) + 2 * Text

MutationBound(e, origin) ==
    2 * Node + 2 * ChargeSession + 1
    + (IF Announces(e) = <<>> THEN 0
       ELSE Node + 1 + Container
            + (IF origin # NoOrigin THEN OriginIndexCharge ELSE 0))
    + Total(e.actions, LAMBDA a : ActionBound(e, a, origin))
    + (IF e.kind = "EndOfRib" THEN Node + ChargeScope(e.scope) + 1 + Text ELSE 0)
    + 2 * Node + ChargeScope(e.scope) + Text + ChargeSession + 1

(***************************************************************************)
(* The table.  index and peers are the private indexes by record and by    *)
(* base scope; charges caches the charge of every entry.                   *)
(***************************************************************************)
NoMap == [x \in {} |-> x]

NewRib ==
    [events |-> <<>>, entries |-> NoMap, charges |-> NoMap,
     gens |-> [s \in RibSessions |-> NoGen],
     gaps |-> <<>>, eors |-> <<>>, rejections |-> <<>>, tainted |-> {},
     index |-> NoMap, gapIndex |-> {}, peers |-> NoMap,
     bindings |-> NoMap, origins |-> {},
     originElements |-> 0, retained |-> 0, work |-> 0,
     actions |-> 0, versions |-> 0]

Lookup(f, x, default) == IF x \in DOMAIN f THEN f[x] ELSE default
Override(f, g) ==
    [x \in DOMAIN f \cup DOMAIN g |-> IF x \in DOMAIN g THEN g[x] ELSE f[x]]

Label(e) == [session |-> e.scope.session, rec |-> e.rec]
Recorded(r, e) == Lookup(r.index, Label(e), <<>>)

PeerBindingMismatch(r, s) ==
    LET known == Lookup(r.peers, BaseScope(s), {s.peer})
    IN  known # {s.peer}

(***************************************************************************)
(* The stage: a copy of what the event may change.                         *)
(***************************************************************************)
Redisposed(versions, from, to) ==
    [j \in DOMAIN versions |->
        IF versions[j].disposition \in from
        THEN [versions[j] EXCEPT !.disposition = to] ELSE versions[j]]

Dispositions == {"Current", "Replaced", "Withdrawn", "Superseded", "Conflicting"}

\* The entries selected by Hit, each changed by Change.
Changed(st, Hit(_), Change(_)) ==
    [st EXCEPT !.entries =
        [k \in DOMAIN @ |-> IF Hit(k) THEN Change(@[k]) ELSE @[k]]]

Unresolve(en) == [en EXCEPT !.status = "Unresolved"]

QuarantineSession(st, s) ==
    Changed(st, LAMBDA k : k.scope.session = s,
        LAMBDA en : [en EXCEPT !.status = "Unresolved",
                        !.versions = Redisposed(@, Dispositions, "Conflicting")])

QuarantineScope(st, s) ==
    Changed(st, LAMBDA k : BaseScope(k.scope) = BaseScope(s), Unresolve)

WithGap(st, e) ==
    [st EXCEPT !.gaps = Append(@, [scope |-> e.scope, rec |-> e.rec])]

Occurrence(idx, origin, i) ==
    IF origin = NoOrigin THEN <<>>
    ELSE <<[event |-> idx, origin |-> origin, route |-> i]>>

NewVersion(e, i, idx, origin, disposition) ==
    [attrs |-> e.actions[i].attrs, witnesses |-> <<e.rec>>,
     occurrences |-> Occurrence(idx, origin, i), disposition |-> disposition]

FreshEntry(e, status) == [versions |-> <<>>, status |-> status, last |-> e.rec]

\* The entry of an announcement, and the binding of that announcement to the
\* version it created or joined.
Bound(st, k, en, i, origin) ==
    [st EXCEPT
        !.entries = Override(@, [x \in {k} |-> en]),
        !.bindings = Append(@, [key |-> k, version |-> Len(en.versions),
                                route |-> i]),
        !.originElements = @ + 1 + IF origin # NoOrigin THEN 1 ELSE 0]

\* An announcement in a record whose identity is already in dispute.
Conflicting(st, e, i, idx, origin, k) ==
    LET en == Lookup(st.entries, k, FreshEntry(e, "Unresolved"))
    IN  Bound(st, k,
            [en EXCEPT
                !.versions = Append(@, NewVersion(e, i, idx, origin, "Conflicting")),
                !.status = "Unresolved"], i, origin)

\* An announcement joins an equal active version or supersedes the current one.
Versioned(en, e, i, idx, origin) ==
    IF /\ en.status = "Active"
       /\ en.versions # <<>>
       /\ Last(en.versions).attrs = e.actions[i].attrs
    THEN [en.versions EXCEPT ![Len(en.versions)] =
            [@ EXCEPT !.witnesses = Append(@, e.rec),
                      !.occurrences = @ \o Occurrence(idx, origin, i)]]
    ELSE Append(Redisposed(en.versions, {"Current"}, "Replaced"),
                NewVersion(e, i, idx, origin, "Current"))

AnnouncedStatus(a, gap) ==
    IF gap \/ a.path = UnknownPath \/ a.prefix \notin Supported
    THEN "Unresolved" ELSE "Active"

Announced(st, e, i, gap, idx, origin, k) ==
    LET en == Lookup(st.entries, k, FreshEntry(e, "Unresolved"))
    IN  Bound(st, k,
            [versions |-> Versioned(en, e, i, idx, origin),
             status |-> AnnouncedStatus(e.actions[i], gap),
             last |-> e.rec], i, origin)

WithdrawnEntry(st, e, gap, k) ==
    LET en == Lookup(st.entries, k, FreshEntry(e, "Withdrawn"))
    IN  [st EXCEPT !.entries = Override(@, [x \in {k} |->
            [versions |-> Redisposed(en.versions, {"Current"}, "Withdrawn"),
             status |-> IF gap THEN "Unresolved" ELSE "Withdrawn",
             last |-> e.rec]])]

ApplyAction(st, e, i, gap, idx, origin) ==
    CASE e.actions[i].op = "Announce" ->
            Announced(st, e, i, gap, idx, origin, RouteKey(e.scope, e.actions[i]))
      [] e.actions[i].op = "Withdraw" ->
            WithdrawnEntry(st, e, gap, RouteKey(e.scope, e.actions[i]))
      [] e.actions[i].op = "Reject" ->
            [st EXCEPT !.rejections =
                Append(@, [key |-> RouteKey(e.scope, e.actions[i]),
                           rec |-> e.rec])]

\* One accepted origin for a record that bound at least one version.
FinishOrigin(st, idx, origin) ==
    IF st.bindings = <<>> \/ origin = NoOrigin THEN st
    ELSE [st EXCEPT !.origins = @ \cup {<<idx, origin>>},
                    !.originElements = @ + 1]

Staged(status, st) == [ok |-> TRUE, status |-> status, stage |-> st]
Rejected == [ok |-> FALSE, status |-> "Error", stage |-> NoMap]

ConflictingActions(st, e, idx, origin) ==
    FoldLeft(LAMBDA s, i :
                IF IsAnnounce(e.actions[i]) /\ e.scope.dir # NoSide
                THEN Conflicting(s, e, i, idx, origin, RouteKey(e.scope, e.actions[i]))
                ELSE s,
             st, [i \in DOMAIN e.actions |-> i])

IdentityConflict(st, e, idx, origin) ==
    WithGap(FinishOrigin(
        ConflictingActions([QuarantineSession(st, e.scope.session)
                                EXCEPT !.tainted = TRUE], e, idx, origin),
        idx, origin), e)

ResetAdvances(e, current) ==
    /\ e.scope.dir = NoSide
    /\ current = e.val
    /\ e.scope.gen > e.val
    /\ RibImported => e.scope.gen = e.val + 1

Superseded(st, e) ==
    [Changed(st, LAMBDA k : k.scope.session = e.scope.session /\ k.scope.gen = e.val,
        LAMBDA en : [en EXCEPT !.status = "Superseded",
                        !.versions = Redisposed(@, {"Current"}, "Superseded")])
     EXCEPT !.gen = e.scope.gen]

ApplyKind(st, e, gap, idx, origin) ==
    CASE e.kind = "Gap" ->
            Changed(WithGap(st, e),
                LAMBDA k : /\ k.scope.session = e.scope.session
                           /\ k.scope.gen = e.scope.gen, Unresolve)
      [] e.kind = "EndOfRib" ->
            Changed([st EXCEPT !.eors = Append(@, [scope |-> e.scope,
                                        family |-> e.val, rec |-> e.rec])],
                LAMBDA k : SameFamilyScope(k, e.scope, e.val),
                LAMBDA en : IF en.status = "Stale"
                            THEN [en EXCEPT !.status = "StaleAtEor"] ELSE en)
      [] e.kind = "Stale" ->
            Changed(st, LAMBDA k : SameFamilyScope(k, e.scope, e.val),
                LAMBDA en : IF en.status = "Active"
                            THEN [en EXCEPT !.status = "Stale"] ELSE en)
      [] e.kind = "Update" ->
            FinishOrigin(
                FoldLeft(LAMBDA s, i : ApplyAction(s, e, i, gap, idx, origin),
                         st, [i \in DOMAIN e.actions |-> i]),
                idx, origin)

ApplyCurrentGeneration(st, e, gap, mismatch, idx, origin) ==
    IF e.scope.dir = NoSide /\ e.kind # "Gap" THEN Staged("MissingScope", st)
    ELSE IF e.kind \in RouteScoped /\ mismatch
    THEN Staged("MissingScope", WithGap(QuarantineScope(st, e.scope), e))
    ELSE Staged("Applied", ApplyKind(st, e, gap, idx, origin))

RibApplyInner(st, e, conflict, gap, mismatch, idx, origin) ==
    IF st.tainted THEN Staged("IdentityConflict", st)
    ELSE IF conflict
    THEN Staged("IdentityConflict", IdentityConflict(st, e, idx, origin))
    ELSE IF e.kind = "Reset"
    THEN IF ResetAdvances(e, st.gen)
         THEN Staged("Applied", Superseded(st, e)) ELSE Rejected
    ELSE IF st.gen # NoGen /\ e.scope.gen < st.gen THEN Staged("Historical", st)
    ELSE IF st.gen # NoGen /\ e.scope.gen > st.gen THEN Rejected
    ELSE ApplyCurrentGeneration([st EXCEPT !.gen = e.scope.gen],
                                e, gap, mismatch, idx, origin)

(***************************************************************************)
(* Preparing an event: which entries it may touch, what that costs, and    *)
(* the table that would be published.                                      *)
(***************************************************************************)
Wide(r, e, conflict, historical, mismatch) ==
    \/ conflict
    \/ e.kind = "Reset"
    \/ /\ ~historical
       /\ \/ mismatch /\ e.kind \in RouteScoped
          \/ e.kind \in {"Gap", "EndOfRib", "Stale"}

Affected(r, e, conflict, mismatch, k) ==
    IF conflict THEN k.scope.session = e.scope.session
    ELSE IF e.kind = "Reset"
    THEN k.scope.session = e.scope.session /\ k.scope.gen = e.val
    ELSE IF mismatch /\ e.kind \in RouteScoped
    THEN BaseScope(k.scope) = BaseScope(e.scope)
    ELSE CASE e.kind = "Gap" ->
                /\ k.scope.session = e.scope.session
                /\ k.scope.gen = e.scope.gen
           [] e.kind = "EndOfRib" ->
                /\ SameFamilyScope(k, e.scope, e.val)
                /\ r.entries[k].status = "Stale"
           [] e.kind = "Stale" ->
                /\ SameFamilyScope(k, e.scope, e.val)
                /\ r.entries[k].status = "Active"
           [] OTHER -> FALSE

\* Mutant of UpdateKeys: a withdrawn route is not staged.
AnnouncedKeys(e, conflict, historical, mismatch) ==
    IF \/ e.kind # "Update"
       \/ ~conflict /\ (historical \/ e.scope.dir = NoSide \/ mismatch)
    THEN {}
    ELSE {RouteKey(e.scope, e.actions[i]) : i \in
            {j \in DOMAIN e.actions : IsAnnounce(e.actions[j])}}

UpdateKeys(e, conflict, historical, mismatch) ==
    IF \/ e.kind # "Update"
       \/ ~conflict /\ (historical \/ e.scope.dir = NoSide \/ mismatch)
    THEN {}
    ELSE {RouteKey(e.scope, e.actions[i]) : i \in
            {j \in DOMAIN e.actions : \/ IsAnnounce(e.actions[j])
                                      \/ e.actions[j].op = "Withdraw" /\ ~conflict}}

Selected(r, e, tainted, conflict, historical, mismatch) ==
    IF tainted THEN {}
    ELSE UpdateKeys(e, conflict, historical, mismatch)
         \cup {k \in DOMAIN r.entries :
                 /\ Wide(r, e, conflict, historical, mismatch)
                 /\ Affected(r, e, conflict, mismatch, k)}

SumOver(f, S) == FoldLeft(LAMBDA n, x : n + Lookup(f, x, 0), 0, SetToSeq(S))

EventIndexGrowth(r, e) ==
    Slot
    + (IF Recorded(r, e) = <<>>
       THEN Node + ChargeSession + Text + Container ELSE 0)
    + (IF e.kind \notin RouteScoped THEN 0
       ELSE IF BaseScope(e.scope) \notin DOMAIN r.peers
       THEN Node + ChargeBase + Container + Node + ChargePeer(e.scope.peer)
       ELSE IF e.scope.peer \notin r.peers[BaseScope(e.scope)]
       THEN Node + ChargePeer(e.scope.peer)
       ELSE 0)

\* The binding metadata an update will certainly retain.
BindingGrowth(e, tainted, conflict, historical, mismatch, origin) ==
    IF \/ tainted \/ e.scope.dir = NoSide
       \/ ~conflict /\ (historical \/ mismatch)
       \/ Announces(e) = <<>>
    THEN 0
    ELSE Len(Announces(e)) * ChargeBinding(e.scope)
         + Node + 1 + Container
         + (IF origin = NoOrigin THEN 0
            ELSE OriginIndexCharge + Len(Announces(e)) * OccurrenceCharge)

ChargeMetadataDelta(r, st, s) ==
    (IF r.gens[s] = NoGen /\ st.gen # NoGen THEN Node + ChargeSession + 1 ELSE 0)
    + (IF s \notin r.tainted /\ st.tainted THEN Node + ChargeSession ELSE 0)
    + Total(st.gaps, LAMBDA g :
        Node + ChargeScope(g.scope) + Text
        + IF <<g.scope.session, g.scope.gen>> \in r.gapIndex THEN 0
          ELSE Node + ChargeSession + 1)
    + Total(st.eors, LAMBDA m : Node + ChargeScope(m.scope) + 1 + Text)
    + Total(st.rejections, LAMBDA x : Node + ChargeActionKey(x.key.scope) + 2 * Text)

NewStage(r, e, selected) ==
    [entries |-> [k \in selected \cap DOMAIN r.entries |-> r.entries[k]],
     gen |-> r.gens[e.scope.session], tainted |-> e.scope.session \in r.tainted,
     gaps |-> <<>>, eors |-> <<>>, rejections |-> <<>>, bindings |-> <<>>,
     origins |-> {}, originElements |-> 0]

VersionCount(entries) ==
    FoldLeft(LAMBDA n, k : n + Len(entries[k].versions), 0,
             SetToSeq(DOMAIN entries))

StageCharges(st) ==
    [k \in DOMAIN st.entries |-> ChargeStoredEntry(k, st.entries[k])]

\* The whole transaction of a new event: everything published at once.
Commit(r, e, st, retained, work) ==
    [r EXCEPT
        !.events = Append(@, e),
        !.index = Override(@, [x \in {Label(e)} |->
                    Append(Recorded(r, e), Len(r.events) + 1)]),
        !.peers = IF e.kind \notin RouteScoped THEN @
                  ELSE Override(@, [b \in {BaseScope(e.scope)} |->
                        Lookup(@, b, {}) \cup {e.scope.peer}]),
        !.bindings = IF st.bindings = <<>> THEN @
                     ELSE Override(@, [i \in {Len(r.events) + 1} |-> st.bindings]),
        !.origins = @ \cup st.origins,
        !.gapIndex = @ \cup {<<st.gaps[i].scope.session, st.gaps[i].scope.gen>> :
                                i \in DOMAIN st.gaps},
        !.entries = Override(@, st.entries),
        !.charges = Override(@, StageCharges(st)),
        !.gens[e.scope.session] = st.gen,
        !.tainted = IF st.tainted THEN @ \cup {e.scope.session} ELSE @,
        !.gaps = @ \o st.gaps,
        !.eors = @ \o st.eors,
        !.rejections = @ \o st.rejections,
        !.originElements = @ + st.originElements,
        !.retained = retained,
        !.work = work,
        !.actions = @ + (IF e.kind = "Update" THEN Len(e.actions) ELSE 1),
        !.versions = @ + VersionCount(st.entries)
                     - VersionCount([k \in DOMAIN st.entries \cap DOMAIN r.entries
                                        |-> r.entries[k]])]

RibPlan(status, next, st, e) ==
    [ok |-> TRUE, status |-> status, next |-> next, stage |-> st, event |-> e]
NoRibPlan(r) ==
    [ok |-> FALSE, status |-> "Error", next |-> r, stage |-> NoMap, event |-> NoMap]

WithinLimits(r) ==
    /\ r.retained <= MaxRetained
    /\ r.actions + r.versions + r.originElements <= MaxElements
    /\ Cardinality(DOMAIN r.entries) <= MaxActive
    /\ r.work <= MaxWork

\* The retained size known before the selected entries are copied.
Floor(r, e, selected) ==
    r.retained - SumOver(r.charges, selected) + ChargeEvent(e)
    + EventIndexGrowth(r, e)

FinishPlan(r, e, s, floor, growth, admission) ==
    IF ~s.ok \/ floor + growth > MaxRetained THEN NoRibPlan(r)
    ELSE LET next == Commit(r, e, s.stage,
                        floor + SumOver(StageCharges(s.stage), DOMAIN s.stage.entries)
                        + ChargeMetadataDelta(r, s.stage, e.scope.session)
                        + ChargeBindings(s.stage.bindings)
                        + Cardinality(s.stage.origins) * OriginIndexCharge,
                        r.work + admission)
         IN  IF WithinLimits(next) THEN RibPlan(s.status, next, s.stage, e)
             ELSE NoRibPlan(r)

CompareCost(r, e, compared) ==
    3 * ChargeEvent(e)
    + Total(compared, LAMBDA i : ChargeEvent(e) + ChargeEvent(r.events[i]))

Admission(r, e, origin, compared, selected, wide) ==
    CompareCost(r, e, compared)
    + 2 * MutationBound(e, origin) + 2 * EventIndexGrowth(r, e)
    + (IF wide
       THEN Total(SetToSeq(DOMAIN r.entries), LAMBDA k : ChargeActionKey(k.scope))
       ELSE 0)
    + 2 * SumOver(r.charges, selected)

PrepareStage(r, e, origin, conflict, historical, mismatch, tainted, selected) ==
    FinishPlan(r, e,
        RibApplyInner(NewStage(r, e, selected), e, conflict,
            <<e.scope.session, e.scope.gen>> \in r.gapIndex, mismatch,
            Len(r.events) + 1, origin),
        Floor(r, e, selected),
        BindingGrowth(e, tainted, conflict, historical, mismatch, origin),
        Admission(r, e, origin, Recorded(r, e), selected,
            ~tainted /\ Wide(r, e, conflict, historical, mismatch)))

Selecting(r, e, origin, conflict, historical, mismatch, tainted) ==
    PrepareStage(r, e, origin, conflict, historical, mismatch, tainted,
                 Selected(r, e, tainted, conflict, historical, mismatch))

\* A reset must name the current generation; nothing else may change it.
ValidGeneration(e, current) ==
    IF e.kind = "Reset" THEN ResetAdvances(e, current)
    ELSE current = NoGen \/ e.scope.gen <= current

PrepareNew(r, e, origin) ==
    IF /\ e.scope.session \notin r.tainted
       /\ Recorded(r, e) = <<>>
       /\ ~ValidGeneration(e, r.gens[e.scope.session])
    THEN NoRibPlan(r)
    ELSE Selecting(r, e, origin, Recorded(r, e) # <<>>,
                   e.scope.gen < r.gens[e.scope.session],
                   PeerBindingMismatch(r, e.scope), e.scope.session \in r.tainted)

\* A replay with a further origin: one more occurrence in every bound version.
Occurring(entries, bs, idx, origin) ==
    FoldLeft(LAMBDA es, b :
                [es EXCEPT ![b.key].versions[b.version].occurrences =
                    @ \o Occurrence(idx, origin, b.route)],
             entries, bs)

ReplayCommit(r, idx, origin, bs, entries, work) ==
    LET charges == [k \in DOMAIN entries |-> ChargeStoredEntry(k, entries[k])]
    IN  [r EXCEPT
            !.entries = Override(@, entries),
            !.charges = Override(@, charges),
            !.origins = @ \cup {<<idx, origin>>},
            !.originElements = @ + Len(bs) + 1,
            !.retained = @ - SumOver(r.charges, DOMAIN entries)
                         + SumOver(charges, DOMAIN entries) + OriginIndexCharge,
            !.work = @ + work]

BoundKeys(bs) == {bs[i].key : i \in DOMAIN bs}

ReplayAdmission(r, e, compared, bs) ==
    CompareCost(r, e, compared)
    + 2 * OriginIndexCharge + 2 * Len(bs) * OccurrenceCharge
    + Total(bs, LAMBDA b : ChargeBinding(b.key.scope))
    + 2 * SumOver(r.charges, BoundKeys(bs))

ReplayPlan(r, next) ==
    IF WithinLimits(next)
    THEN RibPlan("IdenticalReplay", next, NoMap, NoMap) ELSE NoRibPlan(r)

PrepareOriginReplay(r, e, idx, origin, compared) ==
    IF CompareCost(r, e, compared) > MaxWork THEN NoRibPlan(r)
    ELSE IF \/ origin = NoOrigin
            \/ <<idx, origin>> \in r.origins
            \/ idx \notin DOMAIN r.bindings
    THEN RibPlan("IdenticalReplay", r, NoMap, NoMap)
    ELSE ReplayPlan(r, ReplayCommit(r, idx, origin, r.bindings[idx],
            Occurring([k \in BoundKeys(r.bindings[idx]) |-> r.entries[k]],
                      r.bindings[idx], idx, origin),
            ReplayAdmission(r, e, compared, r.bindings[idx])))

\* The positions in the record index that are compared with the event, the
\* last one being the first that equals it.
Compared(r, e) ==
    LET equal == SelectInSeq(Recorded(r, e), LAMBDA i : r.events[i] = e)
    IN  SubSeq(Recorded(r, e), 1, equal)

RibPrepare(r, e, origin) ==
    IF Compared(r, e) = <<>> THEN PrepareNew(r, e, origin)
    ELSE PrepareOriginReplay(r, e, Last(Compared(r, e)), origin, Compared(r, e))

(***************************************************************************)
(* The continuity mutation that a prepared event really staged.            *)
(***************************************************************************)
ContinuityEffect(p) ==
    CASE p.status = "IdentityConflict" /\ p.stage.gaps # <<>> ->
            "SessionAllGenerations"
      [] p.status = "MissingScope" /\ p.stage.gaps # <<>> ->
            "BaseDirectionalGeneration"
      [] p.status = "Applied" /\ p.event.kind = "Reset" -> "SessionGeneration"
      [] p.status = "Applied" /\ p.event.kind = "Gap" -> "SessionGeneration"
      [] OTHER -> "None"

\* Whether a route scope lies within the announced effect of an event.
ContinuityAffectsScope(effect, e, s) ==
    CASE effect = "SessionAllGenerations" -> s.session = e.scope.session
      [] effect = "SessionGeneration" ->
            /\ s.session = e.scope.session
            /\ s.gen = IF e.kind = "Reset" THEN e.val ELSE e.scope.gen
      [] effect = "BaseDirectionalGeneration" -> BaseScope(s) = BaseScope(e.scope)
      [] OTHER -> FALSE

(***************************************************************************)
(* The table on its own.                                                   *)
(***************************************************************************)
VARIABLE rib

RibInit == rib = NewRib

RibApply(e, origin) ==
    /\ RibPrepare(rib, e, origin).ok
    /\ rib' = RibPrepare(rib, e, origin).next

RibNext(Inputs, Digests) == \E e \in Inputs, o \in Digests : RibApply(e, o)

(***************************************************************************)
(* The same table computed without stage or index: every event is applied  *)
(* to all the entries, and the journal before it is searched.              *)
(***************************************************************************)
Before(es, i, Holds(_)) == \E j \in 1 .. (i - 1) : Holds(es[j])

WholeStage == [entries |-> NoMap, gens |-> [s \in RibSessions |-> NoGen],
               tainted |-> {}, gaps |-> <<>>, eors |-> <<>>,
               rejections |-> <<>>, bindings |-> NoMap]

Absorb(w, st, e, i) ==
    [entries |-> st.entries,
     gens |-> [w.gens EXCEPT ![e.scope.session] = st.gen],
     tainted |-> w.tainted \cup (IF st.tainted THEN {e.scope.session} ELSE {}),
     gaps |-> w.gaps \o st.gaps,
     eors |-> w.eors \o st.eors,
     rejections |-> w.rejections \o st.rejections,
     bindings |-> IF st.bindings = <<>> THEN w.bindings
                  ELSE Override(w.bindings, [x \in {i} |-> st.bindings])]

WholeStep(w, es, i) ==
    Absorb(w,
        RibApplyInner(
            [entries |-> w.entries, gen |-> w.gens[es[i].scope.session],
             tainted |-> es[i].scope.session \in w.tainted,
             gaps |-> <<>>, eors |-> <<>>, rejections |-> <<>>,
             bindings |-> <<>>, origins |-> {}, originElements |-> 0],
            es[i],
            Before(es, i, LAMBDA x : Label(x) = Label(es[i])),
            \E j \in DOMAIN w.gaps :
                /\ w.gaps[j].scope.session = es[i].scope.session
                /\ w.gaps[j].scope.gen = es[i].scope.gen,
            Before(es, i, LAMBDA x :
                /\ x.kind \in RouteScoped
                /\ BaseScope(x.scope) = BaseScope(es[i].scope)
                /\ x.scope.peer # es[i].scope.peer),
            i, NoOrigin).stage,
        es[i], i)

Whole(es) ==
    FoldLeft(LAMBDA w, i : WholeStep(w, es, i), WholeStage, [i \in DOMAIN es |-> i])

\* Occurrences are left out: the journal does not hold the origins.
Plain(entries) ==
    [k \in DOMAIN entries |->
        [entries[k] EXCEPT !.versions =
            [j \in DOMAIN @ |-> [@[j] EXCEPT !.occurrences = <<>>]]]]

SameAsWhole(r, w) ==
    /\ Plain(r.entries) = w.entries
    /\ r.gens = w.gens
    /\ r.tainted = w.tainted
    /\ r.gaps = w.gaps
    /\ r.eors = w.eors
    /\ r.rejections = w.rejections
    /\ r.bindings = w.bindings

\* The charge of everything retained, measured from nothing.
Measured(r) ==
    Total(r.events, ChargeEvent)
    + Total(SetToSeq(DOMAIN r.index), LAMBDA l :
        Node + ChargeSession + Text + Container + Slot * Len(r.index[l]))
    + Total(SetToSeq(DOMAIN r.peers), LAMBDA b :
        Node + ChargeBase + Container
        + Total(SetToSeq(r.peers[b]), LAMBDA p : Node + ChargePeer(p)))
    + Total(SetToSeq(DOMAIN r.entries), LAMBDA k : ChargeStoredEntry(k, r.entries[k]))
    + Cardinality({s \in RibSessions : r.gens[s] # NoGen}) * (Node + ChargeSession + 1)
    + Cardinality(r.tainted) * (Node + ChargeSession)
    + Total(r.gaps, LAMBDA g : Node + ChargeScope(g.scope) + Text)
    + Cardinality(r.gapIndex) * (Node + ChargeSession + 1)
    + Total(r.eors, LAMBDA m : Node + ChargeScope(m.scope) + 1 + Text)
    + Total(r.rejections, LAMBDA x : Node + ChargeActionKey(x.key.scope) + 2 * Text)
    + Total(SetToSeq(DOMAIN r.bindings), LAMBDA i : ChargeBindings(r.bindings[i]))
    + Cardinality(r.origins) * OriginIndexCharge

OccurrencesOf(v, i, route) ==
    {v.occurrences[j].origin : j \in {n \in DOMAIN v.occurrences :
        v.occurrences[n].event = i /\ v.occurrences[n].route = route}}

BindingTrue(i, b) ==
    LET v == rib.entries[b.key].versions[b.version]
    IN  /\ rib.events[i].rec \in ToSet(v.witnesses)
        /\ v.attrs = rib.events[i].actions[b.route].attrs
        /\ OccurrencesOf(v, i, b.route) = {o[2] : o \in {x \in rib.origins : x[1] = i}}

\* The table is a function of its journal: staging only the selected entries and
\* consulting only the indexes gives what the complete journal determines, the
\* incremental charge is the charge of everything retained, which the work
\* admitted so far covers, and a binding names the version that really came from
\* that announcement, with one occurrence for every origin accepted.
TableDerived ==
    /\ SameAsWhole(rib, Whole(rib.events))
    /\ rib.retained = Measured(rib)
    /\ rib.work >= rib.retained
    /\ \A i \in DOMAIN rib.bindings, n \in 1 .. 3 :
          n \in DOMAIN rib.bindings[i] => BindingTrue(i, rib.bindings[i][n])

Naming(k) ==
    {<<i, n>> \in (DOMAIN rib.events) \X (1 .. 3) :
        /\ n \in DOMAIN rib.events[i].actions
        /\ rib.events[i].actions[n].op # "Reject"
        /\ RouteKey(rib.events[i].scope, rib.events[i].actions[n]) = k}

Latest(S) == CHOOSE x \in S : \A y \in S : y[1] < x[1] \/ (y[1] = x[1] /\ y[2] <= x[2])

ActionAt(x) == rib.events[x[1]].actions[x[2]]

SupportedByJournal(k) ==
    LET es == rib.events
        mine == {i \in DOMAIN es : es[i].scope.session = k.scope.session}
        en == rib.entries[k]
    IN  /\ \A i, j \in mine : i # j => es[i].rec # es[j].rec
        /\ rib.gens[k.scope.session] = k.scope.gen
        /\ \A i \in mine : ~(es[i].kind = "Gap" /\ es[i].scope.gen = k.scope.gen)
        /\ \A i \in mine :
              es[i].kind \in RouteScoped /\ BaseScope(es[i].scope) = BaseScope(k.scope)
              => es[i].scope.peer = k.scope.peer
        /\ k.scope.dir # NoSide /\ k.path # UnknownPath /\ k.prefix \in Supported
        /\ Naming(k) # {}
        /\ ActionAt(Latest(Naming(k))).op = "Announce"
        /\ ActionAt(Latest(Naming(k))).attrs = Last(en.versions).attrs
        /\ {j \in DOMAIN en.versions : en.versions[j].disposition = "Current"}
                = {Len(en.versions)}

\* An active candidate is what the journal supports: nothing in its session
\* contradicts a record, its generation is the current one and has no gap, its
\* scope has one peer, its key is fully known, and the last update that names
\* the key announces exactly the attributes of its one current version.
ActiveJustified ==
    \A k \in DOMAIN rib.entries :
        rib.entries[k].status = "Active" => SupportedByJournal(k)
=============================================================================
