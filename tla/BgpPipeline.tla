----------------------------- MODULE BgpPipeline -----------------------------
(***************************************************************************)
(* The atomic join of captured BGP messages (product/src/deep/             *)
(* bgp_pipeline.rs): one decoder, one session observer and one table of    *)
(* candidates for one captured session.  A message is decoded on a copy of *)
(* the decoder, the observer and the table prepare what follows from it,   *)
(* and either all three advance or none does.                              *)
(***************************************************************************)
EXTENDS BgpWire, BgpSession, BgpRib

CONSTANTS
    Session,         \* the session key of this pipeline
    MaxRecords,      \* limits.elements, for the cached receipts
    MaxCache         \* the lesser of limits.retained_bytes and limits.work, in receipts
                     \* and carriers

VARIABLES
    wire,            \* the decoder's state
    applied,         \* record -> the message applied for it and its receipt
    boundaries,      \* record -> the caller's boundary and its receipt
    cached,          \* applied_bytes
    tainted,
    receipt          \* the last receipt returned

pipeline == <<wire, observer, rib, applied, boundaries, cached, tainted>>

ASSUME SameTables == Contents = Adverts /\ FamilyOf = Family

IdentityReason == -1         \* session_record_identity_conflict
ContradictionReason == -2    \* captured_open_content_contradiction

NoReceipt ==
    [op |-> "none", rec |-> 0, input |-> <<>>, replayed |-> FALSE, session |-> "None", rib |-> "None",
     effect |-> "None", event |-> NoMap]

PipelineInit ==
    /\ SessionInit
    /\ RibInit
    /\ wire = NewWire
    /\ applied = NoMap
    /\ boundaries = NoMap
    /\ cached = 0
    /\ tainted = FALSE
    /\ receipt = NoReceipt

(***************************************************************************)
(* The events a decoded message stands for.                                *)
(***************************************************************************)
UpdateKind(p) ==
    CASE p.disposition = "session_reset" -> "UpdateReset"
      [] p.disposition # "session_reset" /\ p.opaque > 0 -> "Gap"
      [] p.disposition # "session_reset" /\ p.opaque = 0 /\ p.eor # {} -> "EndOfRib"
      [] OTHER -> "Update"

SessionKind(m, p) ==
    CASE m.type = "Open" -> "CapturedOpen"
      [] m.type = "Notification" -> "NotificationReset"
      [] m.type = "Update" -> UpdateKind(p)
      [] OTHER -> m.type

SessionValue(m, p) ==
    CASE m.type \in {"Open", "RouteRefresh"} -> m.body
      [] m.type = "Update" /\ UpdateKind(p) = "EndOfRib" -> CHOOSE f \in p.eor : TRUE
      [] OTHER -> 0

SessionEvent(m, p) ==
    [rec |-> m.rec, gen |-> wire.gen, dir |-> m.dir, kind |-> SessionKind(m, p),
     val |-> SessionValue(m, p)]

\* The decoder must have advanced exactly when the event is a reset.
GenerationsMatch(e, d) ==
    d.wire.gen = IF e.kind \in ProtocolResets THEN e.gen + 1 ELSE e.gen

RibScope(g, dir, peer) ==
    [session |-> Session, gen |-> g, dir |-> dir,
     peer |-> IF dir = NoSide THEN NoPeer ELSE peer]

TableEvent(scope, rec, kind, val, actions) ==
    [scope |-> scope, rec |-> rec, kind |-> kind, val |-> val, actions |-> actions]

TableGap(rec, g, val) == TableEvent(RibScope(g, NoSide, NoPeer), rec, "Gap", val, <<>>)

\* The identity of the attributes includes how the layout made them read.
TableAction(m, p, layout, r) ==
    IF r.op = "Announce" /\ p.complete /\ FamilyOf[r.prefix] \in UnicastFamilies
    THEN [op |-> "Announce", prefix |-> r.prefix, path |-> "absent",
          attrs |-> <<m.body.attrs, layout.width>>]
    ELSE [op |-> IF r.op = "Announce" THEN "Reject" ELSE "Withdraw",
          prefix |-> r.prefix, path |-> "absent", attrs |-> <<>>]

TableActions(m, p, layout) ==
    [i \in DOMAIN p.records |-> TableAction(m, p, layout, p.records[i])]

\* At most one event for the table.
DecodedRibEvent(m, e, p) ==
    CASE e.kind \in ProtocolResets ->
            <<TableEvent(RibScope(e.gen + 1, NoSide, NoPeer), m.rec, "Reset", e.gen, <<>>)>>
      [] e.kind \in {"EndOfRib", "Gap"} ->
            <<TableEvent(RibScope(e.gen, m.dir, m.peer), m.rec, e.kind, e.val, <<>>)>>
      [] e.kind = "Update" /\ p.records # <<>> ->
            <<TableEvent(RibScope(e.gen, m.dir, m.peer), m.rec, "Update", 0,
                         TableActions(m, p, LayoutEvidence(wire, Scoped(m))))>>
      [] OTHER -> <<>>

HasRibGeneration(r, g) == \E i \in DOMAIN r.events : r.events[i].scope.gen = g

\* Mutant of ChosenRibEvent: the table is not told of a session conflict.
ChosenWithoutConflict(m, e, p, status) ==
    IF status = "IdentityConflict" THEN <<>>
    ELSE IF status = "Applied" /\ Contradicts(observer, e)
    THEN IF HasRibGeneration(rib, e.gen)
         THEN <<TableGap(m.rec, e.gen, ContradictionReason)>> ELSE <<>>
    ELSE SelectSeq(DecodedRibEvent(m, e, p),
                   LAMBDA x : x.kind = "Reset" => HasRibGeneration(rib, e.gen))

ChosenRibEvent(m, e, p, status) ==
    IF status = "IdentityConflict" THEN <<TableGap(m.rec, e.gen, IdentityReason)>>
    ELSE IF status = "Applied" /\ Contradicts(observer, e)
    THEN IF HasRibGeneration(rib, e.gen)
         THEN <<TableGap(m.rec, e.gen, ContradictionReason)>> ELSE <<>>
    ELSE SelectSeq(DecodedRibEvent(m, e, p),
                   LAMBDA x : x.kind = "Reset" => HasRibGeneration(rib, e.gen))

(***************************************************************************)
(* Receipts and their cache.                                               *)
(***************************************************************************)
NoTablePlan == [ok |-> TRUE, status |-> "None", next |-> rib, stage |-> NoMap,
                event |-> NoMap]

TablePlan(events, origin) ==
    IF events = <<>> THEN NoTablePlan ELSE RibPrepare(rib, events[1], origin)

\* A reset that the table has nothing for is reported by the pipeline itself.
BareReset(e) ==
    TableEvent(RibScope(e.gen + 1, NoSide, NoPeer), e.rec, "Reset", e.gen, <<>>)

\* Mutant of MessageReceipt: only resets are announced.
ResetReceipt(e, status, rp) ==
    IF status = "Applied" /\ e.kind \in ProtocolResets
    THEN [NoReceipt EXCEPT !.op = "message", !.session = status, !.rib = rp.status,
                           !.effect = "SessionGeneration", !.event = BareReset(e)]
    ELSE [NoReceipt EXCEPT !.op = "message", !.session = status, !.rib = rp.status]

MessageReceipt(e, status, rp) ==
    IF ContinuityEffect(rp) # "None"
    THEN [NoReceipt EXCEPT !.op = "message", !.session = status, !.rib = rp.status,
                           !.effect = ContinuityEffect(rp), !.event = rp.event]
    ELSE IF status = "Applied" /\ e.kind \in ProtocolResets
    THEN [NoReceipt EXCEPT !.op = "message", !.session = status, !.rib = rp.status,
                           !.effect = "SessionGeneration", !.event = BareReset(e)]
    ELSE [NoReceipt EXCEPT !.op = "message", !.session = status, !.rib = rp.status]

RecordCharge == 1
CarrierCharge(rc) == IF rc.effect = "None" THEN 0 ELSE 1

AdmitContinuity(rc) == rc.effect # "None" => 4 * CarrierCharge(rc) + cached <= MaxCache

Known(rec) == rec \in DOMAIN applied \cup DOMAIN boundaries
CacheFull == Cardinality(DOMAIN applied) + Cardinality(DOMAIN boundaries) >= MaxRecords

AdmitRecord(rec, charge) == Known(rec) \/ (~CacheFull /\ cached + charge <= MaxCache)

Grown(rec, charge) == IF Known(rec) THEN cached ELSE cached + charge

Remember(cache, rec, entry) ==
    IF Known(rec) THEN cache ELSE Override(cache, [r \in {rec} |-> entry])

Conflicted(status, ribStatus) == "IdentityConflict" \in {status, ribStatus}

(***************************************************************************)
(* apply_message.                                                          *)
(***************************************************************************)
Input(m) == <<m.type, m.body>>

Repeats(m) == m.rec \in DOMAIN applied /\ applied[m.rec].message = m

ReplayMessage(m) ==
    /\ Repeats(m)
    /\ AdmitContinuity(applied[m.rec].receipt)
    /\ receipt' = [applied[m.rec].receipt EXCEPT
                    !.replayed = TRUE, !.session = "IdenticalReplay",
                    !.rib = IF @ = "None" THEN @ ELSE "IdenticalReplay"]
    /\ UNCHANGED pipeline

CommitMessage(m, d, sp, rp, rc) ==
    /\ AdmitContinuity(rc)
    /\ AdmitRecord(m.rec, RecordCharge + CarrierCharge(rc))
    /\ observer' = sp.next
    /\ rib' = rp.next
    /\ wire' = IF sp.status = "IdentityConflict" THEN wire ELSE d.wire
    /\ tainted' = Conflicted(sp.status, rp.status)
    /\ applied' = Remember(applied, m.rec, [message |-> m, receipt |-> rc])
    /\ cached' = Grown(m.rec, RecordCharge + CarrierCharge(rc))
    /\ receipt' = [rc EXCEPT !.rec = m.rec, !.input = Input(m)]
    /\ UNCHANGED boundaries

PlannedMessage(m, d, e, sp, rp) ==
    /\ rp.ok
    /\ CommitMessage(m, d, sp, rp, MessageReceipt(e, sp.status, rp))

PreparedMessage(m, d, e, p, sp) ==
    /\ sp.ok
    /\ PlannedMessage(m, d, e, sp,
            TablePlan(ChosenRibEvent(m, e, p, sp.status), <<Metadata(m), m.body>>))

EventMessage(m, d, e, p) ==
    /\ GenerationsMatch(e, d)
    /\ PreparedMessage(m, d, e, p, Prepare(observer, e))

DecodedMessage(m, d, p) == d.ok /\ EventMessage(m, d, SessionEvent(m, p), p)

ParsedBody(m) == IF m.type = "Update" THEN Parsed(wire, m) ELSE NoMap

ApplyMessage(m) ==
    /\ ~Repeats(m)
    /\ ~tainted
    /\ DecodedMessage(m, Decode(wire, m), ParsedBody(m))

(***************************************************************************)
(* observe_gap and reset_generation.                                       *)
(***************************************************************************)
BoundaryRepeats(rec, kind, reason) ==
    /\ rec \in DOMAIN boundaries
    /\ boundaries[rec].kind = kind
    /\ boundaries[rec].reason = reason

ReplayBoundary(rec, kind, reason) ==
    /\ BoundaryRepeats(rec, kind, reason)
    /\ receipt' = [boundaries[rec].receipt EXCEPT
                    !.replayed = TRUE, !.session = "IdenticalReplay",
                    !.rib = IF @ = "None" THEN @ ELSE "IdenticalReplay"]
    /\ UNCHANGED pipeline

Carriers == FoldLeft(LAMBDA n, r : n + CarrierCharge(applied[r].receipt), 0,
                     SetToSeq(DOMAIN applied))

BoundaryReceipt(status, ribStatus) ==
    [NoReceipt EXCEPT !.op = "boundary", !.session = status, !.rib = ribStatus]

CommitBoundary(rec, kind, reason, w, sp, rp) ==
    /\ sp.ok
    /\ rp.ok
    /\ AdmitRecord(rec, RecordCharge)
    /\ wire' = w
    /\ observer' = sp.next
    /\ rib' = rp.next
    /\ tainted' = Conflicted(sp.status, rp.status)
    /\ boundaries' = Remember(boundaries, rec,
            [kind |-> kind, reason |-> reason,
             receipt |-> BoundaryReceipt(sp.status, rp.status)])
    /\ cached' = Grown(rec, RecordCharge)
    /\ receipt' = BoundaryReceipt(sp.status, rp.status)
    /\ UNCHANGED applied

BoundaryAdmitted(rec, kind, reason) ==
    /\ ~BoundaryRepeats(rec, kind, reason)
    /\ ~tainted
    /\ cached + Carriers <= MaxCache

ObserveGap(rec, reason) ==
    /\ BoundaryAdmitted(rec, "Gap", reason)
    /\ CommitBoundary(rec, "Gap", reason, wire,
            Prepare(observer, [rec |-> rec, gen |-> wire.gen, dir |-> NoDir,
                               kind |-> "Gap", val |-> reason]),
            TablePlan(<<TableGap(rec, wire.gen, reason)>>, NoOrigin))

ResetPlan(rec, status) ==
    TablePlan(
        IF status = "IdentityConflict" THEN <<TableGap(rec, wire.gen, IdentityReason)>>
        ELSE IF HasRibGeneration(rib, wire.gen)
        THEN <<TableEvent(RibScope(wire.gen + 1, NoSide, NoPeer), rec, "Reset",
                          wire.gen, <<>>)>>
        ELSE <<>>, NoOrigin)

CommitReset(rec, reason, sp) ==
    CommitBoundary(rec, "Reset", reason,
        IF sp.status = "IdentityConflict" THEN wire ELSE ResetWire(wire),
        sp, ResetPlan(rec, sp.status))

ResetGeneration(rec, reason) ==
    /\ BoundaryAdmitted(rec, "Reset", reason)
    /\ CommitReset(rec, reason,
            Prepare(observer, [rec |-> rec, gen |-> wire.gen + 1, dir |-> NoDir,
                               kind |-> "Reset", val |-> wire.gen]))

(***************************************************************************)
(* Properties.                                                             *)
(***************************************************************************)
ActiveKeys(r) == {k \in DOMAIN r.entries : r.entries[k].status = "Active"}

\* The three projections are in the same generation: what the decoder counts
\* is what the observer sees and, once it has seen anything, the table.
GenerationsAgree ==
    ~tainted =>
        /\ observer.view.present => observer.view.gen = wire.gen
        /\ rib.gens[Session] \in {NoGen, wire.gen}

\* A conflict leaves no candidate active, whichever of the two reducers
\* noticed it.
ConflictQuarantines == tainted => ActiveKeys(rib) = {}

\* A candidate stays active only while the OPENs of its generation determine
\* the layout in which its attributes were read.
ActiveUnderLayout ==
    \A k \in ActiveKeys(rib) :
        /\ k.scope.gen = wire.gen
        /\ LayoutEvidence(wire, TRUE).width # 0
        /\ Last(rib.entries[k].versions).attrs[2] = LayoutEvidence(wire, TRUE).width

Names(e, k) ==
    e.kind = "Update" /\ \E i \in DOMAIN e.actions : RouteKey(e.scope, e.actions[i]) = k

\* A candidate stops being active by a message that names its route, or by an
\* effect on its scope that the receipt announces (a boundary always does).
EffectExplained ==
    \A k \in ActiveKeys(rib) :
        \/ k \in ActiveKeys(rib')
        \/ Names(Last(rib'.events), k)
        \/ ContinuityAffectsScope(receipt'.effect, receipt'.event, k.scope)
        \/ receipt'.op = "boundary"

\* A record that was applied is never accepted with other content, except into
\* a conflict that taints the pipeline (docs/product/BGP_PIPELINE.md: "A changed
\* immutable record identity is retained as a conflict and permanently taints
\* that pipeline instance").
ChangedRecordTaints ==
    [][/\ receipt'.op = "message" /\ ~receipt'.replayed
       /\ receipt'.rec \in DOMAIN applied
       /\ receipt'.input # Input(applied[receipt'.rec].message)
       => tainted']_<<pipeline, receipt>>
==============================================================================
