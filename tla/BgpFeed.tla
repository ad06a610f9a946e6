------------------------------ MODULE BgpFeed -------------------------------
(***************************************************************************)
(* Imported BGP evidence: the reducer of candidates and the replay of a    *)
(* feed through it.                                                        *)
(***************************************************************************)
EXTENDS Integers, Sequences, FiniteSets, SequencesExt

(***************************************************************************)
(* The candidate reducer (product/src/deep/bgp_state.rs) and the import    *)
(* contexts it partitions by (product/src/deep/bgp_import.rs).  An         *)
(* envelope is a normalized record before it is accepted:                  *)
(*   [src, rec, session, gen, dir, type, context, boundary, evidence,      *)
(*    claims, scope, routes]                                               *)
(* with -1 for an absent number and "none" for an absent name.  `session`  *)
(* stands for the source id and the session together.  A route is          *)
(*   [prefix, action, attrs, ambiguous],                                   *)
(* attrs for its attributes and their identity tokens.  Two observations   *)
(* are encoded alike exactly when they are equal.                          *)
(***************************************************************************)
CONSTANTS
    Unsupported,     \* prefixes of families without semantics
    MaxRows,         \* limits.elements, for rows and their routes
    MaxViews         \* limits.active

VARIABLES
    rows,            \* the journal of a CandidateState; its view is derived
    last             \* the last batch, the journal before it and the answer

Context(part, session, gen, dir) ==
    [part |-> part, session |-> session, gen |-> gen, dir |-> dir]
NoContext == Context("none", "none", -1, -1)
NoScope == [gen |-> -1, dir |-> -1]

(***************************************************************************)
(* The normalizers.  A captured message has its own scope and evidence; an *)
(* imported record gets what its context says and nothing else.            *)
(***************************************************************************)
Envelope(src, rec, session, type, routes) ==
    [src |-> src, rec |-> rec, session |-> session, gen |-> 0, dir |-> -1, type |-> type,
     context |-> NoContext, boundary |-> -1, evidence |-> "none", claims |-> FALSE,
     scope |-> NoScope, routes |-> routes]

DecodePcap(rec, session, type, gen, dir, routes) ==
    [Envelope("Captured", rec, session, type, routes) EXCEPT
        !.gen = gen, !.dir = dir, !.evidence = rec]

NormalizeImportedRaw(rec, session, routes) == Envelope("Imported", rec, session, 0, routes)

\* A record without a context: the caller may supply its scope.
NormalizeLegacy(rec, session, scope, routes) ==
    [NormalizeImportedRaw(rec, session, routes) EXCEPT !.gen = -1, !.scope = scope]

ContextValid(c) == c.session # "none" /\ c.gen >= 0 /\ c.dir \in {-1, 0, 1}

NormalizeWithContext(rec, c, routes) ==
    [NormalizeImportedRaw(rec, c.session, routes) EXCEPT
        !.gen = c.gen, !.dir = c.dir, !.context = c]

NormalizeBoundary(rec, c, previous) ==
    [NormalizeWithContext(rec, c, <<>>) EXCEPT !.boundary = previous]

(***************************************************************************)
(* Observation::from_normalized.                                           *)
(***************************************************************************)
\* A boundary is the exact successor and has no direction.
BoundaryValid(v) ==
    v.boundary # -1 => /\ v.context # NoContext
                       /\ v.boundary + 1 = v.context.gen
                       /\ v.context.dir = -1

MessageKind(v) ==
    CASE v.src = "Imported" /\ v.type = 0 -> IF v.boundary = -1 THEN "Routes" ELSE "Reset"
      [] v.src = "Captured" /\ v.type = 2 -> "Routes"
      [] v.src = "Captured" /\ v.type = 1 -> "Open"
      [] v.src = "Captured" /\ v.type = 3 -> "Notification"
      [] v.src = "Captured" /\ v.type = 4 -> "Keepalive"
      [] v.src = "Captured" /\ v.type = 5 -> "RouteRefresh"
      [] OTHER -> "Invalid"

\* Captured records own their scope; imported ones must not borrow wire evidence.
CapturedValid(v) ==
    /\ v.scope = NoScope /\ v.context = NoContext
    /\ v.gen # -1
    /\ v.evidence # "none"

ContextAgrees(v) ==
    /\ v.scope = NoScope
    /\ v.session = v.context.session
    /\ v.gen = v.context.gen
    /\ v.dir = v.context.dir

LegacyValid(v) == v.dir = -1 /\ v.gen \in {-1, 0}

ScopeValid(v) ==
    CASE v.src = "Captured" -> CapturedValid(v)
      [] v.context # NoContext ->
           v.evidence = "none" /\ ContextValid(v.context) /\ ContextAgrees(v)
      [] OTHER -> v.evidence = "none" /\ LegacyValid(v)

AcceptedEnvelope(v) ==
    /\ ~v.claims
    /\ MessageKind(v) # "Invalid"
    /\ BoundaryValid(v)
    /\ ScopeValid(v)
    /\ MessageKind(v) # "Routes" => v.routes = <<>>

\* An old generation of zero was a placeholder: only the caller's scope counts.
LegacyImport(v) == v.src = "Imported" /\ v.context = NoContext

Locator(v) ==
    CASE v.src = "Captured" -> v.evidence [] LegacyImport(v) -> "" [] OTHER -> v.context.part

FromNormalized(v) ==
    [src |-> v.src, rec |-> v.rec, session |-> v.session,
     gen |-> IF LegacyImport(v) THEN v.scope.gen ELSE v.gen,
     dir |-> IF LegacyImport(v) THEN v.scope.dir ELSE v.dir,
     kind |-> MessageKind(v), part |-> v.context.part, prev |-> v.boundary,
     locator |-> Locator(v), routes |-> v.routes]

\* The caller's own boundary is an observation too.
CallerReset(src, rec, session, gen) ==
    [src |-> src, rec |-> rec, session |-> session, gen |-> gen, dir |-> -1,
     kind |-> "Reset", part |-> "none", prev |-> -1, locator |-> "", routes |-> <<>>]

Identity(o) == <<o.src, o.session, o.rec, o.locator>>
SessionKey(o) == <<o.src, o.session, o.part>>
Contextual(o) == o.part # "none"
ScopedRow(o) == o.session # "none" /\ o.gen # -1

(***************************************************************************)
(* reduce.                                                                 *)
(***************************************************************************)
Conflicting(js, i) ==
    \E j \in DOMAIN js : j # i /\ Identity(js[j]) = Identity(js[i])

Tainted(js) ==
    {SessionKey(js[i]) : i \in {j \in DOMAIN js :
        Conflicting(js, j) /\ js[j].session # "none"}}

SessionView(o, i) == [gen |-> o.gen, closed |-> FALSE, conflict |-> FALSE, witness |-> i]

NoView == [sessions |-> [k \in {} |-> 0], routes |-> [k \in {} |-> <<>>], outcomes |-> <<>>,
           full |-> FALSE]

Put(f, k, x) == [y \in DOMAIN f \cup {k} |-> IF y = k THEN x ELSE f[y]]
Drop(f, S) == [y \in DOMAIN f \ S |-> f[y]]

Outcome(status, effects) == [status |-> status, effects |-> effects]
NotedRow(w, status) == [w EXCEPT !.outcomes = Append(@, Outcome(status, <<>>))]

RoutesOf(w, key) == {k \in DOMAIN w.routes : k[1] = key}

\* Mutant of AdvancedView: the routes of the generation before stay.
AdvancedKeeping(w, o, i) ==
    [w EXCEPT !.sessions = Put(@, SessionKey(o), SessionView(o, i))]

AdvancedView(w, o, i) ==
    [w EXCEPT !.sessions = Put(@, SessionKey(o), SessionView(o, i)),
              !.routes = Drop(@, RoutesOf(w, SessionKey(o)))]

\* One announced route of a record joins the alternative it equals.
SameAlternative(a, r) == a.action = r.action /\ a.attrs = r.attrs

Witnessed(alternatives, r, ref) ==
    IF \E a \in DOMAIN alternatives : SameAlternative(alternatives[a], r)
    THEN [a \in DOMAIN alternatives |->
            IF SameAlternative(alternatives[a], r)
            THEN [alternatives[a] EXCEPT !.witnesses = Append(@, ref)] ELSE alternatives[a]]
    ELSE Append(alternatives, [action |-> r.action, attrs |-> r.attrs,
                               ambiguous |-> r.ambiguous, witnesses |-> <<ref>>])

ConflictingRoute(alternatives) ==
    \/ Len(alternatives) # 1
    \/ \E a \in DOMAIN alternatives :
          alternatives[a].ambiguous \/ alternatives[a].action = "Withdraw"

Indices(o, p) == SelectSeq([i \in DOMAIN o.routes |-> i], LAMBDA i : o.routes[i].prefix = p)
Announces(o, p) == \E i \in DOMAIN o.routes :
    o.routes[i].prefix = p /\ o.routes[i].action = "Announce"
Withdraws(o, p) == \E i \in DOMAIN o.routes :
    o.routes[i].prefix = p /\ o.routes[i].action = "Withdraw"

Alternatives(w, o, p, n) ==
    LET key == <<SessionKey(o), o.dir, p>>
        old == IF key \in DOMAIN w.routes THEN w.routes[key] ELSE <<>>
    IN FoldLeft(LAMBDA acc, i : Witnessed(acc, o.routes[i], <<n, i>>), old, Indices(o, p))

AnnouncedEffect(existed, o, p, alternatives) ==
    CASE Withdraws(o, p) -> "MixedActions"
      [] ConflictingRoute(alternatives) -> "ConflictingAnnouncement"
      [] existed \/ Len(Indices(o, p)) > 1 -> "RepeatedAnnouncement"
      [] OTHER -> "Announced"

AnnouncedPrefix(w, o, p, alternatives) ==
    [view |-> [w EXCEPT !.routes = Put(@, <<SessionKey(o), o.dir, p>>, alternatives)],
     effect |-> AnnouncedEffect(<<SessionKey(o), o.dir, p>> \in DOMAIN w.routes, o, p, alternatives)]

WithdrawnPrefix(w, key) ==
    [view |-> [w EXCEPT !.routes = Drop(@, {key})],
     effect |-> IF key \in DOMAIN w.routes THEN "Withdrawn" ELSE "AbsentWithdrawal"]

\* All routes of one prefix in a record act together.
ReducePrefix(w, o, p, n) ==
    CASE p \in Unsupported -> [view |-> w, effect |-> "UnsupportedPrefix"]
      [] p \notin Unsupported /\ ~Announces(o, p) ->
           WithdrawnPrefix(w, <<SessionKey(o), o.dir, p>>)
      [] OTHER -> AnnouncedPrefix(w, o, p, Alternatives(w, o, p, n))

PrefixesOf(o) == SetToSeq({o.routes[i].prefix : i \in DOMAIN o.routes})

ReduceRoutes(w, o, n) ==
    LET all == FoldLeft(LAMBDA acc, p :
                  LET r == ReducePrefix(acc.view, o, p, n)
                  IN [view |-> r.view, effects |-> Append(acc.effects, <<p, r.effect>>)],
                  [view |-> w, effects |-> <<>>], PrefixesOf(o))
    IN [all.view EXCEPT !.outcomes = Append(@, Outcome("Applied", all.effects))]

Known(w, o) == SessionKey(o) \in DOMAIN w.sessions
Generation(w, o) == w.sessions[SessionKey(o)].gen

\* The record reaches the generation that is current once it is counted.
ReduceCurrent(w, o, n) ==
    LET key == SessionKey(o)
    IN CASE w.sessions[key].closed -> NotedRow(w, "ClosedGeneration")
         [] ~w.sessions[key].closed /\ o.kind = "Notification" ->
              NotedRow([w EXCEPT !.sessions[key].closed = TRUE,
                              !.routes = Drop(@, RoutesOf(w, key))], "Notification")
         [] ~w.sessions[key].closed /\ o.kind = "Reset" -> NotedRow(w, "Reset")
         [] ~w.sessions[key].closed /\ o.kind = "Routes" -> ReduceRoutes(w, o, n)
         [] OTHER -> NotedRow(w, "MetadataOnly")

\* Quarantine: no generation of an ambiguous session has a winner.
Quarantined(w, o, n) ==
    NotedRow([w EXCEPT !.sessions =
             Put(@, SessionKey(o),
                 [(IF Known(w, o) THEN @[SessionKey(o)] ELSE SessionView(o, n))
                    EXCEPT !.conflict = TRUE])],
          "IdentityConflict")

ReduceRow(js, tainted, w, n) ==
    LET o == js[n]
    IN CASE ~ScopedRow(o) ->
              NotedRow(w, IF Conflicting(js, n) THEN "IdentityConflict" ELSE "MissingScope")
         [] ScopedRow(o) /\ ~Known(w, o) /\ Cardinality(DOMAIN w.sessions) >= MaxViews ->
              [w EXCEPT !.full = TRUE]
         [] ScopedRow(o) /\ SessionKey(o) \in tainted -> Quarantined(w, o, n)
         [] o.kind = "Routes" /\ o.dir = -1 -> NotedRow(w, "MissingScope")
         [] Known(w, o) /\ o.gen < Generation(w, o) -> NotedRow(w, "LateGeneration")
         [] o.kind = "Reset" /\ Known(w, o) /\ o.gen <= Generation(w, o) ->
              NotedRow(w, "NonAdvancingReset")
         [] OTHER -> ReduceCurrent(IF Known(w, o) /\ o.gen = Generation(w, o) THEN w
                                   ELSE AdvancedView(w, o, n), o, n)

Reduce(js, tainted) ==
    FoldLeft(LAMBDA w, n : IF w.full THEN w ELSE ReduceRow(js, tainted, w, n),
             NoView, [n \in DOMAIN js |-> n])

View(js) == Reduce(js, Tainted(js))

(***************************************************************************)
(* apply_batch.  An answer is [status, rows, receipts].                  *)
(***************************************************************************)
RefusedBatch(code, js) == [status |-> code, rows |-> js, receipts |-> <<>>]

RouteTotal(js) == FoldLeft(LAMBDA n, o : n + Len(o.routes), 0, js)

RetentionFits(js) ==
    Len(js) <= MaxRows /\ RouteTotal(js) <= MaxRows

Position(js, o) == SelectInSeq(js, LAMBDA x : x = o)

ReplayedRow(i) == [row |-> i, outcome |-> Outcome("IdenticalReplay", <<>>)]

\* The contextual generations a batch starts from, and how a record moves them.
StartGenerations(w) ==
    [k \in DOMAIN w.sessions |-> [gen |-> w.sessions[k].gen, conflict |-> w.sessions[k].conflict]]

Transition(gens, o) ==
    LET key == SessionKey(o)
        known == key \in DOMAIN gens
    IN IF o.prev # -1
       THEN known /\ ~gens[key].conflict /\ gens[key].gen = o.prev
       ELSE known => gens[key].gen = o.gen

Moved(gens, o, conflict) ==
    Put(gens, SessionKey(o),
        [gen |-> o.gen, conflict |-> conflict \/ (SessionKey(o) \in DOMAIN gens /\ o.prev = -1
                                                  /\ gens[SessionKey(o)].conflict)])

\* One record of the batch: a replay, a refusal or a row.
StageRecord(st, o) ==
    IF st.status # "Ok" THEN st
    ELSE IF Contains(st.rows, o)
    THEN [st EXCEPT !.slots = Append(@, [replay |-> TRUE, row |-> Position(st.rows, o)])]
    ELSE IF Contextual(o) /\ ~Transition(st.gens, o) THEN [st EXCEPT !.status = "Transition"]
    ELSE IF ~RetentionFits(Append(st.rows, o)) THEN [st EXCEPT !.status = "LimitExceeded"]
    ELSE [st EXCEPT !.rows = Append(@, o),
                    !.gens = IF Contextual(o)
                             THEN Moved(@, o, \E i \in DOMAIN st.rows :
                                                 Identity(st.rows[i]) = Identity(o)) ELSE @,
                    !.slots = Append(@, [replay |-> FALSE, row |-> Len(st.rows) + 1])]

Staged(js, batch) ==
    FoldLeft(StageRecord, [status |-> "Ok", rows |-> js,
                           gens |-> StartGenerations(View(js)), slots |-> <<>>], batch)

\* Receipts are the final classification of the rows.
Receipts(st, w) ==
    [i \in DOMAIN st.slots |->
        IF st.slots[i].replay THEN ReplayedRow(st.slots[i].row)
        ELSE [row |-> st.slots[i].row, outcome |-> w.outcomes[st.slots[i].row]]]

Committed(js, st, w) ==
    IF w.full THEN RefusedBatch("LimitExceeded", js)
    ELSE [status |-> "Ok", rows |-> st.rows, receipts |-> Receipts(st, w)]

IndexedBatch(js, st) ==
    IF st.status # "Ok" THEN RefusedBatch(st.status, js)
    ELSE Committed(js, st, View(st.rows))

\* apply_one, in a batch that mixes contextual records and others.
OneRecord(js, o) == IndexedBatch(js, Staged(js, <<o>>))

JoinedState(js, a, one) ==
    IF one.status # "Ok" THEN RefusedBatch(one.status, js)
    ELSE [one EXCEPT !.receipts = a.receipts \o @]

MixedBatch(js, batch) ==
    FoldLeft(LAMBDA a, o : IF a.status # "Ok" THEN a
                           ELSE JoinedState(js, a, OneRecord(a.rows, o)),
             [status |-> "Ok", rows |-> js, receipts |-> <<>>], batch)

FinalReceipts(a, w) ==
    [a EXCEPT !.receipts = [i \in DOMAIN a.receipts |->
        IF a.receipts[i].outcome.status = "IdenticalReplay" THEN a.receipts[i]
        ELSE [row |-> a.receipts[i].row, outcome |-> w.outcomes[a.receipts[i].row]]]]

MixedReceipts(a) == FinalReceipts(a, View(a.rows))

Uniform(batch) ==
    \/ \A i \in DOMAIN batch : Contextual(batch[i])
    \/ \A i \in DOMAIN batch : ~Contextual(batch[i])

ApplyBatch(js, batch) ==
    IF Len(batch) > MaxRows THEN RefusedBatch("LimitExceeded", js)
    ELSE IF Uniform(batch) THEN IndexedBatch(js, Staged(js, batch))
    ELSE MixedReceipts(MixedBatch(js, batch))

(***************************************************************************)
(* What the reducer is compared with.                                      *)
(***************************************************************************)
Effective(js, key) ==
    {i \in DOMAIN js : ScopedRow(js[i]) /\ SessionKey(js[i]) = key
                         /\ ~(js[i].kind = "Routes" /\ js[i].dir = -1)}

Latest(js, key) ==
    CHOOSE g \in {js[i].gen : i \in Effective(js, key)} :
        \A i \in Effective(js, key) : js[i].gen <= g

Closed(js, key) ==
    \E i \in Effective(js, key) :
        js[i].gen = Latest(js, key) /\ js[i].kind = "Notification"

\* The route entries that stand for a key: announced in the latest generation,
\* with no record after them that only withdraws the prefix.
StandingRows(js, key, d, p) ==
    LET rowsOf == {i \in Effective(js, key) : js[i].gen = Latest(js, key)
                     /\ js[i].kind = "Routes" /\ js[i].dir = d}
    IN {<<i, j>> \in rowsOf \X (1 .. 2) :
            /\ j \in DOMAIN js[i].routes
            /\ js[i].routes[j].prefix = p
            /\ Announces(js[i], p)
            /\ \A k \in rowsOf : k > i /\ Withdraws(js[k], p) => Announces(js[k], p)}

AllWitnesses(alternatives) ==
    UNION {{alternatives[a].witnesses[i] : i \in DOMAIN alternatives[a].witnesses} :
              a \in DOMAIN alternatives}

RouteExact(js, w, key, d, p) ==
    LET expected == IF key \in Tainted(js) \/ Effective(js, key) = {} \/ p \in Unsupported
                    THEN {} ELSE IF Closed(js, key) THEN {} ELSE StandingRows(js, key, d, p)
    IN IF <<key, d, p>> \in DOMAIN w.routes
       THEN expected # {} /\ AllWitnesses(w.routes[<<key, d, p>>]) = expected
       ELSE expected = {}

KeysOf(js) == {SessionKey(js[i]) : i \in {j \in DOMAIN js : ScopedRow(js[j])}}
PrefixSet(js) == UNION {{js[i].routes[j].prefix : j \in DOMAIN js[i].routes} : i \in DOMAIN js}

\* Sequential application, for the comparison with batches.
Kept(js, one) == IF one.status = "Ok" THEN one ELSE RefusedBatch(one.status, js)

Sequential(js, batch) ==
    FoldLeft(LAMBDA a, o : IF a.status # "Ok" THEN a
                           ELSE Kept(js, OneRecord(a.rows, o)),
             [status |-> "Ok", rows |-> js, receipts |-> <<>>], batch)
(***************************************************************************)
(* A CandidateState on its own.                                            *)
(***************************************************************************)
CandidateInit == rows = <<>> /\ last = [before |-> <<>>, batch |-> <<>>, answer |-> RefusedBatch("Ok", <<>>)]

Apply(batch) ==
    \E answer \in {ApplyBatch(rows, batch)} :
        /\ rows' = answer.rows
        /\ last' = [before |-> rows, batch |-> batch, answer |-> answer]

RouteTable(js, w) ==
    \A key \in KeysOf(js), d \in {0, 1}, p \in PrefixSet(js) : RouteExact(js, w, key, d, p)

\* Whatever order records arrived in, a candidate route has exactly the
\* witnesses that stand: announced in the latest generation of their session
\* and not withdrawn since; a session with two records of one identity, or one
\* that a NOTIFICATION closed, has none.
RoutesStand == RouteTable(rows, View(rows))

Directed(batch) == \A i \in DOMAIN batch : batch[i].kind = "Routes" => batch[i].dir # -1

\* A batch does what its records do one after the other, receipts of the last
\* one included.  Contextual records are exempt once identities clash or a
\* record has no direction: the batch follows generations the view never shows.
BatchMatches ==
    LET one == Sequential(last.before, last.batch)
    IN (\A i \in DOMAIN last.batch : ~Contextual(last.batch[i]))
          \/ (Directed(last.before \o last.batch) /\ Tainted(last.before \o last.batch) = {})
       => /\ one.status = last.answer.status
          /\ one.rows = last.answer.rows
          /\ one.receipts # <<>> => Last(one.receipts) = Last(last.answer.receipts)

(***************************************************************************)
(* Replay of an imported feed (product/src/deep/bgp_replay.rs): pages of   *)
(* ordered records, each page bound to the prefix it extends, reduced      *)
(* through one CandidateState.  Pages may overlap, repeat, disagree and    *)
(* come in any order.  A cursor's digest stands for the records it was     *)
(* computed from.  A record is [ord, obs, cov]; the instance is            *)
(*   [records, cursors, gen, completion, quarantined, state, receipt]      *)
(* with records of [original, alternatives] and `state` the journal.       *)
(***************************************************************************)
CONSTANTS
    FeedContext,     \* the declaration: partition, session, first generation
    MaxFeedRecords   \* limits.elements, for the records and for the routes of a feed

VARIABLE
    feed             \* the FeedReplay instance

Cursor(prefix) == [next |-> Len(prefix), prefix |-> prefix]

Meet(a, b) ==
    CASE "Incomplete" \in {a, b} -> "Incomplete"
      [] "Incomplete" \notin {a, b} /\ "Unknown" \in {a, b} -> "Unknown"
      [] OTHER -> "DeclaredComplete"

EffectiveCoverage(f) ==
    IF f.quarantined \/ f.completion = "Partial" THEN "Incomplete"
    ELSE FoldLeft(LAMBDA c, w : Meet(c, w.original.cov), "DeclaredComplete", f.records)

\* The receipt is stored beside what it describes; some of it is null once the
\* feed is quarantined.
FeedReceipt(f) ==
    [next |-> Last(f.cursors), completion |-> f.completion, quarantined |-> f.quarantined,
     gen |-> IF f.quarantined THEN -1 ELSE f.gen, coverage |-> EffectiveCoverage(f),
     records |-> f.records, available |-> ~f.quarantined]

Refresh(f) == [f EXCEPT !.receipt = FeedReceipt(f)]

NewFeed ==
    Refresh([records |-> <<>>, cursors |-> <<Cursor(<<>>)>>, gen |-> FeedContext.gen,
             completion |-> "Partial", quarantined |-> FALSE, state |-> <<>>,
             receipt |-> <<>>])

(***************************************************************************)
(* Records and pages.                                                      *)
(***************************************************************************)
FeedRecord(ord, obs, cov) == [ord |-> ord, obs |-> obs, cov |-> cov]

RecordValid(r) ==
    /\ r.obs.src = "Imported"
    /\ r.obs.kind \in {"Routes", "Reset"}
    /\ r.obs.part = FeedContext.part
    /\ r.obs.session = FeedContext.session

Page(context, previous, records, completion) ==
    [context |-> context, previous |-> previous, records |-> records, completion |-> completion]

PageValid(page) ==
    /\ Len(page.records) <= MaxFeedRecords
    /\ \A i \in DOMAIN page.records :
          RecordValid(page.records[i]) /\ page.records[i].ord = page.previous.next + i - 1

(***************************************************************************)
(* FeedReplay::apply.                                                      *)
(***************************************************************************)
Seen(witness, r) ==
    witness.original = r \/ Contains(witness.alternatives, r)

Start(page) == page.previous.next
End(page) == Start(page) + Len(page.records)
Grows(f, page) == End(page) > Len(f.records)
Old(f, page) == {i \in DOMAIN page.records : Start(page) + i <= Len(f.records)}
RecordWitness(f, page, i) == f.records[Start(page) + i]

Conflicts(f, page) == \E i \in Old(f, page) : ~Seen(RecordWitness(f, page, i), page.records[i])

Predecessor(f, page) ==
    Start(page) + 1 \in DOMAIN f.cursors /\ f.cursors[Start(page) + 1] = page.previous

RecordIds(f) == {f.records[i].original.obs.rec : i \in DOMAIN f.records}
News(f, page) == SubSeq(page.records, Cardinality(Old(f, page)) + 1, Len(page.records))

FreshIdentities(f, page) ==
    LET news == News(f, page)
    IN /\ \A i \in DOMAIN news : news[i].obs.rec \notin RecordIds(f)
       /\ \A i, j \in DOMAIN news : i # j => news[i].obs.rec # news[j].obs.rec

\* Mutant of Extensible: a quarantined feed goes on growing.
ExtensibleAlways(f, page, conflict) == Grows(f, page) => f.completion # "Final"

Extensible(f, page, conflict) ==
    Grows(f, page) => /\ ~f.quarantined
                      /\ f.completion # "Final"
                      /\ ~conflict

Admitted(f, page, conflict) ==
    /\ PageValid(page)
    /\ page.context = FeedContext
    /\ Predecessor(f, page)
    /\ End(page) <= MaxFeedRecords
    /\ Extensible(f, page, conflict)
    /\ page.completion = "Final" => End(page) >= Len(f.records)
    /\ FreshIdentities(f, page)

Finalizes(f, page, conflict) ==
    /\ ~conflict
    /\ ~f.quarantined
    /\ f.completion = "Partial"
    /\ page.completion = "Final"

RoutesIn(rs) == FoldLeft(LAMBDA n, r : n + Len(r.obs.routes), 0, rs)

FeedRetained(f) == FoldLeft(LAMBDA n, w : n + 1 + Len(w.alternatives), 0, f.records)
RoutesRetained(f) ==
    FoldLeft(LAMBDA n, w : n + RoutesIn(<<w.original>> \o w.alternatives), 0, f.records)
Novel(f, page) ==
    {i \in DOMAIN page.records :
        ~(i \in Old(f, page) /\ Seen(RecordWitness(f, page, i), page.records[i]))}

\* An old ordinal keeps its original; a new spelling becomes an alternative.
KeepAlternative(f, r) ==
    IF Seen(f.records[r.ord + 1], r) THEN f
    ELSE [f EXCEPT !.records[r.ord + 1].alternatives = Append(@, r), !.quarantined = TRUE]

GenerationFits(f, r) ==
    IF r.obs.prev # -1 THEN r.obs.prev = f.gen /\ r.obs.gen = r.obs.prev + 1
    ELSE r.obs.gen = f.gen

AppendRecord(f, r, answer) ==
    [f EXCEPT !.records = Append(@, [original |-> r, alternatives |-> <<>>]),
              !.cursors = Append(@, Cursor(Append(Last(@).prefix, r))),
              !.gen = r.obs.gen,
              !.state = answer.rows]

TakeRecord(st, r, answer) ==
    IF answer.status # "Ok" THEN [st EXCEPT !.status = answer.status]
    ELSE [st EXCEPT !.feed = AppendRecord(@, r, answer)]

StageFeed(st, r) ==
    IF st.status # "Ok" THEN st
    ELSE IF r.ord < Len(st.feed.records)
    THEN [st EXCEPT !.feed = KeepAlternative(@, r)]
    ELSE IF ~GenerationFits(st.feed, r) THEN [st EXCEPT !.status = "Generation"]
    ELSE TakeRecord(st, r, OneRecord(st.feed.state, r.obs))

StagedFeed(f, page) == FoldLeft(StageFeed, [status |-> "Ok", feed |-> f], page.records)

Verdict(conflict, finalizes) ==
    IF conflict THEN "Quarantined" ELSE IF finalizes THEN "Finalized" ELSE "Applied"

\* Nothing of a page is kept unless all of it is.
CommittedFeed(f, st, conflict, finalizes) ==
    IF st.status # "Ok" THEN [status |-> st.status, feed |-> f]
    ELSE [status |-> Verdict(conflict, finalizes),
          feed |-> Refresh([st.feed EXCEPT !.completion = IF finalizes THEN "Final" ELSE @])]

Decided(f, page, conflict, finalizes) ==
    IF ~Admitted(f, page, conflict) THEN [status |-> "Refused", feed |-> f]
    ELSE IF ~Grows(f, page) /\ ~conflict /\ ~finalizes
    THEN [status |-> "IdenticalReplay", feed |-> f]
    ELSE IF \/ FeedRetained(f) + Cardinality(Novel(f, page)) > MaxFeedRecords
            \/ RoutesRetained(f) + MapThenSumSet(LAMBDA i : Len(page.records[i].obs.routes),
                                                 Novel(f, page)) > MaxFeedRecords
    THEN [status |-> "LimitExceeded", feed |-> f]
    ELSE CommittedFeed(f, StagedFeed(f, page), conflict, finalizes)

Judged(f, page, conflict) == Decided(f, page, conflict, Finalizes(f, page, conflict))

\* A page whose predecessor is unknown has no records to compare.
ApplyPage(f, page) ==
    Judged(f, page, Predecessor(f, page) /\ Conflicts(f, page))

(***************************************************************************)
(* What a feed hands on.                                                   *)
(***************************************************************************)
\* association_receipt: refused for a quarantined feed, and never above what
\* the feed and the caller declare.
AssociationReceipt(f, declared) ==
    IF f.quarantined THEN [status |-> "Refused", coverage |-> "Incomplete", receipt |-> <<>>]
    ELSE [status |-> "Ok", coverage |-> Meet(EffectiveCoverage(f), declared),
          receipt |-> f.receipt]

FeedInit == feed = NewFeed

ReceivePage(page) == feed' = ApplyPage(feed, page).feed

(***************************************************************************)
(* Properties.                                                             *)
(***************************************************************************)
Originals(f) == [i \in DOMAIN f.records |-> f.records[i].original]

\* However pages overlap and repeat: a cursor commits to exactly the records
\* before it, the candidate state has seen exactly those, under the generation
\* the feed is in, a feed is quarantined exactly when two spellings of a record
\* were seen, and the stored receipt describes the feed as it stands.
FeedCommits ==
    /\ feed.receipt = FeedReceipt(feed)
    /\ Len(feed.cursors) = Len(feed.records) + 1
    /\ \A i \in DOMAIN feed.cursors :
          feed.cursors[i] = Cursor(SubSeq(Originals(feed), 1, i - 1))
    /\ feed.quarantined = (\E i \in DOMAIN feed.records : feed.records[i].alternatives # <<>>)
    /\ feed.state = [i \in DOMAIN feed.records |-> feed.records[i].original.obs]
    /\ Tainted(feed.state) = {}
    /\ LET w == View(feed.state)
       IN \A k \in DOMAIN w.sessions : w.sessions[k].gen = feed.gen

\* Evidence is taken as it was told: candidate routes and batches are what
\* their observations support, and a feed commits to exactly what it has taken,
\* however its pages overlap (apply in bgp_state.rs, FeedReplay::apply in
\* bgp_replay.rs).
EvidenceStands == RoutesStand /\ BatchMatches /\ FeedCommits

\* Whatever is delivered next, records already taken keep their original, a
\* feed that is final or quarantined takes no more of them, and complete
\* coverage is only claimed for a final feed of complete, undisputed records.
FeedCloses ==
    [][/\ IsPrefix(Originals(feed), Originals(feed'))
       /\ feed.quarantined \/ feed.completion = "Final" =>
             Originals(feed') = Originals(feed) /\ feed'.completion = feed.completion
       /\ feed.quarantined => feed'.quarantined
       /\ AssociationReceipt(feed', "DeclaredComplete").coverage = "DeclaredComplete" =>
             /\ feed'.completion = "Final"
             /\ \A i \in DOMAIN feed'.records :
                   feed'.records[i].original.cov = "DeclaredComplete"
                   /\ feed'.records[i].alternatives = <<>>]_feed
=============================================================================
