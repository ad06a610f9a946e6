------------------------------ MODULE DeepSink ------------------------------
(***************************************************************************)
(* From the events of the stream runner to a sealed journal and its        *)
(* replay: the owner of the captured BGP sessions, the source journal, and *)
(* the BGP side of the depth sink with the run around it.                  *)
(***************************************************************************)
EXTENDS Naturals, Sequences, FiniteSets, SequencesExt

(***************************************************************************)
(* The owner of the captured BGP session pipelines (product/src/deep/      *)
(* bgp_manager.rs). A manager is a function from session to pipeline. Of a *)
(* pipeline, which BgpPipeline models, only what its owners read is kept:  *)
(* the generation, the records and boundaries applied, the current         *)
(* versions of its routes and the count of rejected actions. A message is  *)
(* [session, rec, what, route, bytes]: `what` is how the pipeline decodes  *)
(* it, `bytes` the state of the captured packet it was cut from.           *)
(***************************************************************************)
CONSTANTS
    MaxSessions,     \* limits.active
    MaxLog           \* limits.elements, for the events of one pipeline

NoSessions == [s \in {} |-> 0]
NoRoutes == [p \in {} |-> {}]

NewPipeline == [gen |-> 0, log |-> <<>>, routes |-> NoRoutes, rejections |-> 0]

Entry(kind, id) == [kind |-> kind, id |-> id]
With(f, k, v) == [x \in DOMAIN f \cup {k} |-> IF x = k THEN v ELSE f[x]]
Without(f, k) == [x \in DOMAIN f \ {k} |-> f[x]]

\* The identity of a normalized observation: its content names the session, the
\* record and the generation, but not the life of the session it belongs to.
ObservationSha(p, m) == <<m.session, m.rec, p.gen>>

Logged(p, kind, id) == [p EXCEPT !.log = Append(@, Entry(kind, id))]

\* A reset supersedes every current version and begins a generation.
Superseded(p) ==
    [p EXCEPT !.gen = @ + 1, !.routes = [r \in DOMAIN @ |-> {}]]

DecodedPipeline(p, m) ==
    CASE m.what = "Announce" ->
            [p EXCEPT !.routes = With(@, m.route, {ObservationSha(p, m)})]
      [] m.what = "Unread" -> [p EXCEPT !.rejections = @ + 1]
      [] m.what = "Close" -> Superseded(p)
      [] OTHER -> p

\* What the receipt announces about continuity.
Continuity(m) ==
    CASE m.what = "Close" -> "DecodedReset"
      [] m.what = "Opaque" -> "DecodedGap"
      [] OTHER -> "None"

Answer(status, sessions) == [status |-> status, sessions |-> sessions]

PipelineStatus(p, m) ==
    CASE m.what = "Malformed" -> "Rejected"
      [] m.what # "Malformed" /\ Len(p.log) >= MaxLog -> "LimitExceeded"
      [] OTHER -> "Ok"

PipelineApply(p, m) == Logged(DecodedPipeline(p, m), "Message", m.rec)

PipelineOf(sessions, s) == IF s \in DOMAIN sessions THEN sessions[s] ELSE NewPipeline

NoRoom(sessions, s) == s \notin DOMAIN sessions /\ Cardinality(DOMAIN sessions) >= MaxSessions

ManagerApply(sessions, m) ==
    IF NoRoom(sessions, m.session) THEN Answer("LimitExceeded", sessions)
    ELSE IF PipelineStatus(PipelineOf(sessions, m.session), m) = "Ok"
    THEN Answer("Ok", With(sessions, m.session,
                           PipelineApply(PipelineOf(sessions, m.session), m)))
    ELSE Answer(PipelineStatus(PipelineOf(sessions, m.session), m), sessions)

\* observe_gap and reset_generation open the session they name.  A boundary
\* that is already known changes nothing.
BoundaryPipeline(p, kind, id) ==
    IF kind = "Reset" THEN Logged(Superseded(p), kind, id) ELSE Logged(p, kind, id)

ManagerBoundary(sessions, s, kind, id) ==
    IF NoRoom(sessions, s) THEN Answer("LimitExceeded", sessions)
    ELSE IF Contains(PipelineOf(sessions, s).log, Entry(kind, id))
    THEN Answer("Ok", sessions)
    ELSE IF Len(PipelineOf(sessions, s).log) >= MaxLog
    THEN Answer("LimitExceeded", With(sessions, s, PipelineOf(sessions, s)))
    ELSE Answer("Ok", With(sessions, s, BoundaryPipeline(PipelineOf(sessions, s), kind, id)))

Snapshot(s, p) == [session |-> s, state |-> p]

\* clear_snapshots: in the order of the session ids.
ClearSnapshots(sessions) ==
    LET ids == SetToSortSeq(DOMAIN sessions, <)
    IN [i \in DOMAIN ids |-> Snapshot(ids[i], sessions[ids[i]])]

EndSnapshot(sessions, s) ==
    IF s \in DOMAIN sessions THEN <<Snapshot(s, sessions[s])>> ELSE <<>>

(***************************************************************************)
(* The BGP source journal (product/src/deep/bgp_store.rs): a chain of      *)
(* records that ends in a seal, and its replay in a fresh process.  A      *)
(* digest stands for everything it was computed from: the chain after a    *)
(* record is the sequence of what was written up to it, the header first.  *)
(***************************************************************************)
CONSTANTS
    Header,          \* magic, version, capture namespace and source label
    ForeignHeader,   \* the header of another journal
    MaxElements,     \* limits.elements, for what a replay retains
    MaxAdapter       \* limits.retained_bytes and work, for what it charges

NoMessage == [session |-> 0, rec |-> <<>>, what |-> "None", route |-> "None", bytes |-> 0]

Content(kind, session, rec, message, count) ==
    [kind |-> kind, session |-> session, rec |-> rec, message |-> message, count |-> count]

MessageRecord(m) == Content("Message", m.session, m.rec, m, 0)
BoundaryRecord(kind, s, id) == Content(kind, s, id, NoMessage, 0)
EndRecord(s) == Content("End", s, <<>>, NoMessage, 0)
ClearRecord == Content("Clear", 0, <<>>, NoMessage, 0)
SealRecord(n) == Content("Seal", 0, <<>>, NoMessage, n)

RecordDigest(chain, content) == Append(chain, content)

\* The file that appending `contents` to a new journal leaves.
Framed(header, contents) ==
    [i \in DOMAIN contents |->
        [content |-> contents[i],
         prev |-> <<header>> \o SubSeq(contents, 1, i - 1),
         digest |-> RecordDigest(<<header>> \o SubSeq(contents, 1, i - 1), contents[i])]]

JournalFile(contents) ==
    [header |-> Header, records |-> Framed(Header, contents), torn |-> FALSE]

(***************************************************************************)
(* What may happen to a file before it is replayed.                        *)
(***************************************************************************)
Cut(f, n) == [f EXCEPT !.records = SubSeq(@, 1, n)]
Torn(f, n) == [Cut(f, n) EXCEPT !.torn = TRUE]
Altered(f, i, s) == [f EXCEPT !.records[i].content.session = s]
Dropped(f, i) == [f EXCEPT !.records = RemoveAt(@, i)]
Swapped(f, i) ==
    [f EXCEPT !.records = [@ EXCEPT ![i] = f.records[i + 1], ![i + 1] = f.records[i]]]
Spliced(f, contents, i) ==
    [f EXCEPT !.records[i] = Framed(ForeignHeader, contents)[i]]
Extended(f) == [f EXCEPT !.records = Append(@, Last(@))]
Relabelled(f) == [f EXCEPT !.header = ForeignHeader]

DamagedFiles(f, contents) ==
    {Cut(f, n) : n \in 0 .. Len(contents) - 1}
    \cup {Torn(f, n) : n \in 0 .. Len(contents)}
    \cup {Altered(f, i, 9) : i \in 1 .. Len(contents)}
    \cup {Dropped(f, i) : i \in 1 .. Len(contents)}
    \cup {Swapped(f, i) : i \in 1 .. Len(contents) - 1}
    \cup {Spliced(f, contents, i) : i \in 1 .. Len(contents)}
    \cup (IF contents = <<>> THEN {} ELSE {Extended(f)})
    \cup {Relabelled(f)}

(***************************************************************************)
(* replay.  `st` is the state of the replay: the fresh manager, the life   *)
(* of each session (how often it ended) and what the archive retains.      *)
(***************************************************************************)
ReplayStart(header) ==
    [status |-> "Reading", chain |-> <<header>>, manager |-> NoSessions,
     lives |-> [s \in {} |-> 0], records |-> 0, adapter |-> 0,
     sessions |-> <<>>, observations |-> <<>>, entries |-> <<>>, rejections |-> <<>>,
     events |-> <<>>, rejected |-> 0]

Life(st, s) == IF s \in DOMAIN st.lives THEN st.lives[s] ELSE 0

Stop(st, status) == [st EXCEPT !.status = status]

Charged(st, n) ==
    IF st.adapter + n > MaxAdapter THEN Stop(st, "LimitExceeded")
    ELSE [st EXCEPT !.adapter = @ + n]

Reading(st) == st.status = "Reading"

\* One more element of an archive list, at a charge.
Retain(st, list, item, charge) ==
    IF ~Reading(st) THEN st
    ELSE IF Len(st[list]) >= MaxElements THEN Stop(st, "LimitExceeded")
    ELSE [Charged(st, charge) EXCEPT ![list] = Append(@, item)]

Scope(st, s) ==
    [session |-> s, life |-> Life(st, s),
     gen |-> IF s \in DOMAIN st.manager THEN <<st.manager[s].gen>> ELSE <<>>]

SourceEvent(st, kind, scopes, observation) ==
    [kind |-> kind, index |-> st.records, scopes |-> scopes, observation |-> observation]

\* An event is charged six times over: every view of it is admitted with it.
EventCharge == 6
RetainSourceEvent(st, kind, scopes, observation) ==
    Retain(st, "events", SourceEvent(st, kind, scopes, observation), EventCharge)

\* Mutant of RetainEntries: an entry carries the life that begins next.
RetainEntriesLate(st, s, current) ==
    IF s \notin DOMAIN st.manager THEN st
    ELSE FoldLeft(LAMBDA acc, p :
            Retain(acc, "entries",
                   [session |-> s, route |-> p, life |-> Life(st, s) + 1, current |-> current,
                    observations |-> st.manager[s].routes[p]], 1),
            st, SetToSeq(DOMAIN st.manager[s].routes))

RetainEntries(st, s, current) ==
    IF s \notin DOMAIN st.manager THEN st
    ELSE FoldLeft(LAMBDA acc, p :
            Retain(acc, "entries",
                   [session |-> s, route |-> p, life |-> Life(st, s), current |-> current,
                    observations |-> st.manager[s].routes[p]], 1),
            st, SetToSeq(DOMAIN st.manager[s].routes))

RetainSnapshots(st, snapshots) ==
    FoldLeft(LAMBDA acc, x : Retain(acc, "sessions", x, 1), st, snapshots)

AdvanceLife(st, s) ==
    IF ~Reading(st) THEN st
    ELSE IF s \notin DOMAIN st.lives /\ Cardinality(DOMAIN st.lives) >= MaxElements
    THEN Stop(st, "LimitExceeded")
    ELSE [st EXCEPT !.lives = With(@, s, Life(st, s) + 1)]

(***************************************************************************)
(* MESSAGE.  Everything the archive says about the record is fixed by the  *)
(* state before it is applied.                                             *)
(***************************************************************************)
Observation(st, m) ==
    [session |-> m.session, rec |-> m.rec, life |-> Life(st, m.session), index |-> st.records,
     sha |-> ObservationSha(PipelineOf(st.manager, m.session), m)]

\* retain_rejections: the rejections the reducer added for this message.
RetainRejections(st, m) ==
    IF m.what = "Unread"
    THEN Retain(st, "rejections",
                [rec |-> m.rec, session |-> m.session,
                 observation |-> Len(st.observations) + 1], 1)
    ELSE st

RetainContinuity(st, before, m) ==
    IF Continuity(m) = "None" THEN st
    ELSE RetainSourceEvent(st, Continuity(m), <<Scope(before, m.session)>>,
                           Len(st.observations) + 1)

AcceptedMessage(st, m, answer) ==
    LET admitted == Charged(st, 3)
        rejections == RetainRejections([admitted EXCEPT !.manager = answer.sessions], m)
    IN Retain(RetainContinuity(rejections, st, m), "observations", Observation(st, m), 0)

\* A rejected message leaves a gap in its session, under the record's digest.
RejectedGap(st, m) ==
    ManagerBoundary(st.manager, m.session, "Gap", <<"journal-rejected-message", st.records>>)

RejectedMessage(st, m) ==
    IF ~Reading(st) THEN st
    ELSE IF RejectedGap(st, m).status # "Ok" THEN Stop(st, RejectedGap(st, m).status)
    ELSE [st EXCEPT !.manager = RejectedGap(st, m).sessions, !.rejected = @ + 1]

ReplayMessage(st, m) ==
    LET answer == ManagerApply(st.manager, m)
    IN CASE answer.status = "Ok" -> AcceptedMessage(st, m, answer)
         [] answer.status = "LimitExceeded" -> Stop(st, "LimitExceeded")
         [] OTHER -> RejectedMessage(RetainSourceEvent(st, "RejectedContainer",
                                        <<Scope(st, m.session)>>, 0), m)

\* GAP and RESET.
ReplayBoundary(st, c) ==
    LET retained == RetainSourceEvent(st, c.kind, <<Scope(st, c.session)>>, 0)
        answer == ManagerBoundary(st.manager, c.session, c.kind, c.rec)
    IN CASE ~Reading(retained) -> retained
         [] Reading(retained) /\ answer.status = "LimitExceeded" -> Stop(st, "LimitExceeded")
         [] OTHER -> [retained EXCEPT !.manager = answer.sessions]

\* Mutant of ReplayEnd: the session is dropped before its state is sampled.
ReplayEndEarly(st, s) ==
    LET event == RetainSourceEvent(st, "EndSession", <<Scope(st, s)>>, 0)
    IN AdvanceLife([event EXCEPT !.manager = Without(@, s)], s)

ReplayEnd(st, s) ==
    LET event == RetainSourceEvent(st, "EndSession", <<Scope(st, s)>>, 0)
        sampled == RetainSnapshots(RetainEntries(event, s, FALSE), EndSnapshot(st.manager, s))
    IN AdvanceLife([sampled EXCEPT !.manager = Without(@, s)], s)

SessionIds(st) == SetToSortSeq(DOMAIN st.manager, <)

\* admit_clear_scopes: the scopes are admitted before they are copied.
ClearAdmitted(st) ==
    /\ Cardinality(DOMAIN st.manager) <= MaxElements
    /\ Len(st.events) < MaxElements
    /\ st.adapter + EventCharge <= MaxAdapter

ClearedReplay(st) ==
    LET ids == SessionIds(st)
        event == RetainSourceEvent(st, "Clear", [i \in DOMAIN ids |-> Scope(st, ids[i])], 0)
        ended == FoldLeft(LAMBDA acc, s : AdvanceLife(RetainEntries(acc, s, FALSE), s),
                          event, ids)
    IN [RetainSnapshots(ended, ClearSnapshots(st.manager)) EXCEPT !.manager = NoSessions]

ReplayClear(st) == IF ClearAdmitted(st) THEN ClearedReplay(st) ELSE Stop(st, "LimitExceeded")

ReplaySeal(st, c, last) ==
    Stop(st, IF c.count = st.records /\ last THEN "Sealed" ELSE "LengthMismatch")

Counted(st) == IF Reading(st) THEN [st EXCEPT !.records = @ + 1] ELSE st

ReplayContent(st, c, last) ==
    CASE c.kind = "Message" -> Counted(ReplayMessage(st, c.message))
      [] c.kind \in {"Gap", "Reset"} -> Counted(ReplayBoundary(st, c))
      [] c.kind = "End" -> Counted(ReplayEnd(st, c.session))
      [] c.kind = "Clear" -> Counted(ReplayClear(st))
      [] c.kind = "Seal" -> ReplaySeal(st, c, last)

Verified(st, r) ==
    /\ r.prev = st.chain
    /\ r.digest = RecordDigest(st.chain, r.content)

ReplayRecord(st, r, last) ==
    IF ~Reading(st) THEN st
    ELSE IF ~Verified(st, r) THEN Stop(st, "SourceMismatch")
    ELSE ReplayContent([st EXCEPT !.chain = r.digest], r.content, last)

\* The sessions that were never ended are the current ones.
ReplayFinish(st) ==
    LET entries == FoldLeft(LAMBDA acc, s : RetainEntries(acc, s, TRUE),
                            [st EXCEPT !.status = "Reading"], SessionIds(st))
        closed == RetainSnapshots(entries, ClearSnapshots(st.manager))
    IN IF Reading(closed) THEN Stop(closed, "Ok") ELSE closed

Replay(f) ==
    LET read == FoldLeft(LAMBDA st, i :
                    ReplayRecord(st, f.records[i], i = Len(f.records) /\ ~f.torn),
                    ReplayStart(f.header), [i \in DOMAIN f.records |-> i])
    IN CASE read.status = "Sealed" -> ReplayFinish(read)
         [] read.status = "Reading" -> Stop(read, "Truncated")
         [] OTHER -> read

(***************************************************************************)
(* What an archive must satisfy on its own.                                *)
(***************************************************************************)
EndsAfter(contents, s, i) ==
    \E j \in i + 1 .. Len(contents) :
        contents[j].kind = "Clear" \/ (contents[j].kind = "End" /\ contents[j].session = s)

\* Each retained entry is backed by observations of its own session and life,
\* and is current exactly when no later record ended that life.
EntriesResolve(a, contents) ==
    \A n \in DOMAIN a.entries : \A sha \in a.entries[n].observations :
        \E k \in DOMAIN a.observations :
            /\ a.observations[k].sha = sha
            /\ a.observations[k].session = a.entries[n].session
            /\ a.observations[k].life = a.entries[n].life
            /\ a.entries[n].current
                 = ~EndsAfter(contents, a.entries[n].session, a.observations[k].index + 1)

\* A rejection and a continuity decision name the observation of their record.
OccurrencesResolve(a, contents) ==
    /\ \A n \in DOMAIN a.rejections :
          /\ a.rejections[n].observation \in DOMAIN a.observations
          /\ a.observations[a.rejections[n].observation].rec = a.rejections[n].rec
          /\ a.observations[a.rejections[n].observation].session = a.rejections[n].session
    /\ \A n \in DOMAIN a.events : a.events[n].observation # 0 =>
          /\ a.events[n].observation \in DOMAIN a.observations
          /\ a.observations[a.events[n].observation].index = a.events[n].index
          /\ a.observations[a.events[n].observation].life = a.events[n].scopes[1].life

(***************************************************************************)
(* The BGP side of the depth sink (product/src/deep/sink.rs) and the run   *)
(* around it (product/src/bin/pcap-depth.rs, analyze).  Events of the      *)
(* stream runner reach augment one by one: packets are indexed with their  *)
(* digest, messages are cut again from the capture and go both to the live *)
(* manager and to the source journal, and losses that come before the      *)
(* first BGP message of a session wait until it is known to be one.  An    *)
(* error of augment ends the run.  `capture` is the file under analysis,   *)
(* which another program may change while it is read; `lost` are the       *)
(* sessions that lost bytes since their flow began.  The handlers of the   *)
(* other protocols and the labels a message gets from its flow share no    *)
(* state with these.                                                       *)
(***************************************************************************)
CONSTANTS
    Sessions,        \* session ids
    Frames,          \* packets of the capture: 1 .. n
    MaxPending,      \* limits.elements, for losses before classification
    MaxRows,         \* rows of the packet map
    MaxJournal,      \* records the journal's budget has room for
    MaxEvents        \* model bound on the events of a run

VARIABLES
    capture,         \* frame -> version of its bytes
    rows,            \* the packet map: version recorded for frames 1 .. n
    manager,         \* bgp
    seen,            \* bgp_seen
    pending,         \* bgp_pending_boundaries
    pendingCount,    \* bgp_pending_count
    overflow,        \* bgp_pending_overflow
    journal,         \* the contents appended so far
    closed,          \* snapshots of the sessions that were ended
    flows,           \* sessions whose flow is open
    lost,            \* sessions with a loss in their flow
    events,          \* events taken
    phase,           \* running, ended (with outcome), or the step of publication
    outcome,         \* "none", "ok", "failed"
    files,           \* names in the workspace
    archive          \* the last replay: its file and what it returned

sink == <<rows, manager, seen, pending, pendingCount, overflow, journal, closed>>
stream == <<flows, lost>>
run == <<phase, outcome, files>>

NoArchive == [file |-> JournalFile(<<>>), result |-> ReplayStart(Header)]

Init ==
    /\ capture = [f \in Frames |-> 0]
    /\ rows = <<>>
    /\ manager = NoSessions
    /\ seen = {}
    /\ pending = [s \in {} |-> <<>>]
    /\ pendingCount = 0
    /\ overflow = FALSE
    /\ journal = <<>>
    /\ closed = <<>>
    /\ flows = {}
    /\ lost = {}
    /\ events = 0
    /\ phase = "running"
    /\ outcome = "none"
    /\ files = {"events.partial", "journal.partial"}
    /\ archive = NoArchive

Taking == phase = "running" /\ events < MaxEvents
Event == events' = events + 1 /\ UNCHANGED <<capture, archive>>

\* augment returned an error: nothing more is appended and nothing is sealed.
Fail ==
    /\ phase' = "ended"
    /\ outcome' = "failed"
    /\ UNCHANGED <<files, sink, stream>>

Room(n) == Len(journal) + n <= MaxJournal

ChangeCapture(f) ==
    /\ phase = "running"
    /\ capture[f] = 0
    /\ capture' = [capture EXCEPT ![f] = 1]
    /\ UNCHANGED <<sink, stream, events, run, archive>>

(***************************************************************************)
(* The packet map.  The event carries the digest of what the runner read;  *)
(* the sink reads the packet again.                                        *)
(***************************************************************************)
RecordPacket(read) ==
    /\ Taking
    /\ Event
    /\ Len(rows) < Cardinality(Frames)
    /\ read \in 0 .. capture[Len(rows) + 1]
    /\ IF read = capture[Len(rows) + 1] /\ Len(rows) < MaxRows
       THEN /\ rows' = Append(rows, read)
            /\ UNCHANGED <<manager, seen, pending, pendingCount, overflow, journal,
                           closed, stream, run>>
       ELSE Fail

\* span: the row of the frame must still describe the capture.
Materialized(f) == f \in DOMAIN rows /\ rows[f] = capture[f]

(***************************************************************************)
(* Flows.                                                                  *)
(***************************************************************************)
FlowStart(s) ==
    /\ Taking
    /\ Event
    /\ s \notin flows
    /\ flows' = flows \cup {s}
    /\ UNCHANGED <<sink, lost, run>>

Pending(s) == IF s \in DOMAIN pending THEN pending[s] ELSE <<>>

FlowEnd(s) ==
    /\ Taking
    /\ Event
    /\ s \in flows
    /\ IF s \in seen /\ ~Room(1) THEN Fail
       ELSE /\ flows' = flows \ {s}
            /\ lost' = lost \ {s}
            /\ pending' = Without(pending, s)
            /\ pendingCount' = pendingCount - Len(Pending(s))
            /\ seen' = seen \ {s}
            /\ journal' = IF s \in seen THEN Append(journal, EndRecord(s)) ELSE journal
            /\ closed' = closed \o EndSnapshot(manager, s)
            /\ manager' = Without(manager, s)
            /\ UNCHANGED <<rows, overflow, run>>

(***************************************************************************)
(* Losses: a gap or conflict of the stream, or a framing issue.            *)
(***************************************************************************)
LossId == <<"loss", events>>

PendingFull(s) ==
    \/ pendingCount >= MaxPending
    \/ s \notin DOMAIN pending /\ Cardinality(DOMAIN pending) >= MaxPending

\* Mutant of HoldLoss: a loss that finds no room is dropped in silence.
HoldLossSilently(s) ==
    /\ IF PendingFull(s) THEN UNCHANGED <<pending, pendingCount>>
       ELSE /\ pending' = With(pending, s, Append(Pending(s), LossId))
            /\ pendingCount' = pendingCount + 1
    /\ UNCHANGED <<rows, manager, seen, overflow, journal, closed, run>>

HoldLoss(s) ==
    /\ IF PendingFull(s)
       THEN overflow' = TRUE /\ UNCHANGED <<pending, pendingCount>>
       ELSE /\ pending' = With(pending, s, Append(Pending(s), LossId))
            /\ pendingCount' = pendingCount + 1
            /\ UNCHANGED overflow
    /\ UNCHANGED <<rows, manager, seen, journal, closed, run>>

\* The journal is written before the live manager is told.
ApplyLoss(s, answer) ==
    IF ~Room(1) \/ answer.status # "Ok" THEN phase' = "ended" /\ outcome' = "failed"
        /\ UNCHANGED <<files, sink>>
    ELSE /\ journal' = Append(journal, BoundaryRecord("Gap", s, LossId))
         /\ manager' = answer.sessions
         /\ UNCHANGED <<rows, seen, pending, pendingCount, overflow, closed, run>>

Loss(s) ==
    /\ Taking
    /\ Event
    /\ s \in flows
    /\ lost' = lost \cup {s}
    /\ UNCHANGED <<flows>>
    /\ IF s \in seen THEN ApplyLoss(s, ManagerBoundary(manager, s, "Gap", LossId))
       ELSE HoldLoss(s)

(***************************************************************************)
(* Messages.  The first one of a session settles the losses that waited.   *)
(***************************************************************************)
OverflowId(m) == <<"overflow", m.rec>>

Preparation(m) ==
    IF m.session \in seen THEN <<>>
    ELSE (IF overflow THEN <<OverflowId(m)>> ELSE <<>>) \o Pending(m.session)

Prepared(m) ==
    FoldLeft(LAMBDA a, id : IF a.status # "Ok" THEN a
                            ELSE ManagerBoundary(a.sessions, m.session, "Gap", id),
             Answer("Ok", manager), Preparation(m))

\* The journal has the message already, so its rejection adds no record.
Applied(sessions, m) ==
    IF ManagerApply(sessions, m).status = "Rejected"
    THEN ManagerBoundary(sessions, m.session, "Gap", <<"rejected-message", m.rec>>)
    ELSE ManagerApply(sessions, m)

Journaled(m) ==
    [i \in DOMAIN Preparation(m) |-> BoundaryRecord("Gap", m.session, Preparation(m)[i])]
    \o <<MessageRecord(m)>>

MessageStatus(m) ==
    CASE ~Room(Len(Journaled(m))) -> "LimitExceeded"
      [] Prepared(m).status # "Ok" -> Prepared(m).status
      [] OTHER -> Applied(Prepared(m).sessions, m).status

TakeMessage(m) ==
    /\ seen' = seen \cup {m.session}
    /\ journal' = journal \o Journaled(m)
    /\ manager' = Applied(Prepared(m).sessions, m).sessions
    /\ pending' = IF m.session \in seen THEN pending ELSE Without(pending, m.session)
    /\ pendingCount' = IF m.session \in seen THEN pendingCount
                       ELSE pendingCount - Len(Pending(m.session))
    /\ UNCHANGED <<rows, overflow, closed, stream, run>>

MessageOf(s, f, what, route) ==
    [session |-> s, rec |-> <<"message", events>>, what |-> what, route |-> route, bytes |-> rows[f]]

BgpMessage(s, f, what, route) ==
    /\ Taking
    /\ Event
    /\ s \in flows
    /\ f \in DOMAIN rows
    /\ IF Materialized(f) /\ MessageStatus(MessageOf(s, f, what, route)) = "Ok"
       THEN TakeMessage(MessageOf(s, f, what, route))
       ELSE Fail

\* The window boundary drops every session, whether or not its flow ended.
Boundary ==
    /\ Taking
    /\ Event
    /\ IF manager # NoSessions /\ ~Room(1) THEN Fail
       ELSE /\ journal' = IF manager # NoSessions THEN Append(journal, ClearRecord) ELSE journal
            /\ closed' = closed \o ClearSnapshots(manager)
            /\ manager' = NoSessions
            /\ seen' = {}
            /\ pending' = [s \in {} |-> <<>>]
            /\ pendingCount' = 0
            /\ overflow' = FALSE
            /\ lost' = {}
            /\ UNCHANGED <<rows, flows, run>>

(***************************************************************************)
(* The end of the run.  finish verifies the capture against the namespace  *)
(* taken when the sink was made, and only then seals the journal.          *)
(***************************************************************************)
SourceUnchanged == \A f \in Frames : capture[f] = 0

Finish ==
    /\ phase = "running"
    /\ IF SourceUnchanged /\ Room(1)
       THEN /\ journal' = Append(journal, SealRecord(Len(journal)))
            /\ outcome' = "ok"
       ELSE outcome' = "failed" /\ UNCHANGED journal
    /\ phase' = "ended"
    /\ UNCHANGED <<capture, rows, manager, seen, pending, pendingCount, overflow,
                   closed, stream, events, files, archive>>

\* The event output is finished and synced after the journal is sealed.
OutputFails ==
    /\ phase = "ended"
    /\ outcome = "ok"
    /\ outcome' = "failed"
    /\ UNCHANGED <<capture, sink, stream, events, phase, files, archive>>

WriteReceipt ==
    /\ phase = "ended"
    /\ files' = files \cup {"receipt.partial"}
    /\ phase' = IF outcome = "ok" THEN "events" ELSE "receipt"
    /\ UNCHANGED <<capture, sink, stream, events, outcome, archive>>

Partial == [events |-> "events.partial", journal |-> "journal.partial",
            receipt |-> "receipt.partial"]

NextStep(name) ==
    CASE name = "events" -> "journal" [] name = "journal" -> "receipt" [] OTHER -> "done"

\* hard_link, then remove_file; either may fail, which ends the run.
PublishFile(name, linked, removed) ==
    /\ phase = name
    /\ name \in DOMAIN Partial
    /\ removed => linked
    /\ files' = (files \cup (IF linked THEN {name} ELSE {}))
                \ (IF removed THEN {Partial[name]} ELSE {})
    /\ phase' = IF removed THEN NextStep(name) ELSE "stopped"
    /\ UNCHANGED <<capture, sink, stream, events, outcome, archive>>

\* A fresh process replays the journal, or what has become of it.
ReplayJournal(f) ==
    /\ phase \notin {"running", "replayed"}
    /\ phase' = "replayed"
    /\ archive' = [file |-> f, result |-> Replay(f)]
    /\ UNCHANGED <<capture, sink, stream, events, outcome, files>>

vars == <<capture, sink, stream, events, run, archive>>

(***************************************************************************)
(* Properties.                                                             *)
(***************************************************************************)
Sealed == journal # <<>> /\ Last(journal).kind = "Seal"

\* Under which identity a rejected message leaves its gap is up to the side
\* that records it.
Normal(snapshots) ==
    [i \in DOMAIN snapshots |->
        [snapshots[i] EXCEPT !.state.log = [j \in DOMAIN @ |->
            IF @[j].kind = "Gap" /\ @[j].id[1] \in {"rejected-message", "journal-rejected-message"}
            THEN Entry("Gap", <<"rejected">>) ELSE @[j]]]]

\* A journal that replays ends in the states the live analysis had: the same
\* sessions in the same order, ended ones and open ones, each with the same
\* generation, records, losses and routes.
ReplayFaithful ==
    archive.result.status = "Ok" /\ archive.file = JournalFile(journal) =>
        Normal(archive.result.sessions) = Normal(closed \o ClearSnapshots(manager))

\* A file is replayed only if it is byte for byte the journal that was sealed.
JournalIntact ==
    archive.result.status = "Ok" => Sealed /\ archive.file = JournalFile(journal)

\* What an archive says about a route, a rejection or a continuity decision
\* leads back to an observation of the same session and the same life.
EvidenceResolves ==
    archive.result.status = "Ok" =>
        /\ EntriesResolve(archive.result, journal)
        /\ OccurrencesResolve(archive.result, journal)

\* A session that lost bytes of its flow says so, even when the loss came
\* before the first message and even when there was no room to keep it.
LossKnown ==
    phase = "running" =>
        /\ \A s \in DOMAIN manager \cap lost :
              \E i \in DOMAIN manager[s].log : manager[s].log[i].kind = "Gap"
        /\ pendingCount = FoldLeft(LAMBDA n, s : n + Len(pending[s]), 0, SetToSeq(DOMAIN pending))

\* The receipt of a complete run is only ever found beside the published
\* events and the published, sealed journal; and every message of a sealed
\* journal has the bytes of the capture the journal is bound to.
RunSound ==
    /\ "receipt" \in files /\ outcome = "ok" => {"events", "journal"} \subseteq files
    /\ "journal" \in files => Sealed
    /\ Sealed => \A i \in DOMAIN journal : journal[i].message.bytes = 0

\* An archive that replays is byte for byte the sealed journal, and all it
\* reports resolves to observations of that journal (bgp_store.rs).
JournalSound == JournalIntact /\ EvidenceResolves

\* No loss is forgotten while a run continues, and what a finished run leaves
\* behind is complete and bound to its capture (sink.rs, pcap-depth.rs).
RunAccounts == LossKnown /\ RunSound
=============================================================================
