---------------------------- MODULE Continuation ----------------------------
(***************************************************************************)
(* Application framing across pages: the Parser of continuation.rs with    *)
(* its StreamBuffer, fed by a caller that chooses the pages, or by the     *)
(* history application, which reads a finished range page by page.         *)
(*                                                                         *)
(* A stream is a sequence of application frames.  Its bytes are the cells  *)
(* 0, 1, ... of the frames in their order; a frame says how many it has    *)
(* and what its decoder finds in it.  A frame's payload counts as one      *)
(* byte, and comes from one packet.  Evidence is the set of frames whose   *)
(* bytes a report holds.                                                   *)
(***************************************************************************)
EXTENDS Integers, Sequences, FiniteSets, SequencesExt, Functions, TLC

CONSTANTS
    InputBytes, Elements, Spans, Active, Retained,   \* Limits
    Header,          \* cells before the length of a frame is known
    TransportModulus, SequenceModulus, Wrap,   \* 64; 2^32 and 1024 in the code
    MaxCuts          \* how often a caller loses bytes or cuts

VARIABLES
    protocol, stream,
    parser, log,     \* the Parser; the reports emitted
    pos,             \* the next cell of the stream
    app,             \* who feeds the parser: its phase, the output it takes, its request
    run              \* what was fed: since when, with which error, which cells

vars == <<protocol, stream, parser, log, pos, app, run>>

NoOffset == -1
Empty == << >>
Size(s) == FoldLeft(LAMBDA n, k : n + stream[k].len, 0, s)
StartOf(k) == Size([i \in 1 .. k - 1 |-> i])
Cells == StartOf(Len(stream) + 1)
\* The frames with bytes among the cells a .. b - 1.
Touching(a, b) == {k \in 1 .. Len(stream) : StartOf(k) < b /\ a < StartOf(k + 1)}

\* The first of the refusals that applies, in the code's order.
Refusal(checks) ==
    LET hits == SelectSeq(checks, LAMBDA c : c[1])
    IN  IF hits = <<>> THEN "" ELSE hits[1][2]

Without(f, k) == Restrict(f, DOMAIN f \ {k})

(***************************************************************************)
(* StreamBuffer: the cells base .. base + size - 1 are pending.            *)
(***************************************************************************)
NewBuffer == [base |-> 0, size |-> 0, next |-> NoOffset, poisoned |-> FALSE]

BufferPush(b, offset, n) ==
    LET refused == Refusal(<<
            <<b.poisoned, "reject">>,
            <<b.next \notin {NoOffset, offset}, "gap">>,
            <<(IF b.size = 0 THEN 0 ELSE Cardinality(Touching(b.base, b.base + b.size)))
                + Cardinality(Touching(offset, offset + n)) > Spans, "limit">>>>)
    IN  [err |-> refused,
         buffer |->
            CASE refused = "" -> [b EXCEPT !.base = IF b.size = 0 THEN offset ELSE @,
                                           !.size = @ + n, !.next = offset + n]
              [] refused = "gap" -> [b EXCEPT !.poisoned = TRUE]
              [] OTHER -> b]

BufferTake(b, n) == [b EXCEPT !.base = @ + n, !.size = @ - n]

BufferGap(b) == [b EXCEPT !.next = NoOffset, !.poisoned = FALSE, !.size = 0]

(***************************************************************************)
(* The Parser.                                                             *)
(***************************************************************************)
NewParser ==
    [buffer |-> NewBuffer, cotp |-> <<>>, dnp |-> Empty, ua |-> Empty, uaLast |-> Empty,
     requiresCut |-> FALSE]

\* The extent of the frame at the front of the buffer: 0 while it is not
\* complete, -1 if there is no frame, -2 if it is too large.
Length(p) ==
    LET b == p.buffer
        here == {k \in 1 .. Len(stream) : StartOf(k) = b.base}
        f == stream[CHOOSE k \in here : TRUE]
    IN  CASE b.size < Header -> 0
          [] b.size >= Header /\ (here = {} \/ f.kind = "bad") -> -1
          [] b.size >= Header /\ f.len > InputBytes -> -2
          [] b.size >= Header /\ b.size < f.len -> 0
          [] OTHER -> f.len

Frame(p) == CHOOSE k \in 1 .. Len(stream) : StartOf(k) = p.buffer.base

NoReport == {}
Done(p, frames) == [parser |-> p, err |-> "", frames |-> frames]
Fails(p, err) == [parser |-> p, err |-> err, frames |-> NoReport]
Outcome(p, err, frames) == IF err = "" THEN Done(p, frames) ELSE Fails(p, err)

SameSegment(f, g) == f.fir = g.fir /\ f.fin = g.fin /\ f.seq = g.seq /\ f.text = g.text

\* A transport control byte and a payload of one byte.
UserData == 2
DnpRetained(p) ==
    FoldLeft(LAMBDA n, k : n + Len(p.dnp[k].parts) + Size(p.dnp[k].wire) + UserData, 0,
             SetToSeq(DOMAIN p.dnp))

DnpUnit(p, k) ==
    LET f == stream[k]
        held == f.key \in DOMAIN p.dnp
        state == p.dnp[f.key]
        last == stream[Last(state.parts)]
        again == held /\ SameSegment(f, last)
        refused == Refusal(<<
            <<f.kind = "issue", "reject">>,
            <<f.kind = "user" /\ DnpRetained(p) + f.len + 2 * UserData > Retained, "limit">>,
            <<f.kind = "user" /\ held /\ f.dir # last.dir, "reject">>,
            <<f.kind = "user" /\ ~again /\ f.fir /\ ~held
                /\ Cardinality(DOMAIN p.dnp) >= Active, "limit">>,
            <<f.kind = "user" /\ ~again /\ f.fir /\ held, "reject">>,
            <<f.kind = "user" /\ ~f.fir /\ ~held, "reject">>,
            <<f.kind = "user" /\ ~again /\ ~f.fir /\ held
                /\ f.seq # (last.seq + 1) % TransportModulus, "reject">>,
            <<f.kind = "user" /\ held /\ (\/ Len(state.wire) + 1 > Spans
                                          \/ Size(state.wire) + f.len > InputBytes), "limit">>>>)
        next ==
            CASE again -> [state EXCEPT !.wire = Append(@, k)]
              [] ~again /\ f.fir -> [parts |-> <<k>>, wire |-> <<k>>]
              [] OTHER -> [parts |-> Append(state.parts, k), wire |-> Append(state.wire, k)]
        kept == [p EXCEPT !.dnp = (f.key :> next) @@ @]
    IN  CASE refused # "" -> Fails(p, refused)
          [] refused = "" /\ f.kind = "link" -> Done(p, {k})
          [] refused = "" /\ f.kind = "user" /\ again -> Done(kept, {k})
          [] refused = "" /\ f.kind = "user" /\ ~again /\ ~f.fin -> Done(kept, NoReport)
          [] refused = "" /\ f.kind = "user" /\ ~again /\ f.fin /\ ~f.ok -> Fails(kept, "reject")
          [] OTHER -> Done([kept EXCEPT !.dnp = Without(@, f.key)], Range(next.wire))

\* What check_retained adds up, one byte a part.
Assembled(p) ==
    FoldLeft(LAMBDA n, k : n + Len(p.ua[k].parts), Len(p.cotp), SetToSeq(DOMAIN p.ua))

CotpUnit(p, k) ==
    LET f == stream[k]
        refused == Refusal(<<
            <<Len(p.cotp) + 1 > Spans, "limit">>,
            <<Assembled(p) + 1 > Retained, "limit">>,
            <<Len(p.cotp) + 1 > InputBytes, "limit">>>>)
        data == Append(p.cotp, k)
    IN  CASE f.kind # "user" -> Outcome(p, IF f.ok THEN "" ELSE "reject", {k})
          [] f.kind = "user" /\ refused # "" -> Fails(p, refused)
          [] f.kind = "user" /\ refused = "" /\ ~f.fin -> Done([p EXCEPT !.cotp = data], NoReport)
          [] OTHER -> Outcome([p EXCEPT !.cotp = <<>>], IF f.ok THEN "" ELSE "reject", Range(data))

\* advance_ua_sequence: one sequence for all chunks of a channel.
Advance(p, f) ==
    LET channel == f.key[1]
        known == channel \in DOMAIN p.uaLast
        last == p.uaLast[channel]
        refused == Refusal(<<
            <<~known /\ Cardinality(DOMAIN p.uaLast) >= Active, "limit">>,
            <<known /\ f.seq # (last + 1) % SequenceModulus
                /\ ~(last > SequenceModulus - 1 - Wrap /\ f.seq < Wrap), "reject">>>>)
    IN  Outcome(IF refused = "" THEN [p EXCEPT !.uaLast = (channel :> f.seq) @@ @] ELSE p,
                refused, NoReport)

ChunkUnit(p, k) ==
    LET f == stream[k]
        moved == Advance(p, f)
        q == moved.parser
        held == f.key \in DOMAIN q.ua
        parts == IF held THEN q.ua[f.key].parts ELSE <<>>
        refused == Refusal(<<
            <<moved.err # "", moved.err>>,
            <<f.flag = "A" /\ held /\ q.ua[f.key].token # f.token, "reject">>,
            <<f.flag # "A" /\ ~held /\ Cardinality(DOMAIN q.ua) >= Active, "limit">>,
            <<f.flag # "A" /\ Assembled(q) + 1 > Retained, "limit">>,
            <<f.flag # "A" /\ held /\ q.ua[f.key].token # f.token, "reject">>,
            <<f.flag # "A" /\ (Len(parts) + 1 > Spans \/ Len(parts) + 1 > InputBytes), "limit">>,
            <<f.flag # "C" /\ ~f.ok, "reject">>>>)
        closed == [q EXCEPT !.ua = Without(@, f.key)]
        grown == [q EXCEPT !.ua = (f.key :> [token |-> f.token, parts |-> Append(parts, k)]) @@ @]
    IN  CASE refused # "" -> Fails(q, refused)
          [] refused = "" /\ f.flag = "A" -> Done(closed, {k})
          [] refused = "" /\ f.flag = "C" -> Done(grown, NoReport)
          [] OTHER -> Done(closed, Range(parts) \cup {k})

\* OPN and CLO: decoded first, then the sequence of their channel.
ChannelUnit(p, k) ==
    LET moved == Advance(p, stream[k])
    IN  IF stream[k].ok THEN Outcome(moved.parser, moved.err, {k}) ELSE Fails(p, "reject")

Unit(p, k) ==
    LET f == stream[k]
    IN  CASE protocol = "dnp3" -> DnpUnit(p, k)
          [] protocol = "iso_cotp" -> CotpUnit(p, k)
          [] protocol = "opcua_tcp" /\ f.kind = "chunk" -> ChunkUnit(p, k)
          [] protocol = "opcua_tcp" /\ f.kind = "channel" -> ChannelUnit(p, k)
          [] OTHER -> Outcome(p, IF f.ok THEN "" ELSE "reject", {k})

(***************************************************************************)
(* A report, and the receiver that takes it or not.                        *)
(***************************************************************************)
Event(kind, from, to, frames) ==
    [kind |-> kind, from |-> from, to |-> to, frames |-> frames, lost |-> {}]
Note(kind) == Event(kind, 0, 0, {})
Cost(e) == IF e.kind \in {"message", "rejected", "boundary", "incomplete"} THEN 2 ELSE 1
Written(l) == FoldLeft(LAMBDA n, e : n + Cost(e), 0, l)
Takes(l, e) == Written(l) + Cost(e) <= app.output
Emit(s, e) ==
    IF Takes(s.log, e) THEN [s EXCEPT !.log = Append(@, e)] ELSE [s EXCEPT !.err = "sink"]

\* Frame k, which lies at `at`, was taken and decoded with outcome u.  Only
\* DNP3 reports the frame that it rejects.
Settle(s, u, at, k) ==
    LET after == [s EXCEPT !.parser = u.parser, !.messages = @ + 1]
        event(kind, frames) == Event(kind, at, at + stream[k].len, frames)
        rejected == Emit(after, event("rejected", {k}))
    IN  CASE u.err = "" /\ u.frames = NoReport -> after
          [] u.err = "" /\ u.frames # NoReport -> Emit(after, event("message", u.frames))
          [] u.err # "" /\ protocol = "dnp3" /\ rejected.err = "" -> [rejected EXCEPT !.err = u.err]
          [] u.err # "" /\ protocol = "dnp3" /\ rejected.err # "" -> rejected
          [] OTHER -> [after EXCEPT !.err = u.err]

\* The frame at the front of the buffer, of extent n.
TakeFrame(s, n) ==
    IF s.messages + 1 > Elements THEN [s EXCEPT !.err = "limit"]
    ELSE Settle(s, Unit([s.parser EXCEPT !.buffer = BufferTake(@, n)], Frame(s.parser)),
                s.parser.buffer.base, Frame(s.parser))

\* The frames that are complete in the buffer, each decoded and reported.
RECURSIVE Drain(_)
Drain(s) ==
    LET n == Length(s.parser)
    IN  CASE s.err # "" \/ n = 0 -> s
          [] s.err = "" /\ n < 0 -> [s EXCEPT !.err = IF n = -1 THEN "reject" ELSE "limit"]
          [] OTHER -> Drain(TakeFrame(s, n))

\* feed_inner: as much as the buffer has room for, then the frames in it.
FeedChunk(s, offset, n) ==
    LET pushed == BufferPush(s.parser.buffer, offset, n)
    IN  Drain([s EXCEPT !.parser.buffer = pushed.buffer, !.err = pushed.err])

RECURSIVE FeedInner(_, _, _)
FeedInner(s, offset, left) ==
    LET room == InputBytes - s.parser.buffer.size
        n == IF room < left THEN room ELSE left
    IN  CASE s.err # "" \/ left = 0 -> s
          [] s.err = "" /\ left > 0 /\ room = 0 -> [s EXCEPT !.err = "limit"]
          [] OTHER -> FeedInner(FeedChunk(s, offset, n), offset + n, left - n)

\* Mutant of Fallen: a failed feed gives up every assembly, DNP3's too.
FallenForgetting(s) ==
    IF s.err = "" THEN s
    ELSE [s EXCEPT !.parser = [NewParser EXCEPT !.buffer = s.parser.buffer, !.requiresCut = TRUE]]

\* What a failed feed leaves: DNP3 keeps its witnesses for the cut.
Fallen(s) ==
    IF s.err = "" THEN s
    ELSE [s EXCEPT !.parser.requiresCut = TRUE, !.parser.cotp = <<>>, !.parser.ua = Empty,
                   !.parser.uaLast = Empty]

\* Parser::feed on a parser and the reports so far.
Reading(p, l) == [parser |-> p, log |-> l, err |-> "", messages |-> 0]
Feed(p, l, offset, n) ==
    Fallen(IF p.requiresCut THEN [Reading(p, l) EXCEPT !.err = "cut"]
           ELSE FeedInner(Reading(p, l), offset, n))

Held(p) ==
    Range(p.cotp) \cup UNION {Range(p.dnp[k].wire) : k \in DOMAIN p.dnp}
    \cup UNION {Range(p.ua[k].parts) : k \in DOMAIN p.ua}

CutEvent(p, kind) == Event(kind, p.buffer.base, p.buffer.base + p.buffer.size, Held(p))
\* Mutant of CutParser: the sequences of the channels outlive a cut.
CutKeepingSequences(p) ==
    [NewParser EXCEPT !.buffer = BufferGap(p.buffer), !.uaLast = p.uaLast]

CutParser(p) == [NewParser EXCEPT !.buffer = BufferGap(p.buffer)]

Unfinished(p) ==
    \/ p.requiresCut
    \/ p.buffer.size > 0
    \/ Held(p) # {}

(***************************************************************************)
(* A caller of the parser: any pages, a loss it does not announce, a cut   *)
(* after anything was fed, the end.  run.start is where the evidence since *)
(* the last cut begins (NoOffset once it has a hole), run.mark the reports *)
(* before it, run.err the first error since, run.fed the cells that were   *)
(* taken and that no failed feed has given up.                             *)
(***************************************************************************)
Fed(r, offset, n) ==
    LET taken == offset .. r.parser.buffer.next - 1
        forgotten == r.err # "" /\ (protocol # "dnp3" \/ r.err = "sink")
    IN  [run EXCEPT !.err = IF @ = "" THEN r.err ELSE @,
                    !.until = IF run.err = "" THEN offset + n ELSE @,
                    !.fed = IF forgotten THEN {} ELSE @ \cup (taken \cap 0 .. offset + n - 1)]

Returned(r, n) ==
    /\ parser' = r.parser
    /\ log' = r.log
    /\ run' = Fed(r, pos, n)

CallFeed(n) ==
    /\ app.phase = "calls"
    /\ pos + n <= Cells
    /\ Returned(Feed(parser, log, pos, n), n)
    /\ pos' = pos + n
    /\ UNCHANGED <<protocol, stream, app>>

CallLose ==
    /\ app.phase = "calls"
    /\ pos < Cells
    /\ run.cuts < MaxCuts
    /\ pos' = pos + 1
    /\ run' = [run EXCEPT !.start = IF @ = pos THEN pos + 1 ELSE NoOffset, !.cuts = @ + 1]
    /\ UNCHANGED <<protocol, stream, parser, log, app>>

CutNow(kind) ==
    /\ parser' = CutParser(parser)
    /\ log' = Append(log, CutEvent(parser, kind))

CallCut ==
    /\ app.phase = "calls"
    /\ run.start # pos
    /\ run.cuts < MaxCuts
    /\ CutNow("boundary")
    /\ run' = [run EXCEPT !.start = pos, !.mark = Len(log) + 1, !.err = "", !.until = pos,
                          !.cuts = @ + 1]
    /\ UNCHANGED <<protocol, stream, pos, app>>

CallFinish ==
    /\ app.phase = "calls"
    /\ IF Unfinished(parser) THEN CutNow("incomplete") ELSE UNCHANGED <<parser, log>>
    /\ app' = [app EXCEPT !.phase = "finished"]
    /\ UNCHANGED <<protocol, stream, pos, run>>

(***************************************************************************)
(* The history application.  app.gaps are the cells of the range that      *)
(* history does not have, app.page the bytes it asks for at a time.        *)
(***************************************************************************)
\* The pieces of a page: it is divided where packets begin and end, and where
\* history has no bytes.
Divides(c) ==
    \/ (c \in app.gaps) # (c - 1 \in app.gaps)
    \/ c \notin app.gaps /\ \E k \in 1 .. Len(stream) : StartOf(k) = c

PagePieces(a, b) ==
    LET edges == {a, b} \cup {c \in a + 1 .. b - 1 : Divides(c)}
        s == SetToSortSeq(edges, <)
    IN  [i \in 1 .. Len(s) - 1 |-> [from |-> s[i], to |-> s[i + 1]]]

ReadPiece(s, piece) ==
    LET lost == piece.from .. piece.to - 1
        cut == [s EXCEPT !.parser = CutParser(@)]
    IN  CASE s.err # "" -> s
          [] s.err = "" /\ piece.from \in app.gaps ->
                Emit(cut, [CutEvent(s.parser, "boundary") EXCEPT !.lost = lost])
          [] OTHER -> Feed(s.parser, s.log, piece.from, piece.to - piece.from)

ReadPage(s, a, b) == FoldLeft(ReadPiece, s, PagePieces(a, b))

FinishParser(s) ==
    IF Unfinished(s.parser)
    THEN Emit([s EXCEPT !.parser = CutParser(@)], CutEvent(s.parser, "incomplete"))
    ELSE s

\* The last event of a failed analysis, if there is room for it.
Aborted(l) == IF Takes(l, Note("aborted")) THEN Append(l, Note("aborted")) ELSE l

AppStart ==
    /\ app.phase = "request"
    /\ IF Takes(log, Note("start"))
       THEN /\ log' = Append(log, Note("start"))
            /\ app' = [app EXCEPT !.phase = "pages"]
       ELSE /\ app' = [app EXCEPT !.phase = "failed"]
            /\ UNCHANGED log
    /\ UNCHANGED <<protocol, stream, parser, pos, run>>

PageRead(r, to) ==
    /\ parser' = r.parser
    /\ log' = IF r.err = "" THEN r.log ELSE Aborted(r.log)
    /\ pos' = IF r.err = "" THEN to ELSE pos
    /\ app' = [app EXCEPT !.phase = IF r.err = "" THEN @ ELSE "failed"]
    /\ run' = [run EXCEPT !.err = r.err]

AppPage ==
    LET to == IF pos + app.page > app.end THEN app.end ELSE pos + app.page
    IN  /\ app.phase = "pages"
        /\ pos < app.end
        /\ PageRead(ReadPage(Reading(parser, log), pos, to), to)
        /\ UNCHANGED <<protocol, stream>>

\* Cancelled before a page, or the history cannot be read.
AppStops ==
    /\ app.phase = "pages"
    /\ pos < app.end
    /\ log' = Aborted(log)
    /\ app' = [app EXCEPT !.phase = "failed"]
    /\ run' = [run EXCEPT !.err = "stop"]
    /\ UNCHANGED <<protocol, stream, parser, pos>>

AppFinish ==
    LET r == FinishParser(Reading(parser, log))
        done == r.err = "" /\ Takes(r.log, Note("complete"))
    IN  /\ app.phase = "pages"
        /\ pos = app.end
        /\ parser' = r.parser
        /\ log' = IF done THEN Append(r.log, Note("complete"))
                  ELSE IF r.err = "" THEN r.log ELSE Aborted(r.log)
        /\ app' = [app EXCEPT !.phase = IF done THEN "finished" ELSE "failed"]
        /\ run' = [run EXCEPT !.err = IF done THEN @ ELSE "sink"]
        /\ UNCHANGED <<protocol, stream, pos>>

Next ==
    \/ \E n \in 1 .. Cells : CallFeed(n)
    \/ CallLose
    \/ CallCut
    \/ CallFinish
    \/ AppStart
    \/ AppPage
    \/ AppStops
    \/ AppFinish

(***************************************************************************)
(* Properties.                                                             *)
(***************************************************************************)
CellsOf(frames) == UNION {StartOf(k) .. StartOf(k + 1) - 1 : k \in frames}
Boundaries == {"boundary", "incomplete"}
EvidenceOf(e) ==
    CellsOf(e.frames) \cup (IF e.kind \in Boundaries THEN e.from .. e.to - 1 ELSE {})
Reported == UNION {EvidenceOf(log[i]) : i \in DOMAIN log}
Pending == parser.buffer.base .. parser.buffer.base + parser.buffer.size - 1
Messages(l) == SelectSeq(l, LAMBDA e : e.kind = "message")
\* Frames of a message that the stream itself aborts later on.
Withdrawn ==
    IF protocol # "opcua_tcp" THEN {}
    ELSE {k \in 1 .. Len(stream) : \E j \in k + 1 .. Len(stream) :
              /\ stream[j].kind = "chunk"
              /\ stream[j].flag = "A"
              /\ stream[j].key = stream[k].key}

SameFeeds(one) ==
    "limit" \notin {run.err, one.err} =>
        /\ one.log = log
        /\ one.err = run.err
        /\ run.err = "" => one.parser = parser
SameMessages(one) ==
    one.err \notin {"limit", "sink"} => one.err = "" /\ Messages(one.log) = Messages(log)

\* Where the pages end makes no difference, unless a limit is met: what the
\* caller has fed since the last cut gives the same reports, the same error
\* and the same state as all of it in one piece fed to a new parser, and the
\* application finds the same messages as with one page for the whole range.
\* A cut leaves nothing behind that a later frame could be joined to.
PagesIrrelevant ==
    /\ app.phase = "calls" /\ run.start \notin {NoOffset, pos} =>
          SameFeeds(Feed(NewParser, SubSeq(log, 1, run.mark), run.start, run.until - run.start))
    /\ app.phase = "finished" /\ app.page > 0 =>
          SameMessages(ReadPage(Reading(NewParser, <<Note("start")>>), app.start, app.end))

\* Nothing that was taken disappears: a byte is in a report, in a boundary or
\* still held, unless the feed that took it failed (and for DNP3 even then)
\* or the stream aborts its message.  No frame is in two messages, except
\* that a repeated DNP3 segment is reported on its own and as a witness.  An
\* analysis that says it is complete has read its whole range, and has a
\* boundary for every byte the history did not have; one that failed never
\* says so.
NothingDropped ==
    /\ run.fed \subseteq Reported \cup Pending \cup CellsOf(Held(parser) \cup Withdrawn)
    /\ \A i, j \in DOMAIN log : \A k \in log[i].frames \cap log[j].frames :
          i < j /\ log[i].kind = "message" /\ log[j].kind = "message" =>
              /\ log[i].frames = {k}
              /\ \E h \in log[j].frames : h < k /\ SameSegment(stream[h], stream[k])
    /\ \A i \in DOMAIN log : log[i].kind \in {"complete", "aborted"} => i = Len(log)
    /\ app.phase = "finished" /\ app.page > 0 =>
          /\ app.start .. app.end - 1 \subseteq
                Reported \cup CellsOf(Withdrawn) \cup UNION {log[i].lost : i \in DOMAIN log}
          /\ app.gaps \cap app.start .. app.end - 1 = UNION {log[i].lost : i \in DOMAIN log}
    /\ app.phase = "failed" => Note("complete") \notin Range(log)
=============================================================================
