------------------------------ MODULE MCDeepSink ------------------------------
(***************************************************************************)
(* The depth analysis.  A behaviour is one of the sink (with the events of *)
(* one menu), of the framing of a finished stream or of the reassembly of  *)
(* numbered segments, as `part` says.                                      *)
(***************************************************************************)
EXTENDS DeepSink, Segments

CONSTANTS
    Menus,
    FrameSpans, FrameRetained, FrameHeader, TransportModulus, SequenceModulus, Wrap, MaxCuts

VARIABLES
    menu, part,
    protocol, source, parser, reports, pos, app, fed

pageVars == <<protocol, source, parser, reports, pos, app, fed>>

Paging == INSTANCE Continuation
    WITH stream <- source, log <- reports, run <- fed, Spans <- FrameSpans,
         Retained <- FrameRetained, Header <- FrameHeader

(***************************************************************************)
(* Streams of up to four frames for each protocol, mostly of two cells: in *)
(* order, repeated, interleaved, with a frame missing, damaged or refused. *)
(***************************************************************************)
F(kind, len, key) ==
    [kind |-> kind, len |-> len, key |-> key, fir |-> TRUE, fin |-> TRUE, seq |-> 0, text |-> 0,
     dir |-> TRUE, flag |-> "", token |-> 0, ok |-> TRUE]
Seg(key, fir, fin, seq) == [F("user", 2, key) EXCEPT !.fir = fir, !.fin = fin, !.seq = seq]
Chunk(key, flag, seq) == [F("chunk", 2, key) EXCEPT !.flag = flag, !.seq = seq]
Broken(f) == [f EXCEPT !.ok = FALSE]

A == <<1, 1>>
B == <<2, 1>>
C == <<3, 1>>
A2 == <<1, 2>>
A3 == <<1, 3>>

Streams ==
    [dnp3 |->
        {<<Seg(A, TRUE, FALSE, 2), Seg(A, FALSE, FALSE, 0), Seg(A, FALSE, TRUE, 1)>>,
         <<Seg(A, TRUE, FALSE, 0), Seg(A, TRUE, FALSE, 0), F("link", 2, A), Seg(A, FALSE, TRUE, 1)>>,
         <<Seg(A, TRUE, FALSE, 0), Seg(B, TRUE, FALSE, 0), Seg(A, FALSE, TRUE, 1),
           Seg(B, FALSE, TRUE, 1)>>,
         <<Seg(A, TRUE, FALSE, 0), Seg(A, FALSE, TRUE, 2), Seg(A, FALSE, TRUE, 1)>>,
         <<Seg(A, TRUE, FALSE, 0), Broken(Seg(A, FALSE, TRUE, 1)), Seg(A, TRUE, TRUE, 0)>>,
         <<Seg(A, TRUE, FALSE, 0), [Seg(A, FALSE, TRUE, 1) EXCEPT !.dir = FALSE], F("link", 2, A)>>,
         <<Seg(A, TRUE, TRUE, 0), F("bad", 2, A), Seg(A, TRUE, FALSE, 0), Seg(A, TRUE, TRUE, 1)>>,
         <<Seg(A, TRUE, FALSE, 0), Seg(B, TRUE, FALSE, 0), [Seg(B, FALSE, TRUE, 1) EXCEPT !.len = 3]>>,
         <<Seg(A, TRUE, FALSE, 0), Seg(B, TRUE, FALSE, 0), Seg(C, TRUE, TRUE, 0)>>,
         <<F("issue", 3, A), Seg(B, FALSE, TRUE, 0), F("link", 9, A)>>},
     iso_cotp |->
        {<<Seg(A, TRUE, FALSE, 0), Seg(A, TRUE, FALSE, 0), Seg(A, TRUE, TRUE, 0), F("plain", 3, A)>>,
         <<Seg(A, TRUE, FALSE, 0), F("plain", 2, A), Seg(A, TRUE, TRUE, 0), Seg(A, TRUE, FALSE, 0)>>,
         <<Seg(A, TRUE, FALSE, 0), F("bad", 2, A), Seg(A, TRUE, TRUE, 0)>>,
         <<Seg(A, TRUE, FALSE, 0), Seg(A, TRUE, FALSE, 0), Seg(A, TRUE, FALSE, 0), Seg(A, TRUE, TRUE, 0)>>,
         <<Seg(A, TRUE, FALSE, 0), Broken(F("plain", 2, A)), Seg(A, TRUE, TRUE, 0)>>,
         <<Seg(A, TRUE, FALSE, 0), Broken(Seg(A, TRUE, TRUE, 0)), Seg(A, TRUE, TRUE, 0)>>},
     opcua_tcp |->
        {<<Chunk(A, "C", 6), Chunk(A, "C", 7), Chunk(A, "F", 1), Chunk(A, "F", 2)>>,
         <<Chunk(A, "C", 0), Chunk(A2, "C", 1), Chunk(A, "F", 2), Chunk(A2, "F", 3)>>,
         <<Chunk(A, "C", 0), Chunk(A, "A", 1), F("plain", 2, A), Chunk(A, "F", 2)>>,
         <<Chunk(A, "C", 0), [F("channel", 2, A) EXCEPT !.seq = 1], Chunk(A, "F", 2), Chunk(B, "F", 0)>>,
         <<Chunk(A, "C", 0), [Chunk(A, "F", 1) EXCEPT !.token = 1], Chunk(A, "F", 0)>>,
         <<Chunk(A, "C", 0), Chunk(A2, "C", 1), Chunk(A3, "F", 2)>>,
         <<Chunk(A, "F", 0), Chunk(B, "F", 0), Chunk(C, "F", 0)>>,
         <<Chunk(A, "C", 0), Chunk(A, "F", 2), Chunk(A, "F", 3)>>,
         <<Chunk(A, "C", 0), Broken(Chunk(A, "A", 1)), Chunk(A, "F", 2)>>},
     modbus |->
        {<<F("plain", 1, A), F("plain", 3, A), Broken(F("plain", 2, A)), F("plain", 2, A)>>}]

ContinuationInit ==
    /\ protocol \in DOMAIN Streams
    /\ source \in Streams[protocol]
    /\ parser = Paging!NewParser
    /\ reports = <<>>
    /\ \/ /\ pos = 0
          /\ app = [phase |-> "calls", output |-> 12, page |-> 0, start |-> 0, end |-> 0,
                    gaps |-> {}]
       \/ /\ pos \in {0, 2}
          /\ \E o \in {0, 5, 12}, p \in {1, 3, 5}, g \in {{}, {2, 3}, {3}, {4, 5}} :
                app = [phase |-> "request", output |-> o, page |-> p, start |-> pos,
                       end |-> Paging!Cells, gaps |-> g]
    /\ fed = [start |-> 0, mark |-> 0, err |-> "", until |-> 0, fed |-> {}, cuts |-> 0]

\* Segments that agree, repeat, disagree, end a message twice, lie beyond its
\* end or beyond the limit, or claim to be the first where they cannot be.
Piece(ordinal, final, text, len) ==
    [ordinal |-> ordinal, first |-> ordinal = 0, final |-> final, text |-> text, len |-> len]
MCPieces ==
    {Piece(0, FALSE, 1, 1), Piece(0, TRUE, 1, 1), Piece(1, FALSE, 1, 1), Piece(1, FALSE, 2, 1),
     Piece(1, TRUE, 3, 2), Piece(2, TRUE, 1, 1), Piece(3, TRUE, 1, 1),
     [Piece(1, FALSE, 1, 1) EXCEPT !.first = TRUE],
     [Piece(0, FALSE, 1, 1) EXCEPT !.first = FALSE]}

MenuKinds ==
    [life |-> [what |-> {"Announce", "Malformed"}, change |-> FALSE, damage |-> FALSE, sessions |-> {1, 2}],
     codes |-> [what |-> {"Announce", "Unread", "Close", "Opaque"}, change |-> FALSE, damage |-> FALSE, sessions |-> {1}],
     source |-> [what |-> {"Announce"}, change |-> TRUE, damage |-> FALSE, sessions |-> {1}],
     damage |-> [what |-> {"Announce"}, change |-> FALSE, damage |-> TRUE, sessions |-> {1}]]

M == MenuKinds[menu]

SinkNext ==
    /\ UNCHANGED menu
    /\ \/ M.change /\ \E f \in Frames : ChangeCapture(f)
       \/ \E v \in {0, 1} : (M.change \/ events = 0) /\ RecordPacket(v)
       \/ \E s \in M.sessions : FlowStart(s)
       \/ \E s \in M.sessions : FlowEnd(s) \/ Loss(s)
       \/ \E s \in M.sessions, f \in Frames, w \in M.what : BgpMessage(s, f, w, "p")
       \/ Boundary
       \/ Finish
       \/ OutputFails
       \/ WriteReceipt
       \/ \E name \in {"events", "journal", "receipt"}, l, r \in BOOLEAN : PublishFile(name, l, r)
       \/ ~M.damage /\ phase = "done" /\ ReplayJournal(JournalFile(journal))
       \/ M.damage /\ phase = "ended" /\ \E f \in DamagedFiles(JournalFile(journal), journal) : ReplayJournal(f)

SinkStart == Init /\ menu \in Menus
SinkIdle == Init /\ menu = CHOOSE m \in Menus : TRUE
PagesIdle ==
    /\ protocol = "modbus" /\ source = <<>> /\ parser = Paging!NewParser /\ reports = <<>>
    /\ pos = 0 /\ app = [phase |-> "idle", page |-> 0] /\ fed = [start |-> 0, fed |-> {}]
SegmentsIdle ==
    /\ session = "bacnet" /\ chains = <<>> /\ retained = 0 /\ ordinals = <<>>
    /\ frame = 0 /\ offered = <<>> /\ done = <<>>

MCInit ==
    \/ part = "sink" /\ SinkStart /\ PagesIdle /\ SegmentsIdle
    \/ part = "pages" /\ SinkIdle /\ ContinuationInit /\ SegmentsIdle
    \/ part = "segments" /\ SinkIdle /\ PagesIdle /\ SegmentsInit

MCNext ==
    /\ UNCHANGED part
    /\ \/ part = "sink" /\ SinkNext /\ UNCHANGED <<pageVars, segmentVars>>
       \/ part = "pages" /\ Paging!Next /\ UNCHANGED <<vars, menu, segmentVars>>
       \/ part = "segments" /\ SegmentsNext /\ UNCHANGED <<vars, menu, pageVars>>

MCSpec == MCInit /\ [][MCNext]_<<vars, menu, part, pageVars, segmentVars>>

\* Where the pages of a finished stream end makes no difference to what the
\* Parser of continuation.rs reports or keeps, and a cut leaves nothing behind.
PagesIrrelevant == Paging!PagesIrrelevant

\* What the Parser takes is reported, bounded or still held, the history
\* application says that it is complete only when its whole range is, and the
\* retention charged by the segments is what their chains hold.
NothingDropped == Paging!NothingDropped /\ BytesCharged
==============================================================================
