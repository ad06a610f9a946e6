------------------------------- MODULE MrtStore -------------------------------
(***************************************************************************)
(* The two sealed stores of an MRT source: PCBMRT01, written at once after *)
(* the whole archive was built (bgp_mrt_store.rs, bgp_mrt_store_io.rs),    *)
(* and PCBMRT02, written record by record and visited in two verifying     *)
(* passes (bgp_mrt_stream_store.rs, bgp_mrt_stream.rs).                    *)
(*                                                                         *)
(* A record is [class, peer]: a peer table with that many peers, a routing *)
(* record that names a peer, any other record of the table run, an         *)
(* unrelated one, or one that does not decode.  A digest is the sequence   *)
(* it was computed from.  A crash leaves a prefix of what was written and  *)
(* not yet synced; the files may change under a reader.                    *)
(***************************************************************************)
EXTENDS Integers, Sequences

CONSTANTS
    Sources,         \* the source files
    MaxRecordCount,  \* limits.records
    MaxSource,       \* limits.source_bytes, in records
    MaxChanges       \* changes of a file by others

Classes == {"peers", "rib", "series", "other", "bad", "none"}
RecordSet == [class : Classes, peer : Nat]

\* The sources hold records and the limits are numbers.
ASSUME StoreParameters ==
    /\ Sources \subseteq Seq(RecordSet)
    /\ MaxRecordCount \in Nat /\ MaxSource \in Nat /\ MaxChanges \in Nat

VARIABLES
    input,           \* the source file
    store,           \* the destination: [exists, cells, synced]
    writer,          \* [pc, length, at, table], and, as history,
                     \* the source when the store was sealed: taken
    visitor,         \* [pc, pos, seen, table, pit, rows, first]
    snapshot,        \* a PCBMRT01 replay: [pc, size, archive]
    changes

storeVars == <<input, store, writer, visitor, snapshot, changes>>

NoTable == 0
Series == {"peers", "rib", "series"}

\* The table in force after a record.
DecodeTable(table, raw, n) ==
    IF raw.class = "peers" THEN n ELSE IF raw.class \in Series THEN table ELSE NoTable

\* A routing record needs the table of its run and a peer in it.
Decodes(all, table, raw) ==
    /\ raw.class # "bad"
    /\ raw.class = "rib" => table # NoTable /\ raw.peer <= all[table].peer

\* The table in force at record n: the nearest peer table before it, when only
\* records of its run lie between.
TableOf(all, n) ==
    LET before == {i \in 1 .. (n - 1) : /\ all[i].class = "peers"
                                        /\ \A j \in (i + 1) .. (n - 1) : all[j].class \in {"rib", "series"}}
    IN  IF before = {} THEN NoTable ELSE CHOOSE i \in before : TRUE

Parsed(all) == \A n \in DOMAIN all : Decodes(all, TableOf(all, n), all[n])

(***************************************************************************)
(* Cells of a stored file.                                                 *)
(***************************************************************************)
NoRaw == [class |-> "none", peer |-> 0]
Cell(tag, n, raw, digest) == [tag |-> tag, n |-> n, raw |-> raw, digest |-> digest]
Header(length) == Cell("header", length, NoRaw, <<>>)
Frame(n, raw, before) == Cell("record", n, raw, Append(before, raw))
Terminal(all) == Cell("terminal", Len(all), NoRaw, all)
Plain(raw) == Cell("plain", 0, raw, <<>>)

\* A sealed file: the header, a cell for each record and the terminal.
Sealed(all, cells) ==
    [i \in 1 .. (Len(all) + 2) |->
        IF i = 1 THEN Header(Len(all)) ELSE IF i = Len(all) + 2 THEN Terminal(all) ELSE cells[i - 1]]
Sealed02(all) == Sealed(all, [i \in DOMAIN all |-> Frame(i, all[i], SubSeq(all, 1, i - 1))])
Sealed01(all) == Sealed(all, [i \in DOMAIN all |-> Plain(all[i])])

NoStore == [exists |-> FALSE, cells |-> <<>>, synced |-> FALSE]
\* The name belongs to another file, which is no archive.
Taken == [NoStore EXCEPT !.exists = TRUE]
NoWriter == [pc |-> "idle", length |-> 0, at |-> 0, table |-> NoTable,
             taken |-> <<>>]
NewPass(pc, first) ==
    [pc |-> pc, pos |-> 0, length |-> 0, seen |-> <<>>, table |-> NoTable, pit |-> NoTable,
     rows |-> <<>>, first |-> first]
NoSnapshot == [pc |-> "idle", size |-> 0, archive |-> <<>>]

StoreInit ==
    /\ input \in Sources
    /\ store \in {NoStore, Taken}
    /\ writer = NoWriter
    /\ visitor = NewPass("idle", <<>>)
    /\ snapshot = NoSnapshot
    /\ changes = 0

Written == [i \in 1 .. writer.at |-> store.cells[i + 1].raw]

Admitted(length) == length \in 1 .. MaxSource

(***************************************************************************)
(* PCBMRT02: writing.  The length is fixed when the source is opened; the  *)
(* destination is created new and a failure leaves it as it is.            *)
(***************************************************************************)
WriteStreamOpen ==
    /\ writer.pc = "idle"
    /\ IF Admitted(Len(input)) /\ ~store.exists
       THEN /\ store' = [exists |-> TRUE, cells |-> <<Header(Len(input))>>, synced |-> FALSE]
            /\ writer' = [writer EXCEPT !.pc = "records", !.length = Len(input)]
       ELSE writer' = [writer EXCEPT !.pc = "failed"] /\ UNCHANGED store
    /\ UNCHANGED <<input, visitor, snapshot, changes>>

WriteStreamRecord ==
    /\ writer.pc = "records"
    /\ writer.at < writer.length
    /\ LET n == writer.at + 1
       IN  IF /\ writer.at < MaxRecordCount
              /\ n <= Len(input)
              /\ Decodes(Append(Written, input[n]), writer.table, input[n])
           THEN /\ store' = [store EXCEPT !.cells = Append(@, Frame(n, input[n], Written))]
                /\ writer' = [writer EXCEPT !.at = n,
                                            !.table = DecodeTable(@, input[n], n)]
           ELSE writer' = [writer EXCEPT !.pc = "failed"] /\ UNCHANGED store
    /\ UNCHANGED <<input, visitor, snapshot, changes>>

WriteStreamSeal ==
    /\ writer.pc = "records"
    /\ writer.at = writer.length
    /\ IF Len(input) > writer.length
       THEN writer' = [writer EXCEPT !.pc = "failed"] /\ UNCHANGED store
       ELSE /\ store' = [store EXCEPT !.cells = Append(@, Terminal(Written))]
            /\ writer' = [writer EXCEPT !.pc = "sealed", !.taken = input]
    /\ UNCHANGED <<input, visitor, snapshot, changes>>

WriteSync ==
    /\ writer.pc = "sealed"
    /\ store' = [store EXCEPT !.synced = TRUE]
    /\ writer' = [writer EXCEPT !.pc = "done"]
    /\ UNCHANGED <<input, visitor, snapshot, changes>>

(***************************************************************************)
(* PCBMRT01: the file is created only after the archive was built.         *)
(***************************************************************************)
CreateStore ==
    /\ writer.pc = "idle"
    /\ IF Admitted(Len(input)) /\ Parsed(input)
       THEN IF store.exists THEN writer' = [writer EXCEPT !.pc = "failed"] /\ UNCHANGED store
            ELSE /\ store' = [exists |-> TRUE, cells |-> Sealed01(input), synced |-> FALSE]
                 /\ writer' = [writer EXCEPT !.pc = "sealed", !.length = Len(input),
                                                !.taken = input]
       ELSE writer' = [writer EXCEPT !.pc = "rejected"] /\ UNCHANGED store
    /\ UNCHANGED <<input, visitor, snapshot, changes>>

\* A crash, or an I/O error of the writer, before the file is durable.
WriterStops ==
    /\ writer.pc \in {"records", "sealed"}
    /\ \E n \in 0 .. Len(store.cells) : store' = [store EXCEPT !.cells = SubSeq(@, 1, n)]
    /\ writer' = [writer EXCEPT !.pc = "failed"]
    /\ UNCHANGED <<input, visitor, snapshot, changes>>

(***************************************************************************)
(* PCBMRT02: two passes of the same scan over one open file.               *)
(***************************************************************************)
Fail(v) == [v EXCEPT !.pc = "failed"]

Opened(v, cell) ==
    IF cell.tag = "header" /\ Admitted(cell.n)
    THEN [v EXCEPT !.pos = 1, !.length = cell.n] ELSE Fail(v)

NextPit(v, raw, n) ==
    IF raw.class = "peers" THEN n ELSE IF raw.class \in Series THEN v.pit ELSE NoTable

Row(n, raw, pit) == [n |-> n, raw |-> raw, pit |-> IF raw.class = "rib" THEN pit ELSE NoTable]

ScanRecord(v, cell) ==
    LET n == Len(v.seen) + 1
        seen == Append(v.seen, cell.raw)
    IN  IF /\ cell.tag = "record"
           /\ cell.n = n /\ n <= MaxRecordCount /\ n <= v.length
           /\ cell.digest = seen
           /\ Decodes(seen, v.table, cell.raw)
        THEN [v EXCEPT
                !.pos = @ + 1, !.seen = seen, !.table = DecodeTable(@, cell.raw, n),
                !.pit = NextPit(v, cell.raw, n),
                !.rows = IF v.pc = "second" THEN Append(@, Row(n, cell.raw, NextPit(v, cell.raw, n)))
                         ELSE @]
        ELSE Fail(v)

TerminalMatches(v, cell, rest) ==
    /\ cell = Terminal(v.seen)
    /\ v.seen # <<>>
    /\ Len(v.seen) = v.length
    /\ rest = v.pos + 1

\* Mutant of EndPass: the receipts of the two passes are not compared.
EndPassOnce(v) == IF v.pc = "first" THEN NewPass("second", v.seen) ELSE [v EXCEPT !.pc = "done"]

EndPass(v) ==
    IF v.pc = "first" THEN NewPass("second", v.seen)
    ELSE IF v.seen = v.first THEN [v EXCEPT !.pc = "done"] ELSE Fail(v)

ScanCell(v, cells) ==
    IF v.pos >= Len(cells) THEN Fail(v)
    ELSE IF v.pos = 0 THEN Opened(v, cells[1])
    ELSE IF cells[v.pos + 1].tag = "terminal"
    THEN IF TerminalMatches(v, cells[v.pos + 1], Len(cells)) THEN EndPass(v) ELSE Fail(v)
    ELSE ScanRecord(v, cells[v.pos + 1])

VisitOpen ==
    /\ visitor.pc = "idle"
    /\ store.exists
    /\ visitor' = NewPass("first", <<>>)
    /\ UNCHANGED <<input, store, writer, snapshot, changes>>

VisitStep ==
    /\ visitor.pc \in {"first", "second"}
    /\ visitor' = ScanCell(visitor, store.cells)
    /\ UNCHANGED <<input, store, writer, snapshot, changes>>

(***************************************************************************)
(* PCBMRT01: a snapshot of the admitted size, and nothing beyond it.       *)
(***************************************************************************)
ReplayOpen ==
    /\ snapshot.pc = "idle"
    /\ store.exists
    /\ snapshot' = [snapshot EXCEPT !.pc = "sized", !.size = Len(store.cells)]
    /\ UNCHANGED <<input, store, writer, visitor, changes>>

Body(cells) == [i \in 1 .. (Len(cells) - 2) |-> cells[i + 1].raw]

SnapshotSound(cells) ==
    /\ Len(cells) >= 3
    /\ cells = Sealed01(Body(cells))
    /\ Parsed(Body(cells))

ReplayRead ==
    /\ snapshot.pc = "sized"
    /\ snapshot' = IF Len(store.cells) = snapshot.size /\ SnapshotSound(store.cells)
                   THEN [snapshot EXCEPT !.pc = "done", !.archive = Body(store.cells)]
                   ELSE [snapshot EXCEPT !.pc = "failed"]
    /\ UNCHANGED <<input, store, writer, visitor, changes>>

(***************************************************************************)
(* Changes by others: the source grows or shrinks; the store is cut, grows *)
(* or is overwritten in place by another sealed store.                     *)
(***************************************************************************)
SourceChanges ==
    /\ changes < MaxChanges
    /\ \/ \E s \in Sources : Len(s) > 0 /\ input' = Append(input, s[1])
       \/ input # <<>> /\ input' = SubSeq(input, 1, Len(input) - 1)
    /\ changes' = changes + 1
    /\ UNCHANGED <<store, writer, visitor, snapshot>>

StoreChanges ==
    /\ changes < MaxChanges
    /\ store.exists
    /\ writer.pc \in {"done", "failed"}
    /\ \/ \E s \in Sources : store' = [store EXCEPT !.cells = Sealed02(s)]
       \/ \E n \in 0 .. (Len(store.cells) - 1) : store' = [store EXCEPT !.cells = SubSeq(@, 1, n)]
       \/ \E i \in DOMAIN store.cells : store' = [store EXCEPT !.cells = Append(@, store.cells[i])]
    /\ changes' = changes + 1
    /\ UNCHANGED <<input, writer, visitor, snapshot>>

StoreNext ==
    \/ WriteStreamOpen \/ WriteStreamRecord \/ WriteStreamSeal \/ WriteSync
    \/ CreateStore \/ WriterStops
    \/ VisitOpen \/ VisitStep
    \/ ReplayOpen \/ ReplayRead
    \/ SourceChanges \/ StoreChanges

StoreSpec == StoreInit /\ [][StoreNext]_storeVars

(***************************************************************************)
(* Properties.                                                             *)
(***************************************************************************)
RowsOf(all) ==
    [n \in DOMAIN all |->
        [n |-> n, raw |-> all[n], pit |-> IF all[n].class = "rib" THEN TableOf(all, n) ELSE NoTable]]

\* A visit that returns its receipt has emitted exactly the rows of the one
\* complete source that both of its passes verified, every routing record
\* attributed to the peer table of its own run, however the file changed
\* between and during the passes (bgp_mrt_stream.rs visit_verified).
VisitHonest ==
    visitor.pc = "done" =>
        /\ visitor.rows = RowsOf(visitor.first)
        /\ Parsed(visitor.first)
        /\ Len(visitor.first) = visitor.length

\* A writer that reports success has stored no less than the source held when
\* it was sealed.  A file cut short by a crash, or one that grew or shrank under
\* the reader, never replays as an archive: only the source that was written
\* does.  A source that does not parse has no PCBMRT01 file written for it.
StoreHonest ==
    /\ writer.pc = "sealed" =>
        \E all \in {Body(store.cells)} :
            /\ Parsed(all)
            /\ store.cells \in {Sealed01(all), Sealed02(all)}
            /\ Len(writer.taken) <= Len(all)
    /\ snapshot.pc = "done" => snapshot.archive = writer.taken /\ Parsed(snapshot.archive)
    /\ writer.pc = "rejected" => store \in {NoStore, Taken}

\* However the source changes under its readers and wherever a writer is cut
\* short, a visit that succeeds emitted the rows of one complete source, and an
\* archive that replays is the source that was written (bgp_mrt_stream.rs
\* visit_verified, bgp_mrt_stream_store.rs, bgp_mrt_store.rs).
ArchiveHonest == VisitHonest /\ StoreHonest
==============================================================================
