------------------------------ MODULE History -------------------------------
(* A history workspace: the journal on disk (history/src/journal.rs) and the  *)
(* commands that write, verify and recover it (history/src/pipeline.rs).      *)
EXTENDS Naturals, Sequences, SequencesExt, FiniteSets, TLC

(* history/src/journal.rs: the append-only, hash-chained journal of a history *)
(* workspace, as pure operators on the bytes of journal.bin.                  *)
(*                                                                            *)
(* The file is a sequence of cells.  A header is one cell; a record is four:  *)
(* the first byte of its length, the other three, the payload (kind, ordinal, *)
(* body) and the digest.  Those are the places where a reader can tell apart  *)
(* how far a torn record goes.  A digest is the whole chain of payloads it    *)
(* was computed over, so two digests are equal only if the chains are.        *)
CONSTANTS
    MaxRecords,   \* config.max_records
    MaxDisk,      \* config.max_disk_bytes, in cells
    BufferCells   \* capacity of the BufWriter, in cells

ASSUME JournalAssumption ==
    /\ MaxRecords \in Nat \ {0}
    /\ MaxDisk \in Nat
    /\ BufferCells \in Nat \ {0}

Kinds == {"PACKET", "TCP", "NOTICE", "CHECKPOINT", "ABORT", "SEAL"}
Terminal == {"ABORT", "SEAL"}

(* Mutant of Synced: a seal is not flushed. *)
SyncedWithoutSeal == {"CHECKPOINT", "ABORT"}

(* The kinds that are flushed and fsynced before append returns. *)
Synced == {"CHECKPOINT", "ABORT", "SEAL"}

(* A block that the file system extended the file over and lost. *)
Zero == [part |-> "zero"]

HeaderCells(source) == << [part |-> "header", source |-> source] >>
HeaderDigest(source) == << source >>

Payload(kind, seq, body) == [kind |-> kind, sequence |-> seq, body |-> body]

RecordCells(previous, payload) ==
    << [part |-> "first"],
       [part |-> "rest"],
       [part |-> "payload", payload |-> payload],
       [part |-> "digest", digest |-> Append(previous, payload)] >>

(* What a record is charged, the bytes of its three parts. *)
RecordSize == 4

------------------------------------------------------------------------------
(* Writer: the in-memory half of journal.bin.                                 *)

NewWriter(source) ==
    [count |-> 0, previous |-> HeaderDigest(source), buffer |-> << >>,
     poisoned |-> FALSE, terminal |-> FALSE]

(* What keeps write_record from writing at all. *)
Refused(w, used) ==
    \/ w.poisoned
    \/ w.terminal
    \/ w.count >= MaxRecords
    \/ used + RecordSize > MaxDisk

(* A refused append poisons the writer, except that one that was already      *)
(* poisoned or terminal is left as it was.                                    *)
Refuse(w) == IF w.terminal THEN w ELSE [w EXCEPT !.poisoned = TRUE]

(* BufWriter::write_all of one piece: kept if it fits, otherwise the buffer   *)
(* goes to the file first, and a piece larger than the buffer follows it.     *)
(* `io` is the pair of file and buffer.                                       *)
Buffered(io, cells) ==
    IF Len(io.buffer) + Len(cells) <= BufferCells
    THEN [io EXCEPT !.buffer = @ \o cells]
    ELSE IF Len(cells) >= BufferCells
    THEN [file |-> io.file \o io.buffer \o cells, buffer |-> << >>]
    ELSE [file |-> io.file \o io.buffer, buffer |-> cells]

Flushed(io) == [file |-> io.file \o io.buffer, buffer |-> << >>]

(* The three write_all calls of one record, and the flush of a record that    *)
(* must reach the disk.                                                       *)
Written(io, kind, cells) ==
    LET all == FoldLeft(Buffered, io,
                        << SubSeq(cells, 1, 2), SubSeq(cells, 3, 3), SubSeq(cells, 4, 4) >>)
    IN  IF kind \in Synced THEN Flushed(all) ELSE all

(* What a write can leave behind when it fails: the writes of `cells` get     *)
(* somewhere, then a flush of the buffer stops after some prefix of it and    *)
(* the rest of the buffer stays where it was.                                 *)
FailedWrites(io, kind, cells) ==
    LET pieces == << SubSeq(cells, 1, 2), SubSeq(cells, 3, 3), SubSeq(cells, 4, 4) >>
        after(n) == FoldLeft(Buffered, io, SubSeq(pieces, 1, n))
        flushing(n) == \/ n < 3 /\ Len(after(n).buffer) + Len(pieces[n + 1]) > BufferCells
                       \/ n = 3 /\ kind \in Synced
    IN  UNION { { [file |-> after(n).file \o SubSeq(after(n).buffer, 1, k),
                   buffer |-> SubSeq(after(n).buffer, k + 1, Len(after(n).buffer))] :
                     k \in 0 .. Len(after(n).buffer) } :
                n \in { m \in 0 .. 3 : flushing(m) } }

(* append's effect on the writer once write_record has written the record.    *)
Appended(w, kind, body, io) ==
    LET payload == Payload(kind, w.count + 1, body)
    IN  [w EXCEPT !.count = @ + 1,
                  !.previous = Append(@, payload),
                  !.buffer = io.buffer]

------------------------------------------------------------------------------
(* Reader.                                                                    *)

(* Reader::open; the reader starts behind the header. *)
Opened(file) ==
    [position |-> 1, count |-> 0,
     previous |-> HeaderDigest(file[1].source),
     sealed |-> FALSE, aborted |-> FALSE, status |-> "more", records |-> << >>]

CanOpen(file) == file # << >> /\ file[1].part = "header"

Stop(r, status) == [r EXCEPT !.status = status]

(* read_record: one step of the reader over `file`.  An error ends it.        *)
ReadRecord(file, r) ==
    LET rest == SubSeq(file, r.position + 1, Len(file))
    IN  IF r.status # "more" THEN r
        ELSE IF rest = << >> THEN Stop(r, "end")
        ELSE IF r.sealed \/ r.aborted THEN Stop(r, "corrupt")
        ELSE IF Len(rest) < 2 THEN Stop(r, "truncated")
        ELSE IF rest[1].part # "first" \/ r.count >= MaxRecords THEN Stop(r, "corrupt")
        ELSE IF Len(rest) < 4 THEN Stop(r, "truncated")
        ELSE IF \/ rest[3].part # "payload"
                \/ rest[4].part # "digest"
             THEN Stop(r, "corrupt")
        ELSE IF \/ rest[4].digest # Append(r.previous, rest[3].payload)
                \/ rest[3].payload.sequence # r.count + 1
             THEN Stop(r, "corrupt")
        ELSE [r EXCEPT !.position = @ + 4,
                       !.count = @ + 1,
                       !.previous = rest[4].digest,
                       !.sealed = rest[3].payload.kind = "SEAL",
                       !.aborted = rest[3].payload.kind = "ABORT",
                       !.records = Append(@, rest[3].payload)]

(* The reader run to its end. *)
ReadAll(file) ==
    LET after[n \in 0 .. Len(file)] ==
            IF n = 0 THEN Opened(file) ELSE ReadRecord(file, after[n - 1])
    IN  after[Len(file)]

------------------------------------------------------------------------------
(* history/src/pipeline.rs on top of history/src/journal.rs: `build`,         *)
(* `verify` and `recover` of a history workspace, one command at a time, with *)
(* I/O faults, cancellation, a capture that changes underneath, and crashes.  *)
(*                                                                            *)
(* A capture is a sequence of packets.  What Pipeline::layers journals for a  *)
(* packet is a function of the capture, given with the packet: the records    *)
(* it appends, in order.  A packet with none is a fragment still waiting at   *)
(* the end of the capture, for which flush_fragments appends a notice.        *)
CONSTANTS
    Captures,          \* the contents the source file may have
    Workspaces,        \* paths a command may name
    CheckpointRecords, \* config.checkpoint_records
    CommandBound,      \* how many commands are run
    TroubleBound       \* how many faults, crashes, edits and cancellations happen

ASSUME HistoryAssumption ==
    /\ CheckpointRecords \in Nat \ {0}
    /\ \A c \in Captures : \A i \in DOMAIN c :
           c[i].damaged \in BOOLEAN /\ c[i].effects \in Seq({"TCP", "NOTICE"})
    /\ {CommandBound, TroubleBound} \subseteq Nat

VARIABLES
    source,   \* the capture as it is now
    ws,       \* the workspaces on disk
    job,      \* the running command
    writer,   \* its journal Writer
    cancel,   \* the Cancellation flag of the running command
    used,     \* DiskBudget.used of the running command
    promised, \* records the last successful fsync of each journal covered
    sealedOk, \* workspaces for which a command has returned success
    retried,  \* workspaces whose buffer was flushed again after a failed write
    faults, crashes, edits, commands, cancels

vars == << source, ws, job, writer, cancel, used, promised, sealedOk, retried,
           faults, crashes, edits, commands, cancels >>

bounds == << faults, crashes, edits, commands, cancels >>
Trouble == faults + crashes + edits + cancels < TroubleBound
ghosts == << promised, sealedOk, retried >>

(* Nothing at a path yet.  journal.bin, packets.idx, ranges.idx: the cells of *)
(* the first with the number that is on disk for certain, the rows of the     *)
(* second likewise, and the third, which appears by rename already synced.    *)
NoWorkspace ==
    [made |-> FALSE, entries |-> FALSE, journal |-> << >>, jsync |-> 0,
     packets |-> << >>, psync |-> 0, indexed |-> FALSE, ranges |-> {}]

Idle ==
    [pc |-> "idle", mode |-> "build", w |-> "none", old |-> "none", prefix |-> 0,
     identity |-> << >>, consumed |-> << >>, todo |-> << >>, tail |-> FALSE,
     placements |-> {}, tcp |-> 0, notices |-> 0, next |-> "read", result |-> "none"]

Init ==
    /\ source \in Captures
    /\ ws = [w \in Workspaces |-> NoWorkspace]
    /\ job = Idle
    /\ writer = NewWriter(<< >>)
    /\ cancel = FALSE
    /\ used = 0
    /\ promised = [w \in Workspaces |-> 0]
    /\ sealedOk = {}
    /\ retried = {}
    /\ faults = 0 /\ crashes = 0 /\ edits = 0 /\ commands = 0 /\ cancels = 0

------------------------------------------------------------------------------
(* What the records say.                                                      *)

PacketRow(i, p) == [frame |-> i, packet |-> p]

(* The records of packet i, from p.journal.append(PACKET) to the checkpoint.  *)
Records(i, p) ==
    << [kind |-> "PACKET", body |-> PacketRow(i, p)] >>
    \o [k \in DOMAIN p.effects |-> [kind |-> p.effects[k], body |-> << i, k >>]]
    \o (IF i % CheckpointRecords = 0
        THEN << [kind |-> "CHECKPOINT", body |-> i] >> ELSE << >>)

(* flush_fragments at the end of the capture. *)
Leftover(c) ==
    LET waiting == SelectSeq([i \in DOMAIN c |-> [frame |-> i, packet |-> c[i]]],
                             LAMBDA row : row.packet.effects = << >>)
    IN  [k \in DOMAIN waiting |-> [kind |-> "NOTICE", body |-> waiting[k].frame]]

SealBody(packets, tcp, notices, ranges) ==
    [packets |-> packets, tcp |-> tcp, notices |-> notices, ranges |-> ranges]

------------------------------------------------------------------------------
(* Outcomes shared by the steps.                                              *)

Io == [file |-> ws[job.w].journal, buffer |-> writer.buffer]

Fault == Trouble /\ faults' = faults + 1

(* `?` inside the closure of analyze_file: go on to append ABORT. *)
Fail(reason) == job' = [job EXCEPT !.pc = "abort", !.result = reason, !.todo = << >>]

(* `?` outside of it: return at once, dropping the pipeline. *)
Return(reason) == job' = [job EXCEPT !.pc = "drop", !.result = reason]

SetJournal(w, file) == ws' = [ws EXCEPT ![w].journal = file]

(* Writer::append of one record, with `ok` the job when it returns Ok and     *)
(* `failed` the job when it returns an error.  A record of a kind in Synced   *)
(* has been flushed and now waits for its fsync.                              *)
AppendRecord(kind, body, ok, failed) ==
    LET cells == RecordCells(writer.previous, Payload(kind, writer.count + 1, body))
    IN  \/ /\ Refused(writer, used)
           /\ writer' = Refuse(writer)
           /\ job' = failed
           /\ UNCHANGED << ws, used, faults >>
        \/ /\ ~Refused(writer, used)
           /\ used' = used + RecordSize
           /\ LET io == Written(Io, kind, cells)
              IN  /\ writer' = Appended(writer, kind, body, io)
                  /\ SetJournal(job.w, io.file)
           /\ job' = IF kind \in Synced THEN [ok EXCEPT !.next = ok.pc, !.pc = "sync"] ELSE ok
           /\ UNCHANGED faults
        \/ /\ ~Refused(writer, used)
           /\ Fault
           /\ used' = used + RecordSize
           /\ \E io \in FailedWrites(Io, kind, cells) :
                /\ writer' = [writer EXCEPT !.buffer = io.buffer, !.poisoned = TRUE]
                /\ SetJournal(job.w, io.file)
           /\ job' = failed

------------------------------------------------------------------------------
(* Commands.                                                                  *)

CanStart == job.pc = "idle" /\ commands < CommandBound

(* analyze_file up to new_workspace: the identity of the source is taken. *)
Started(mode, w, old, prefix) ==
    [Idle EXCEPT !.pc = "make", !.mode = mode, !.w = w, !.old = old, !.prefix = prefix,
                 !.identity = source]

Build(w) ==
    /\ CanStart
    /\ commands' = commands + 1
    /\ job' = Started("build", w, w, 0)
    /\ UNCHANGED << source, ws, writer, cancel, used, ghosts, faults, crashes, edits, cancels >>

(* The cells of the replay prefix: everything the reader accepted but the     *)
(* terminal record.                                                           *)
ReplayPrefix(r) == IF r.sealed \/ r.aborted THEN r.position - 4 ELSE r.position

(* recover_file up to its call of analyze_file. *)
Recover(old, w, allowTornTail) ==
    LET file == ws[old].journal
        r == ReadAll(file)
    IN  /\ CanStart
        /\ commands' = commands + 1
        /\ CanOpen(file)
        /\ \/ r.status = "end"
           \/ allowTornTail /\ r.status = "truncated"
        /\ source = file[1].source
        /\ job' = Started("recover", w, old, ReplayPrefix(r))
        /\ UNCHANGED << source, ws, writer, cancel, used, ghosts, faults, crashes, edits, cancels >>

(* verify_file up to its call of analyze_file. *)
Verify(old, w) ==
    LET r == ReadAll(ws[old].journal)
    IN  /\ CanStart
        /\ commands' = commands + 1
        /\ CanOpen(ws[old].journal)
        /\ r.status = "end" /\ r.sealed
        /\ job' = Started("verify", w, old, 0)
        /\ UNCHANGED << source, ws, writer, cancel, used, ghosts, faults, crashes, edits, cancels >>

(* new_workspace, Writer::create and the other files.  A fault leaves the     *)
(* directory with a journal that holds its header or nothing.                 *)
MakeWorkspace ==
    /\ job.pc = "make"
    /\ \/ /\ cancel \/ ws[job.w].made
          /\ job' = [job EXCEPT !.pc = "done",
                                !.result = IF cancel THEN "cancelled" ELSE "exists"]
          /\ UNCHANGED << ws, writer, used, faults, promised >>
       \/ /\ ~cancel /\ ~ws[job.w].made
          /\ MaxDisk >= 1
          /\ job' = [job EXCEPT !.pc = "read"]
          /\ ws' = [ws EXCEPT ![job.w] = [NoWorkspace EXCEPT
                        !.made = TRUE, !.journal = HeaderCells(job.identity), !.jsync = 1]]
          /\ writer' = NewWriter(job.identity)
          /\ used' = 1
          /\ UNCHANGED << faults, promised >>
       \/ /\ ~cancel /\ ~ws[job.w].made
          /\ Fault
          /\ job' = [job EXCEPT !.pc = "done", !.result = "io"]
          /\ \E file \in { << >>, HeaderCells(job.identity) } :
                ws' = [ws EXCEPT ![job.w] = [NoWorkspace EXCEPT !.made = TRUE, !.journal = file]]
          /\ UNCHANGED << writer, used, promised >>
    /\ UNCHANGED << source, cancel, sealedOk, retried, crashes, edits, commands, cancels >>

(* Mutant of SourceUnchanged: the lengths decide. *)
SameByteCount == Len(job.consumed) = Len(job.identity)

(* The bytes the analysis pass read are the ones the first pass hashed. *)
SourceUnchanged == job.consumed = job.identity

(* One turn of the loop over reader.next_record(): the packet's row goes to   *)
(* packets.idx and its records are due.  At the end of the capture the bytes  *)
(* that were read must be the ones that were hashed.                          *)
ReadPacket ==
    LET i == Len(job.consumed) + 1
        row == PacketRow(i, source[i])
    IN  /\ job.pc = "read"
        /\ \/ /\ i > Len(source)
              /\ IF SourceUnchanged
                 THEN job' = [job EXCEPT !.pc = "append", !.tail = TRUE,
                                         !.todo = Leftover(job.consumed)]
                 ELSE Fail("source_changed")
              /\ UNCHANGED << ws, used >>
           \/ /\ i <= Len(source)
              /\ cancel \/ source[i].damaged \/ used + 1 > MaxDisk
              /\ Fail("error")
              /\ UNCHANGED << ws, used >>
           \/ /\ i <= Len(source)
              /\ ~cancel /\ ~source[i].damaged /\ used + 1 <= MaxDisk
              /\ used' = used + 1
              /\ ws' = [ws EXCEPT ![job.w].packets = Append(@, row)]
              /\ job' = [job EXCEPT !.pc = "append", !.todo = Records(i, source[i]),
                                    !.consumed = Append(@, source[i])]
        /\ UNCHANGED << source, writer, cancel, ghosts, bounds >>

(* The next record of the packet, with the placement row of a TCP record.     *)
(* Before a checkpoint is journalled the two tables are synced.               *)
AppendNext ==
    LET r == Head(job.todo)
        rest == [job EXCEPT !.todo = Tail(@)]
        failed == [job EXCEPT !.pc = "abort", !.result = "error", !.todo = << >>]
    IN  /\ job.pc = "append" /\ job.todo # << >>
        /\ \/ /\ cancel /\ r.kind \in {"TCP", "NOTICE"} /\ ~job.tail
              /\ job' = failed
              /\ UNCHANGED << ws, writer, used, faults >>
           \/ /\ r.kind # "TCP" /\ r.kind # "CHECKPOINT"
              /\ AppendRecord(r.kind, r.body,
                              [rest EXCEPT !.notices = @ + (IF r.kind = "NOTICE" THEN 1 ELSE 0)],
                              failed)
           \/ /\ r.kind = "TCP"
              /\ AppendRecord("TCP", r.body,
                              [rest EXCEPT !.tcp = @ + 1, !.pc = "place"], failed)
           \/ /\ r.kind = "CHECKPOINT"
              /\ ws[job.w].psync = Len(ws[job.w].packets)
              /\ AppendRecord("CHECKPOINT", r.body, rest, failed)
        /\ UNCHANGED << source, cancel, ghosts, crashes, edits, commands, cancels >>

(* p.table.sync_all before a checkpoint and at the end of the capture. *)
SyncTables ==
    /\ job.pc = "append"
    /\ ws[job.w].psync < Len(ws[job.w].packets)
    /\ \/ job.todo # << >> /\ Head(job.todo).kind = "CHECKPOINT"
       \/ job.todo = << >> /\ job.tail
    /\ \/ /\ ws' = [ws EXCEPT ![job.w].psync = Len(ws[job.w].packets)]
          /\ UNCHANGED << job, faults >>
       \/ Fault /\ Fail("io") /\ UNCHANGED ws
    /\ UNCHANGED << source, writer, cancel, used, ghosts, crashes, edits, commands, cancels >>

(* index::append of the placement of the TCP record just journalled. *)
Place ==
    /\ job.pc = "place"
    /\ \/ /\ used + 1 <= MaxDisk
          /\ used' = used + 1
          /\ job' = [job EXCEPT !.pc = "append", !.placements = @ \cup {writer.count}]
       \/ /\ used + 1 > MaxDisk
          /\ Fail("error")
          /\ UNCHANGED used
    /\ UNCHANGED << source, ws, writer, cancel, ghosts, bounds >>

(* All the records of the packet, or of the tail, are journalled. *)
NextPacket ==
    /\ job.pc = "append" /\ job.todo = << >>
    /\ job.tail => ws[job.w].psync = Len(ws[job.w].packets)
    /\ job' = [job EXCEPT !.pc = IF job.tail THEN "sort" ELSE "read"]
    /\ UNCHANGED << source, ws, writer, cancel, used, ghosts, bounds >>

(* The fsync of a CHECKPOINT, ABORT or SEAL. *)
Sync ==
    LET last == Last(writer.previous)
    IN  /\ job.pc = "sync"
        /\ \/ /\ ws' = [ws EXCEPT ![job.w].jsync = Len(ws[job.w].journal)]
              /\ promised' = [promised EXCEPT ![job.w] = writer.count]
              /\ writer' = [writer EXCEPT !.terminal = last.kind \in Terminal]
              /\ job' = [job EXCEPT !.pc = job.next]
              /\ UNCHANGED faults
           \/ /\ Fault
              /\ writer' = [writer EXCEPT !.poisoned = TRUE]
              /\ IF last.kind = "CHECKPOINT" THEN Fail("io") 
                 ELSE Return(IF last.kind = "ABORT" THEN job.result ELSE "io")
              /\ UNCHANGED << ws, promised >>
        /\ UNCHANGED << source, cancel, used, sealedOk, retried,
                        crashes, edits, commands, cancels >>

(* `let _ = p.journal.append(ABORT)`: its own failure is ignored. *)
Abort ==
    /\ job.pc = "abort"
    /\ LET over == [job EXCEPT !.pc = "drop"]
       IN  AppendRecord("ABORT", job.result, over, over)
    /\ UNCHANGED << source, cancel, ghosts, crashes, edits, commands, cancels >>

(* index::sort_checked and the two hashes.  The sorted rows are charged while *)
(* placements.raw still is, and that is then released.                        *)
SortIndex ==
    LET n == Cardinality(job.placements)
    IN  /\ job.pc = "sort"
        /\ \/ /\ ~cancel /\ used + n <= MaxDisk
              /\ ws' = [ws EXCEPT ![job.w].indexed = TRUE, ![job.w].ranges = job.placements]
              /\ job' = [job EXCEPT !.pc = "seal"]
              /\ UNCHANGED faults
           \/ /\ cancel \/ used + n > MaxDisk
              /\ Return("error")
              /\ UNCHANGED << ws, faults >>
           \/ Fault /\ Return("io") /\ UNCHANGED ws
        /\ UNCHANGED << source, writer, cancel, used, ghosts, crashes, edits, commands, cancels >>

Seal ==
    /\ job.pc = "seal"
    /\ AppendRecord("SEAL",
           SealBody(ws[job.w].packets, job.tcp, job.notices, ws[job.w].ranges),
           [job EXCEPT !.pc = "syncdir"],
           [job EXCEPT !.pc = "drop", !.result = "error"])
    /\ UNCHANGED << source, cancel, ghosts, crashes, edits, commands, cancels >>

(* sync_directory; then the summary says sealed. *)
SyncDirectory ==
    /\ job.pc = "syncdir"
    /\ \/ /\ ws' = [ws EXCEPT ![job.w].entries = TRUE]
          /\ Return("ok")
          /\ sealedOk' = sealedOk \cup {job.w}
          /\ UNCHANGED faults
       \/ Fault /\ Return("io") /\ UNCHANGED << ws, sealedOk >>
    /\ UNCHANGED << source, writer, cancel, used, promised, retried,
                    crashes, edits, commands, cancels >>

(* The pipeline is dropped, and with it the BufWriter, whose drop tries once  *)
(* more to flush what it still holds and ignores the outcome.                 *)
Drop ==
    /\ job.pc = "drop"
    /\ \E k \in 0 .. Len(writer.buffer) :
          /\ SetJournal(job.w, ws[job.w].journal \o SubSeq(writer.buffer, 1, k))
          /\ IF k < Len(writer.buffer) THEN Fault ELSE UNCHANGED faults
          /\ retried' = IF writer.poisoned /\ k > 0 THEN retried \cup {job.w} ELSE retried
    /\ writer' = [writer EXCEPT !.buffer = << >>]
    /\ job' = [job EXCEPT !.pc = IF job.result = "ok" /\ job.mode # "build"
                                 THEN "compare" ELSE "done"]
    /\ UNCHANGED << source, cancel, used, promised, sealedOk,
                    crashes, edits, commands, cancels >>

(* Mutant of SamePrefix: the lengths decide. *)
SameExtent(old, new, prefix) == Len(ws[new].journal) >= prefix

(* The end of recover_file and of verify_file. *)
SamePrefix(old, new, prefix) ==
    SubSeq(ws[old].journal, 1, prefix) = SubSeq(ws[new].journal, 1, prefix)

SameProjection(old, new) ==
    /\ ws[old].journal = ws[new].journal
    /\ ws[old].indexed /\ ws[old].ranges = ws[new].ranges
    /\ ws[old].packets = ws[new].packets

Compare ==
    /\ job.pc = "compare"
    /\ \/ /\ job.mode = "verify" /\ cancel
          /\ job' = [job EXCEPT !.pc = "done", !.result = "cancelled"]
       \/ LET same == IF job.mode = "recover" THEN SamePrefix(job.old, job.w, job.prefix)
                      ELSE SameProjection(job.old, job.w)
          IN  /\ job.mode = "verify" => ~cancel
              /\ job' = [job EXCEPT !.pc = "done",
                                    !.result = IF same THEN "ok" ELSE "mismatch"]
    /\ UNCHANGED << source, ws, writer, cancel, used, ghosts, bounds >>

(* The process exits. *)
Exit ==
    /\ job.pc = "done"
    /\ job' = Idle
    /\ writer' = NewWriter(<< >>)
    /\ cancel' = FALSE
    /\ used' = 0
    /\ UNCHANGED << source, ws, ghosts, bounds >>

------------------------------------------------------------------------------
(* The environment.                                                           *)

Cancel ==
    /\ job.pc \notin {"idle", "done"} /\ ~cancel
    /\ Trouble /\ cancels' = cancels + 1
    /\ cancel' = TRUE
    /\ UNCHANGED << source, ws, job, writer, used, ghosts, faults, crashes, edits, commands >>

EditSource ==
    /\ Trouble /\ edits' = edits + 1
    /\ source' \in Captures \ {source}
    /\ UNCHANGED << ws, job, writer, cancel, used, ghosts, faults, crashes, commands, cancels >>

(* What of a workspace survives a crash: of each file what was synced and any *)
(* part of the rest, whose last blocks may read as zeros; an index that was   *)
(* renamed into a directory not yet synced may be gone again.                 *)
Tails(file, synced) ==
    { SubSeq(file, 1, k) : k \in synced .. Len(file) }

ZeroTails(file, synced) ==
    { SubSeq(file, 1, k) \o [i \in 1 .. (Len(file) - k) |-> Zero] :
        k \in { j \in synced .. Len(file) : j > 0 /\ j < Len(file) => file[j].part # "first" } }

Survivors(w) ==
    { [w EXCEPT !.journal = j, !.jsync = Len(j), !.packets = p, !.psync = Len(p),
                !.indexed = x, !.ranges = IF x THEN @ ELSE {}] :
        j \in Tails(w.journal, w.jsync) \cup ZeroTails(w.journal, w.jsync),
        p \in Tails(w.packets, w.psync),
        x \in IF w.entries THEN {w.indexed} ELSE {w.indexed, FALSE} }

Crash ==
    /\ Trouble /\ crashes' = crashes + 1
    /\ job.pc # "idle"
    /\ \E s \in Survivors(ws[job.w]),
          t \in IF job.old = job.w THEN {ws[job.old]} ELSE Survivors(ws[job.old]) :
          ws' = [ws EXCEPT ![job.old] = t, ![job.w] = s]
    /\ job' = Idle
    /\ writer' = NewWriter(<< >>)
    /\ cancel' = FALSE
    /\ used' = 0
    /\ UNCHANGED << source, promised, sealedOk, retried, faults, edits, commands, cancels >>

Next ==
    \/ \E w \in Workspaces : Build(w)
    \/ \E old, w \in Workspaces, allow \in BOOLEAN : Recover(old, w, allow)
    \/ \E old, w \in Workspaces : Verify(old, w)
    \/ MakeWorkspace \/ ReadPacket \/ AppendNext \/ SyncTables \/ Place \/ NextPacket
    \/ Sync \/ Abort \/ SortIndex \/ Seal \/ SyncDirectory \/ Drop \/ Compare \/ Exit
    \/ Cancel \/ EditSource \/ Crash

Spec == Init /\ [][Next]_vars

------------------------------------------------------------------------------
(* What a journal should hold, from the capture alone.                        *)

(* The payloads of every record before the seal, as journalled for capture c. *)
Canonical(c) ==
    LET plain == FlattenSeq([i \in DOMAIN c |-> Records(i, c[i])]) \o Leftover(c)
    IN  [n \in DOMAIN plain |-> Payload(plain[n].kind, n, plain[n].body)]

CanonicalRanges(c) ==
    { n \in DOMAIN Canonical(c) : Canonical(c)[n].kind = "TCP" }

(* History::open on w succeeds. *)
Opens(w) ==
    LET r == ReadAll(ws[w].journal)
        body == Last(r.records).body
    IN  /\ CanOpen(ws[w].journal)
        /\ source = ws[w].journal[1].source
        /\ r.status = "end" /\ r.sealed
        /\ ws[w].indexed /\ ws[w].ranges = body.ranges
        /\ ws[w].packets = body.packets

Readable(w) == CanOpen(ws[w].journal)

(* Whatever happened on the way (faults, crashes, a capture that changed and  *)
(* changed back), a journal that reads as sealed holds exactly the records    *)
(* its source calls for, and a workspace that History::open accepts has both  *)
(* indexes of that source.                                                    *)
SealedCanonical ==
    \A w \in Workspaces : Readable(w) =>
        LET r == ReadAll(ws[w].journal)
            c == ws[w].journal[1].source
        IN  r.status = "end" /\ r.sealed =>
                /\ Front(r.records) = Canonical(c)
                /\ Opens(w) => /\ ws[w].ranges = CanonicalRanges(c)
                               /\ ws[w].packets = [i \in DOMAIN c |-> PacketRow(i, c[i])]

(* Records covered by an fsync that returned are read back for ever after:    *)
(* later writes, faults and crashes never reach below them.                   *)
CheckpointSurvives ==
    \A w \in Workspaces :
        promised[w] > 0 => Readable(w) /\ ReadAll(ws[w].journal).count >= promised[w]

(* A workspace for which a command reported success opens from then on, as    *)
(* long as the source is the one it was built from: through later commands    *)
(* and crashes.                                                               *)
SuccessLasts ==
    \A w \in sealedOk : source = ws[w].journal[1].source => Opens(w)

(* Progress that was reported lasts: checkpointed records are read back, and  *)
(* a workspace that was reported as sealed opens, through every later         *)
(* command, fault and crash.                                                  *)
DurableProgress == CheckpointSurvives /\ SuccessLasts

(* A recovery that succeeds has kept every record the old journal held before *)
(* its terminal one.                                                          *)
RecoveryKeeps ==
    job.mode = "recover" /\ job.pc = "done" /\ job.result = "ok" =>
        LET old == ReadAll(ws[job.old].journal).records
            new == ReadAll(ws[job.w].journal).records
        IN  \A n \in DOMAIN old : old[n].kind \notin Terminal => old[n] = new[n]

(* docs/history/CONTRACT.md:155: torn output is never sealed by retrying an   *)
(* uncertain write.                                                           *)
NeverSealedByRetry ==
    \A w \in retried : Readable(w) => ~ReadAll(ws[w].journal).sealed

------------------------------------------------------------------------------
(* A small instance.  Three captures: one that just fits the record and the   *)
(* disk limit, one that is damaged at its end, and one that exceeds the disk  *)
(* limit.                                                                     *)
SmallCaptures ==
    LET p(effects) == [damaged |-> FALSE, effects |-> effects]
        bad == [damaged |-> TRUE, effects |-> << >>]
    IN  { << p(<< "TCP" >>), p(<< "NOTICE" >>), p(<< >>) >>,
          << p(<< "TCP" >>), p(<< >>), bad >>,
          << p(<< "TCP", "TCP" >>), p(<< "TCP", "TCP" >>), p(<< >>) >> }

Symmetry == Permutations(Workspaces)
=============================================================================
