---------------------------- MODULE MrtStoreProofs ----------------------------
(***************************************************************************)
(* ArchiveHonest of MrtStore for every set of sources, every limit and any *)
(* number of changes by others.                                            *)
(***************************************************************************)
EXTENDS MrtStore, TLAPS

\* The peer tables whose run reaches record n.
Before(all, n) ==
    {i \in 1 .. (n - 1) : /\ all[i].class = "peers"
                          /\ \A j \in (i + 1) .. (n - 1) : all[j].class \in {"rib", "series"}}

\* There is at most one of them: a peer table ends the run of the one before.
LEMMA BeforeUnique ==
    ASSUME NEW all, NEW n \in Nat, NEW a \in Before(all, n), NEW b \in Before(all, n)
    PROVE  a = b
<1>1. a \in 1 .. (n - 1) /\ b \in 1 .. (n - 1) /\ all[a].class = "peers" /\ all[b].class = "peers"
  BY DEF Before
<1>2. ~(a < b)
  <2> SUFFICES ASSUME a < b PROVE FALSE
    OBVIOUS
  <2>1. b \in (a + 1) .. (n - 1)
    BY <1>1
  <2> QED BY <1>1, <2>1 DEF Before
<1>3. ~(b < a)
  <2> SUFFICES ASSUME b < a PROVE FALSE
    OBVIOUS
  <2>1. a \in (b + 1) .. (n - 1)
    BY <1>1
  <2> QED BY <1>1, <2>1 DEF Before
<1> QED BY <1>1, <1>2, <1>3

\* So TableOf names it.
LEMMA TableIs ==
    ASSUME NEW all, NEW n \in Nat
    PROVE  /\ Before(all, n) = {} => TableOf(all, n) = NoTable
           /\ \A i \in Before(all, n) : TableOf(all, n) = i
           /\ TableOf(all, n) # NoTable => TableOf(all, n) \in 1 .. (n - 1)
           /\ TableOf(all, n) \in Nat
<1>1. TableOf(all, n) = IF Before(all, n) = {} THEN NoTable ELSE CHOOSE i \in Before(all, n) : TRUE
  BY DEF TableOf, Before
<1>2. \A i \in Before(all, n) : TableOf(all, n) = i
  BY <1>1, BeforeUnique
<1>3. Before(all, n) \subseteq 1 .. (n - 1)
  BY DEF Before
<1>4. CASE Before(all, n) = {}
  BY <1>1, <1>4 DEF NoTable
<1>5. CASE Before(all, n) # {}
  <2>1. PICK i \in Before(all, n) : TRUE
    BY <1>5
  <2> QED BY <1>2, <1>3, <1>5, <2>1
<1> QED BY <1>4, <1>5, <1>2

\* It depends on the records before n only.
LEMMA TableSame ==
    ASSUME NEW all, NEW other, NEW n \in Nat, \A i \in 1 .. (n - 1) : all[i] = other[i]
    PROVE  TableOf(all, n) = TableOf(other, n)
<1>1. Before(all, n) = Before(other, n)
  <2>1. ASSUME NEW i \in 1 .. (n - 1) PROVE i \in Before(all, n) <=> i \in Before(other, n)
    <3>1. \A j \in (i + 1) .. (n - 1) : j \in 1 .. (n - 1)
      OBVIOUS
    <3> QED BY <3>1 DEF Before
  <2> QED BY <2>1 DEF Before
<1> QED BY <1>1 DEF TableOf, Before

\* The decoder's variable follows it from record to record (decode_record).
LEMMA TableStep ==
    ASSUME NEW all, NEW n \in Nat \ {0}
    PROVE  TableOf(all, n + 1) = DecodeTable(TableOf(all, n), all[n], n)
<1> DEFINE c == all[n].class
<1>0. n + 1 \in Nat /\ n \in Nat /\ (n + 1) - 1 = n
  OBVIOUS
<1>1. CASE c = "peers"
  <2>1. n \in Before(all, n + 1)
    BY <1>0, <1>1 DEF Before
  <2>2. TableOf(all, n + 1) = n
    BY <1>0, <2>1, TableIs
  <2> QED BY <1>1, <2>2 DEF DecodeTable
<1>2. CASE c \in {"rib", "series"}
  <2>1. Before(all, n + 1) = Before(all, n)
    <3>1. ASSUME NEW i \in Before(all, n + 1) PROVE i \in Before(all, n)
      <4>1. i \in 1 .. n /\ all[i].class = "peers"
            /\ \A j \in (i + 1) .. n : all[j].class \in {"rib", "series"}
        BY <1>0, <3>1 DEF Before
      <4>2. i # n
        BY <1>2, <4>1
      <4>3. i \in 1 .. (n - 1) /\ \A j \in (i + 1) .. (n - 1) : j \in (i + 1) .. n
        BY <4>1, <4>2
      <4> QED BY <4>1, <4>3 DEF Before
    <3>2. ASSUME NEW i \in Before(all, n) PROVE i \in Before(all, n + 1)
      <4>1. i \in 1 .. (n - 1) /\ all[i].class = "peers"
            /\ \A j \in (i + 1) .. (n - 1) : all[j].class \in {"rib", "series"}
        BY <3>2 DEF Before
      <4>2. \A j \in (i + 1) .. n : j = n \/ j \in (i + 1) .. (n - 1)
        BY <4>1
      <4>3. i \in 1 .. n /\ \A j \in (i + 1) .. n : all[j].class \in {"rib", "series"}
        BY <1>2, <4>1, <4>2
      <4> QED BY <1>0, <4>1, <4>3 DEF Before
    <3> QED BY <3>1, <3>2
  <2>2. TableOf(all, n + 1) = TableOf(all, n)
    BY <1>0, <2>1 DEF TableOf, Before
  <2> QED BY <1>2, <2>2 DEF DecodeTable, Series
<1>3. CASE c \notin {"peers", "rib", "series"}
  <2>1. Before(all, n + 1) = {}
    <3> SUFFICES ASSUME NEW i \in Before(all, n + 1) PROVE FALSE
      OBVIOUS
    <3>1. i \in 1 .. n /\ all[i].class = "peers"
          /\ \A j \in (i + 1) .. n : all[j].class \in {"rib", "series"}
      BY <1>0 DEF Before
    <3>2. i # n
      BY <1>3, <3>1
    <3>3. n \in (i + 1) .. n
      BY <3>1, <3>2
    <3> QED BY <1>3, <3>1, <3>3
  <2>2. TableOf(all, n + 1) = NoTable
    BY <1>0, <2>1, TableIs
  <2> QED BY <1>3, <2>2 DEF DecodeTable, Series
<1> QED BY <1>1, <1>2, <1>3

\* One more record that decodes.
LEMMA ParsedAppend ==
    ASSUME NEW w \in Seq(RecordSet), Parsed(w), NEW x \in RecordSet,
           Decodes(Append(w, x), TableOf(w, Len(w) + 1), x)
    PROVE  /\ Parsed(Append(w, x))
           /\ TableOf(Append(w, x), Len(w) + 2) = DecodeTable(TableOf(w, Len(w) + 1), x, Len(w) + 1)
           /\ \A n \in 1 .. (Len(w) + 1) : TableOf(Append(w, x), n) = TableOf(w, n)
<1> DEFINE a == Append(w, x)
           m == Len(w) + 1
<1>1. /\ m \in Nat \ {0} /\ m - 1 = Len(w) /\ m + 1 = Len(w) + 2 /\ DOMAIN a = 1 .. m
      /\ DOMAIN w = 1 .. Len(w) /\ a[m] = x
      /\ \A i \in 1 .. Len(w) : a[i] = w[i]
  OBVIOUS
<1> HIDE DEF a
<1>2. ASSUME NEW n \in 1 .. m PROVE TableOf(a, n) = TableOf(w, n)
  <2>1. n \in Nat /\ \A i \in 1 .. (n - 1) : i \in 1 .. Len(w)
    BY <1>1
  <2> QED BY <1>1, <2>1, TableSame
<1>3. TableOf(a, m + 1) = DecodeTable(TableOf(w, m), x, m)
  <2>1. TableOf(a, m + 1) = DecodeTable(TableOf(a, m), a[m], m)
    BY <1>1, TableStep
  <2> QED BY <1>1, <1>2, <2>1
<1>4. ASSUME NEW n \in 1 .. m PROVE Decodes(a, TableOf(a, n), a[n])
  <2>1. CASE n = m
    BY <1>1, <1>2, <2>1 DEF a
  <2>2. CASE n # m
    <3>1. n \in DOMAIN w /\ n \in Nat /\ a[n] = w[n]
      BY <1>1, <2>2
    <3>2. Decodes(w, TableOf(w, n), w[n]) /\ TableOf(a, n) = TableOf(w, n)
      BY <1>2, <3>1 DEF Parsed
    <3>3. TableOf(w, n) # NoTable => TableOf(w, n) \in 1 .. Len(w)
      BY <1>1, <3>1, TableIs
    <3> QED BY <1>1, <3>1, <3>2, <3>3 DEF Decodes
  <2> QED BY <2>1, <2>2
<1> QED BY <1>1, <1>2, <1>3, <1>4 DEF a, Parsed

\* The rows of one more record.
LEMMA RowsAppend ==
    ASSUME NEW w \in Seq(RecordSet), NEW x \in RecordSet,
           \A n \in 1 .. (Len(w) + 1) : TableOf(Append(w, x), n) = TableOf(w, n)
    PROVE  RowsOf(Append(w, x)) = Append(RowsOf(w), Row(Len(w) + 1, x, TableOf(w, Len(w) + 1)))
<1> DEFINE a == Append(w, x)
           m == Len(w) + 1
           row(n) == [n |-> n, raw |-> a[n], pit |-> IF a[n].class = "rib" THEN TableOf(w, n) ELSE NoTable]
<1>1. /\ DOMAIN a = 1 .. m /\ DOMAIN w = 1 .. Len(w) /\ a[m] = x /\ m \in Nat
      /\ \A i \in 1 .. Len(w) : a[i] = w[i]
  OBVIOUS
<1>2. RowsOf(a) = [n \in 1 .. m |-> row(n)]
  BY <1>1 DEF RowsOf
<1>3. RowsOf(w) = [n \in 1 .. Len(w) |-> row(n)]
  BY <1>1 DEF RowsOf
<1>4. Row(m, x, TableOf(w, m)) = row(m)
  BY <1>1 DEF Row
<1> HIDE DEF row, a
<1>5. Append([n \in 1 .. Len(w) |-> row(n)], row(m)) = [n \in 1 .. m |-> row(n)]
  OBVIOUS
<1> QED BY <1>2, <1>3, <1>4, <1>5 DEF a

-----------------------------------------------------------------------------
Tags == {"header", "record", "terminal", "plain"}
CellSet == [tag : Tags, n : Nat, raw : RecordSet, digest : Seq(RecordSet)]
RowSet == [n : Nat, raw : RecordSet, pit : Nat]
Visitor == [pc : {"idle", "first", "second", "done", "failed"}, pos : Nat, length : Nat,
            seen : Seq(RecordSet), table : Nat, pit : Nat, rows : Seq(RowSet),
            first : Seq(RecordSet)]

Files == [exists : BOOLEAN, cells : Seq(CellSet), synced : BOOLEAN]
Writers == [pc : {"idle", "records", "sealed", "done", "failed", "rejected"},
            length : Nat, at : Nat, table : Nat, taken : Seq(RecordSet)]
Snapshots == [pc : {"idle", "sized", "done", "failed"}, size : Nat, archive : Seq(RecordSet)]

StoreTypes ==
    /\ input \in Seq(RecordSet)
    /\ store \in Files
    /\ writer \in Writers
    /\ visitor \in Visitor
    /\ snapshot \in Snapshots
    /\ changes \in Nat

\* What a writer that has not sealed its file has written of the records w.
Opening(l, w) ==
    [i \in 1 .. (Len(w) + 1) |->
        IF i = 1 THEN Header(l) ELSE Frame(i - 1, w[i - 1], SubSeq(w, 1, i - 2))]

\* The writer's variables agree with what it has written.
Recording(w) ==
    /\ Len(w) = writer.at /\ writer.at <= writer.length
    /\ store.cells = Opening(writer.length, w)
    /\ writer.table = TableOf(w, writer.at + 1)
    /\ Parsed(w)

WriterInv ==
    /\ writer.pc = "idle" => writer = NoWriter
    /\ writer.pc \in {"idle", "rejected"} => store \in {NoStore, Taken}
    /\ writer.pc = "records" => \E w \in Seq(RecordSet) : Recording(w)
    /\ writer.pc = "sealed" => \E all \in Seq(RecordSet) :
            /\ Parsed(all)
            /\ store.cells \in {Sealed01(all), Sealed02(all)}
            /\ Len(writer.taken) <= Len(all)

Holds(cells, tag) == \E i \in DOMAIN cells : cells[i].tag = tag

\* The file begins as the archive does.
Begins(cells, all) ==
    Len(cells) >= Len(all) + 2 /\ \A i \in 1 .. (Len(all) + 2) : cells[i] = Sealed01(all)[i]

Finished == {"sealed", "done", "failed"}

\* What is left of a PCBMRT01 file: only its writer puts a plain cell into a file,
\* and whoever cuts it loses the terminal.
Remains(cells, all) ==
    Holds(cells, "plain") =>
        /\ Parsed(all)
        /\ cells[1] = Header(Len(all))
        /\ Holds(cells, "terminal") => Begins(cells, all)

PlainInv ==
    /\ writer.pc \notin Finished => ~Holds(store.cells, "plain")
    /\ Remains(store.cells, writer.taken)

SnapshotInv ==
    snapshot.pc = "done" =>
        writer.pc \in Finished /\ snapshot.archive = writer.taken /\ Parsed(snapshot.archive)

\* The pass so far: the tables and rows of what it has seen.
Scanned(v) ==
    v.pc \in {"first", "second", "done"} =>
        /\ v.table = TableOf(v.seen, Len(v.seen) + 1) /\ v.pit = v.table
        /\ Parsed(v.seen)
        /\ v.pc # "first" => v.rows = RowsOf(v.seen)
        /\ v.pc = "done" => v.seen = v.first /\ Len(v.seen) = v.length

StoreInv == StoreTypes /\ WriterInv /\ PlainInv /\ SnapshotInv /\ Scanned(visitor)

\* Cells are cells.
LEMMA CellTyped ==
    /\ NoRaw \in RecordSet
    /\ \A n \in Nat : Header(n) \in CellSet
    /\ \A n \in Nat, raw \in RecordSet, before \in Seq(RecordSet) : Frame(n, raw, before) \in CellSet
    /\ \A all \in Seq(RecordSet) : Terminal(all) \in CellSet
    /\ \A raw \in RecordSet : Plain(raw) \in CellSet
<1>1. NoRaw \in RecordSet
  BY DEF NoRaw, RecordSet, Classes
<1>2. << >> \in Seq(RecordSet)
  OBVIOUS
<1>3. \A n \in Nat : Header(n) \in CellSet
  BY <1>1, <1>2 DEF Header, Cell, CellSet, Tags
<1>4. ASSUME NEW n \in Nat, NEW raw \in RecordSet, NEW before \in Seq(RecordSet)
      PROVE  Frame(n, raw, before) \in CellSet
  <2>1. Append(before, raw) \in Seq(RecordSet)
    OBVIOUS
  <2> QED BY <2>1 DEF Frame, Cell, CellSet, Tags
<1>5. ASSUME NEW all \in Seq(RecordSet) PROVE Terminal(all) \in CellSet
  <2>1. Len(all) \in Nat
    OBVIOUS
  <2> QED BY <1>1, <2>1 DEF Terminal, Cell, CellSet, Tags
<1>6. \A raw \in RecordSet : Plain(raw) \in CellSet
  BY <1>2 DEF Plain, Cell, CellSet, Tags
<1> QED BY <1>1, <1>3, <1>4, <1>5, <1>6

\* The tags and records of the cells.
LEMMA CellFields ==
    ASSUME NEW n, NEW raw, NEW before, NEW all
    PROVE  /\ Header(n).tag = "header" /\ Header(n).n = n
           /\ Frame(n, raw, before).tag = "record" /\ Frame(n, raw, before).raw = raw
           /\ Terminal(all).tag = "terminal"
           /\ Plain(raw).tag = "plain" /\ Plain(raw).raw = raw
BY DEF Header, Frame, Terminal, Plain, Cell

\* The sealed files.
LEMMA SealedCells ==
    ASSUME NEW all \in Seq(RecordSet)
    PROVE  /\ Sealed01(all) \in Seq(CellSet) /\ Sealed02(all) \in Seq(CellSet)
           /\ Len(Sealed01(all)) = Len(all) + 2 /\ Len(Sealed02(all)) = Len(all) + 2
           /\ Sealed01(all)[1] = Header(Len(all)) /\ Sealed02(all)[1] = Header(Len(all))
           /\ Sealed01(all)[Len(all) + 2] = Terminal(all) /\ Sealed02(all)[Len(all) + 2] = Terminal(all)
           /\ \A i \in 1 .. Len(all) :
                 /\ Sealed01(all)[i + 1] = Plain(all[i])
                 /\ Sealed02(all)[i + 1] = Frame(i, all[i], SubSeq(all, 1, i - 1))
<1> DEFINE L == Len(all)
           f == [i \in DOMAIN all |-> Frame(i, all[i], SubSeq(all, 1, i - 1))]
           g == [i \in DOMAIN all |-> Plain(all[i])]
<1>1. L \in Nat /\ DOMAIN all = 1 .. L /\ \A i \in 1 .. L : all[i] \in RecordSet
  OBVIOUS
<1>2. /\ Header(L) \in CellSet /\ Terminal(all) \in CellSet
  BY <1>1, CellTyped
<1>3. ASSUME NEW i \in 1 .. L PROVE f[i] \in CellSet /\ g[i] \in CellSet
  <2>1. i \in Nat /\ all[i] \in RecordSet /\ SubSeq(all, 1, i - 1) \in Seq(RecordSet)
    BY <1>1
  <2> QED BY <1>1, <2>1, CellTyped
<1>4. \A i \in 1 .. L : f[i] = Frame(i, all[i], SubSeq(all, 1, i - 1)) /\ g[i] = Plain(all[i])
  BY <1>1
<1>5. /\ Sealed02(all) = [i \in 1 .. (L + 2) |->
                            IF i = 1 THEN Header(L) ELSE IF i = L + 2 THEN Terminal(all) ELSE f[i - 1]]
      /\ Sealed01(all) = [i \in 1 .. (L + 2) |->
                            IF i = 1 THEN Header(L) ELSE IF i = L + 2 THEN Terminal(all) ELSE g[i - 1]]
  BY DEF Sealed01, Sealed02, Sealed
<1> HIDE DEF f, g, L
<1>6. \A i \in 1 .. (L + 2) : i = 1 \/ i = L + 2 \/ i - 1 \in 1 .. L
  BY <1>1
<1>7. /\ Sealed02(all) \in [1 .. (L + 2) -> CellSet]
      /\ Sealed01(all) \in [1 .. (L + 2) -> CellSet]
  BY <1>2, <1>3, <1>5, <1>6
<1>8. /\ Sealed01(all) \in Seq(CellSet) /\ Sealed02(all) \in Seq(CellSet)
      /\ Len(Sealed01(all)) = L + 2 /\ Len(Sealed02(all)) = L + 2
  BY <1>1, <1>7
<1>9. ASSUME NEW i \in 1 .. L
      PROVE  Sealed01(all)[i + 1] = Plain(all[i]) /\ Sealed02(all)[i + 1] = Frame(i, all[i], SubSeq(all, 1, i - 1))
  <2>1. i + 1 \in 1 .. (L + 2) /\ i + 1 # 1 /\ i + 1 # L + 2 /\ (i + 1) - 1 = i
    BY <1>1
  <2> QED BY <1>4, <1>5, <2>1
<1>10. 1 \in 1 .. (L + 2) /\ L + 2 \in 1 .. (L + 2) /\ L + 2 # 1
  BY <1>1
<1> QED BY <1>5, <1>8, <1>9, <1>10 DEF L

\* A replay reads back what was sealed.
LEMMA BodySealed ==
    ASSUME NEW all \in Seq(RecordSet)
    PROVE  Body(Sealed01(all)) = all /\ Body(Sealed02(all)) = all
<1>1. Len(all) \in Nat /\ (Len(all) + 2) - 2 = Len(all)
  OBVIOUS
<1>2. \A i \in 1 .. Len(all) : Sealed01(all)[i + 1].raw = all[i] /\ Sealed02(all)[i + 1].raw = all[i]
  BY SealedCells, CellFields
<1>3. Body(Sealed01(all)) = [i \in 1 .. Len(all) |-> all[i]] /\ Body(Sealed02(all)) = [i \in 1 .. Len(all) |-> all[i]]
  BY <1>1, <1>2, SealedCells DEF Body
<1> QED BY <1>3

\* The cells of a file that is being written.
LEMMA OpeningCells ==
    ASSUME NEW w \in Seq(RecordSet), NEW l \in Nat
    PROVE  /\ Opening(l, w) \in Seq(CellSet)
           /\ Len(Opening(l, w)) = Len(w) + 1
           /\ Opening(l, w)[1] = Header(l)
           /\ \A i \in 1 .. Len(w) : Opening(l, w)[i + 1] = Frame(i, w[i], SubSeq(w, 1, i - 1))
<1> DEFINE L == Len(w)
<1>1. L \in Nat /\ \A i \in 1 .. L : w[i] \in RecordSet
  OBVIOUS
<1>2. Header(l) \in CellSet
  BY CellTyped
<1>3. ASSUME NEW i \in 1 .. L PROVE Frame(i, w[i], SubSeq(w, 1, i - 1)) \in CellSet
  <2>1. i \in Nat /\ w[i] \in RecordSet /\ SubSeq(w, 1, i - 1) \in Seq(RecordSet)
    BY <1>1
  <2> QED BY <2>1, CellTyped
<1>4. ASSUME NEW i \in 1 .. L
      PROVE  Opening(l, w)[i + 1] = Frame(i, w[i], SubSeq(w, 1, i - 1))
  <2>1. i + 1 \in 1 .. (L + 1) /\ i + 1 # 1 /\ (i + 1) - 1 = i /\ (i + 1) - 2 = i - 1
    BY <1>1
  <2> QED BY <2>1 DEF Opening
<1>5. Opening(l, w)[1] = Header(l) /\ DOMAIN Opening(l, w) = 1 .. (L + 1)
  BY <1>1 DEF Opening
<1>6. \A i \in 1 .. (L + 1) : Opening(l, w)[i] \in CellSet
  <2> SUFFICES ASSUME NEW i \in 1 .. (L + 1), i # 1 PROVE Opening(l, w)[i] \in CellSet
    BY <1>2, <1>5
  <2>1. i - 1 \in 1 .. L /\ (i - 1) + 1 = i
    BY <1>1
  <2> QED BY <1>3, <1>4, <2>1
<1>7. Opening(l, w) = [i \in 1 .. (L + 1) |-> Opening(l, w)[i]]
  BY DEF Opening
<1>8. Opening(l, w) \in [1 .. (L + 1) -> CellSet]
  BY <1>6, <1>7
<1>9. Opening(l, w) \in Seq(CellSet) /\ Len(Opening(l, w)) = L + 1
  BY <1>1, <1>8
<1> QED BY <1>4, <1>5, <1>9

\* One more frame.
LEMMA OpeningAppend ==
    ASSUME NEW w \in Seq(RecordSet), NEW l \in Nat, NEW x \in RecordSet
    PROVE  Append(Opening(l, w), Frame(Len(w) + 1, x, w)) = Opening(l, Append(w, x))
<1> DEFINE a == Append(w, x)
           L == Len(w)
           s == Append(Opening(l, w), Frame(L + 1, x, w))
           o == Opening(l, a)
<1>1. L \in Nat /\ a \in Seq(RecordSet) /\ Len(a) = L + 1 /\ a[L + 1] = x /\ \A i \in 1 .. L : a[i] = w[i]
  OBVIOUS
<1>2. Frame(L + 1, x, w) \in CellSet
  BY <1>1, CellTyped
<1>3. /\ Opening(l, w) \in Seq(CellSet) /\ Len(Opening(l, w)) = L + 1
      /\ Opening(l, w)[1] = Header(l)
      /\ \A i \in 1 .. L : Opening(l, w)[i + 1] = Frame(i, w[i], SubSeq(w, 1, i - 1))
  BY OpeningCells
<1>4. /\ o \in Seq(CellSet) /\ Len(o) = L + 2 /\ o[1] = Header(l)
      /\ \A i \in 1 .. (L + 1) : o[i + 1] = Frame(i, a[i], SubSeq(a, 1, i - 1))
  <2>1. (L + 1) + 1 = L + 2
    BY <1>1
  <2> HIDE DEF a
  <2> QED BY <1>1, <2>1, OpeningCells
<1>5. \A i \in 1 .. (L + 1) : SubSeq(a, 1, i - 1) = SubSeq(w, 1, i - 1)
  OBVIOUS
<1>6. SubSeq(w, 1, L) = w
  OBVIOUS
<1>7. /\ s \in Seq(CellSet) /\ Len(s) = L + 2 /\ s[L + 2] = Frame(L + 1, x, w)
      /\ \A i \in 1 .. (L + 1) : s[i] = Opening(l, w)[i]
  <2> HIDE DEF L
  <2> QED BY <1>1, <1>2, <1>3
<1> HIDE DEF a, s, o
<1>8. \A i \in 1 .. (L + 2) : s[i] = o[i]
  <2> SUFFICES ASSUME NEW i \in 1 .. (L + 2) PROVE s[i] = o[i]
    OBVIOUS
  <2> HIDE DEF L
  <2>1. CASE i = 1
    BY <1>1, <1>3, <1>4, <1>7, <2>1
  <2>2. CASE i = L + 2
    <3>1. L + 1 \in 1 .. (L + 1) /\ (L + 1) + 1 = i /\ (L + 1) - 1 = L
      BY <1>1, <2>2
    <3>2. o[i] = Frame(L + 1, a[L + 1], SubSeq(a, 1, L)) /\ SubSeq(a, 1, L) = SubSeq(w, 1, L)
      BY <1>4, <1>5, <3>1
    <3> QED BY <1>1, <1>6, <1>7, <2>2, <3>2
  <2>3. CASE i # 1 /\ i # L + 2
    <3> DEFINE j == i - 1
    <3>1. j \in 1 .. L /\ j \in 1 .. (L + 1) /\ j + 1 = i /\ i \in 1 .. (L + 1)
      BY <1>1, <2>3
    <3> HIDE DEF j
    <3>2. s[i] = Frame(j, w[j], SubSeq(w, 1, j - 1))
      BY <1>3, <1>7, <3>1
    <3>3. o[i] = Frame(j, a[j], SubSeq(a, 1, j - 1))
      BY <1>4, <3>1
    <3> QED BY <1>1, <1>5, <3>1, <3>2, <3>3
  <2> QED BY <2>1, <2>2, <2>3
<1>9. s = o
  BY <1>1, <1>4, <1>7, <1>8
<1> QED BY <1>9 DEF s, o, a

\* The terminal completes the file.
LEMMA OpeningSealed ==
    ASSUME NEW w \in Seq(RecordSet)
    PROVE  Append(Opening(Len(w), w), Terminal(w)) = Sealed02(w)
<1> DEFINE L == Len(w)
           s == Append(Opening(L, w), Terminal(w))
           o == Sealed02(w)
<1>1. L \in Nat
  OBVIOUS
<1>2. Terminal(w) \in CellSet
  BY CellTyped
<1>3. /\ Opening(L, w) \in Seq(CellSet) /\ Len(Opening(L, w)) = L + 1
      /\ Opening(L, w)[1] = Header(L)
      /\ \A i \in 1 .. L : Opening(L, w)[i + 1] = Frame(i, w[i], SubSeq(w, 1, i - 1))
  BY <1>1, OpeningCells
<1>4. /\ o \in Seq(CellSet) /\ Len(o) = L + 2 /\ o[1] = Header(L) /\ o[L + 2] = Terminal(w)
      /\ \A i \in 1 .. L : o[i + 1] = Frame(i, w[i], SubSeq(w, 1, i - 1))
  BY SealedCells
<1> HIDE DEF L
<1>5. /\ s \in Seq(CellSet) /\ Len(s) = L + 2 /\ s[L + 2] = Terminal(w)
      /\ \A i \in 1 .. (L + 1) : s[i] = Opening(L, w)[i]
  BY <1>1, <1>2, <1>3
<1> HIDE DEF s, o
<1>6. \A i \in 1 .. (L + 2) : s[i] = o[i]
  <2> SUFFICES ASSUME NEW i \in 1 .. (L + 2) PROVE s[i] = o[i]
    OBVIOUS
  <2>1. CASE i = 1
    BY <1>1, <1>3, <1>4, <1>5, <2>1
  <2>2. CASE i = L + 2
    BY <1>4, <1>5, <2>2
  <2>3. CASE i # 1 /\ i # L + 2
    <3> DEFINE j == i - 1
    <3>1. j \in 1 .. L /\ j + 1 = i /\ i \in 1 .. (L + 1)
      BY <1>1, <2>3
    <3> HIDE DEF j
    <3> QED BY <1>3, <1>4, <1>5, <3>1
  <2> QED BY <2>1, <2>2, <2>3
<1>7. s = o
  BY <1>1, <1>4, <1>5, <1>6
<1> QED BY <1>7 DEF s, o, L

-----------------------------------------------------------------------------
\* A file cut short keeps what Remains says: a cut within the archive takes the
\* terminal away.
LEMMA RemainsCut ==
    ASSUME NEW cells \in Seq(CellSet), NEW all \in Seq(RecordSet), NEW n \in 0 .. Len(cells)
    PROVE  /\ Remains(cells, all) => Remains(SubSeq(cells, 1, n), all)
           /\ ~Holds(cells, "plain") => ~Holds(SubSeq(cells, 1, n), "plain")
<1> DEFINE c == SubSeq(cells, 1, n)
<1>1. Len(c) = n /\ DOMAIN c = 1 .. n /\ n \in Nat /\ DOMAIN cells = 1 .. Len(cells) /\ Len(cells) \in Nat
      /\ \A i \in 1 .. n : i \in DOMAIN cells /\ c[i] = cells[i]
  OBVIOUS
<1>2. Len(all) \in Nat
  OBVIOUS
<1> HIDE DEF c
<1>3. \A tag : Holds(c, tag) => Holds(cells, tag)
  BY <1>1 DEF Holds
<1>4. ASSUME Remains(cells, all), Holds(c, "plain") PROVE Parsed(all) /\ c[1] = Header(Len(all))
  <2>1. 1 \in 1 .. n
    BY <1>1, <1>4 DEF Holds
  <2> QED BY <1>1, <1>3, <1>4, <2>1 DEF Remains
<1>5. ASSUME Remains(cells, all), Holds(c, "plain"), Holds(c, "terminal") PROVE Begins(c, all)
  <2>1. Begins(cells, all)
    BY <1>3, <1>5 DEF Remains
  <2>2. PICK i \in 1 .. n : c[i].tag = "terminal"
    BY <1>1, <1>5 DEF Holds
  <2>3. cells[i].tag = "terminal" /\ i \in 1 .. Len(cells) /\ i \in Nat
    BY <1>1, <2>2
  <2>4. ~(i < Len(all) + 2)
    <3> SUFFICES ASSUME i < Len(all) + 2 PROVE FALSE
      OBVIOUS
    <3>1. cells[i] = Sealed01(all)[i]
      BY <1>2, <2>1, <2>3 DEF Begins
    <3>2. CASE i = 1
      <4>1. Sealed01(all)[1] = Header(Len(all))
        BY SealedCells
      <4>2. Header(Len(all)).tag = "header"
        BY CellFields
      <4> QED BY <2>3, <3>1, <3>2, <4>1, <4>2
    <3>3. CASE i # 1
      <4>1. i - 1 \in 1 .. Len(all) /\ (i - 1) + 1 = i
        BY <1>2, <2>3, <3>3
      <4>2. Sealed01(all)[i] = Plain(all[i - 1])
        BY <4>1, SealedCells
      <4> QED BY <2>3, <3>1, <4>2, CellFields
    <3> QED BY <3>2, <3>3
  <2>5. n >= Len(all) + 2
    BY <1>1, <1>2, <2>3, <2>4
  <2>6. \A j \in 1 .. (Len(all) + 2) : j \in 1 .. n
    BY <1>1, <1>2, <2>5
  <2> QED BY <1>1, <2>1, <2>5, <2>6 DEF Begins
<1> QED BY <1>3, <1>4, <1>5 DEF c, Remains

\* So does a file that grows by one of its own cells.
LEMMA RemainsGrown ==
    ASSUME NEW cells \in Seq(CellSet), NEW all \in Seq(RecordSet), NEW k \in DOMAIN cells
    PROVE  /\ Remains(cells, all) => Remains(Append(cells, cells[k]), all)
           /\ ~Holds(cells, "plain") => ~Holds(Append(cells, cells[k]), "plain")
<1> DEFINE c == Append(cells, cells[k])
           L == Len(cells)
<1>1. /\ L \in Nat /\ k \in 1 .. L /\ DOMAIN cells = 1 .. L /\ Len(c) = L + 1 /\ DOMAIN c = 1 .. (L + 1)
      /\ c[L + 1] = cells[k] /\ \A i \in 1 .. L : c[i] = cells[i]
  OBVIOUS
<1>2. Len(all) \in Nat
  OBVIOUS
<1> HIDE DEF c, L
<1>3. \A i \in 1 .. (L + 1) : i = L + 1 \/ i \in 1 .. L
  BY <1>1
<1>4. \A tag : Holds(c, tag) => Holds(cells, tag)
  BY <1>1, <1>3 DEF Holds
<1>5. ASSUME Remains(cells, all), Holds(c, "plain") PROVE Parsed(all) /\ c[1] = Header(Len(all))
  <2>1. 1 \in 1 .. L
    BY <1>1
  <2> QED BY <1>1, <1>4, <1>5, <2>1 DEF Remains
<1>6. ASSUME Begins(cells, all) PROVE Begins(c, all)
  <2>1. L >= Len(all) + 2
    BY <1>6 DEF Begins, L
  <2>2. \A j \in 1 .. (Len(all) + 2) : j \in 1 .. L
    BY <1>1, <1>2, <2>1
  <2>3. Len(c) >= Len(all) + 2
    BY <1>1, <1>2, <2>1
  <2> QED BY <1>1, <1>6, <2>2, <2>3 DEF Begins
<1> QED BY <1>4, <1>5, <1>6 DEF c, Remains

\* No plain cell is in a PCBMRT02 file.
LEMMA NoPlain02 ==
    ASSUME NEW w \in Seq(RecordSet), NEW l \in Nat
    PROVE  ~Holds(Sealed02(w), "plain") /\ ~Holds(Opening(l, w), "plain")
<1>1. Len(w) \in Nat
  OBVIOUS
<1>2. ASSUME NEW i \in 1 .. (Len(w) + 2) PROVE Sealed02(w)[i].tag # "plain"
  <2>1. CASE i = 1 \/ i = Len(w) + 2
    BY <2>1, SealedCells, CellFields
  <2>2. CASE i # 1 /\ i # Len(w) + 2
    <3>1. i - 1 \in 1 .. Len(w) /\ (i - 1) + 1 = i
      BY <1>1, <2>2
    <3>2. Sealed02(w)[i] = Frame(i - 1, w[i - 1], SubSeq(w, 1, (i - 1) - 1))
      BY <3>1, SealedCells
    <3> QED BY <3>2, CellFields
  <2> QED BY <2>1, <2>2
<1>3. ASSUME NEW i \in 1 .. (Len(w) + 1) PROVE Opening(l, w)[i].tag # "plain"
  <2>1. CASE i = 1
    BY <2>1, OpeningCells, CellFields
  <2>2. CASE i # 1
    <3>1. i - 1 \in 1 .. Len(w) /\ (i - 1) + 1 = i
      BY <1>1, <2>2
    <3>2. Opening(l, w)[i] = Frame(i - 1, w[i - 1], SubSeq(w, 1, (i - 1) - 1))
      BY <3>1, OpeningCells
    <3> QED BY <3>2, CellFields
  <2> QED BY <2>1, <2>2
<1>4. DOMAIN Sealed02(w) = 1 .. (Len(w) + 2) /\ DOMAIN Opening(l, w) = 1 .. (Len(w) + 1)
  BY SealedCells, OpeningCells
<1> QED BY <1>2, <1>3, <1>4 DEF Holds

\* What the PCBMRT01 writer leaves.
LEMMA Remains01 ==
    ASSUME NEW all \in Seq(RecordSet), Parsed(all)
    PROVE  Remains(Sealed01(all), all)
<1>1. Len(all) \in Nat
  OBVIOUS
<1>2. Begins(Sealed01(all), all)
  BY <1>1, SealedCells DEF Begins
<1> QED BY <1>2, SealedCells DEF Remains

\* What replays is what was written (replay_with_options).
LEMMA ReplayIs ==
    ASSUME NEW cells \in Seq(CellSet), NEW all \in Seq(RecordSet),
           SnapshotSound(cells), Remains(cells, all)
    PROVE  Holds(cells, "plain") /\ Body(cells) = all /\ Parsed(all)
<1> DEFINE b == Body(cells)
           L == Len(b)
<1>1. /\ b \in Seq(RecordSet) /\ L = Len(cells) - 2 /\ L \in Nat /\ L >= 1
  <2>1. Len(cells) >= 3 /\ Len(cells) - 2 \in Nat /\ Len(cells) \in Nat
    BY DEF SnapshotSound
  <2>2. \A i \in 1 .. (Len(cells) - 2) : cells[i + 1].raw \in RecordSet
    <3> SUFFICES ASSUME NEW i \in 1 .. (Len(cells) - 2) PROVE cells[i + 1].raw \in RecordSet
      OBVIOUS
    <3>1. i + 1 \in 1 .. Len(cells)
      BY <2>1
    <3>2. cells[i + 1] \in CellSet
      BY <3>1
    <3> QED BY <3>2 DEF CellSet
  <2> QED BY <2>1, <2>2 DEF Body
<1>2. cells = Sealed01(b)
  BY DEF SnapshotSound
<1> HIDE DEF b, L
<1>3. /\ cells[1] = Header(L) /\ cells[L + 2] = Terminal(b) /\ Len(cells) = L + 2
      /\ \A i \in 1 .. L : cells[i + 1] = Plain(b[i])
  BY <1>1, <1>2, SealedCells DEF L
<1>4. Holds(cells, "plain") /\ Holds(cells, "terminal")
  <2>1. 1 \in 1 .. L /\ 1 + 1 \in DOMAIN cells /\ L + 2 \in DOMAIN cells
    BY <1>1, <1>3
  <2>2. cells[1 + 1].tag = "plain" /\ cells[L + 2].tag = "terminal"
    BY <1>3, <2>1, CellFields
  <2> QED BY <2>1, <2>2 DEF Holds
<1>5. Parsed(all) /\ Header(L) = Header(Len(all)) /\ Begins(cells, all)
  BY <1>3, <1>4 DEF Remains
<1>6. L = Len(all)
  <2>1. Header(L).n = L /\ Header(Len(all)).n = Len(all)
    BY CellFields
  <2> QED BY <1>5, <2>1
<1>7. ASSUME NEW i \in 1 .. L PROVE b[i] = all[i]
  <2>1. i + 1 \in 1 .. (Len(all) + 2)
    BY <1>1, <1>6
  <2>2. Plain(b[i]) = Plain(all[i])
    BY <1>3, <1>5, <1>6, <2>1, SealedCells DEF Begins
  <2>3. Plain(b[i]).raw = b[i] /\ Plain(all[i]).raw = all[i]
    BY CellFields
  <2> QED BY <2>2, <2>3
<1>8. b = all
  BY <1>1, <1>6, <1>7 DEF L
<1> QED BY <1>4, <1>5, <1>8 DEF b

-----------------------------------------------------------------------------
\* A new pass has seen nothing.
LEMMA NewPassScanned ==
    ASSUME NEW pc \in {"idle", "first", "second"}, NEW first \in Seq(RecordSet)
    PROVE  NewPass(pc, first) \in Visitor /\ Scanned(NewPass(pc, first))
<1> DEFINE v == NewPass(pc, first)
<1>1. v \in Visitor
  BY DEF NewPass, Visitor, NoTable
<1>2. v.pc = pc /\ v.seen = << >> /\ v.table = NoTable /\ v.pit = NoTable /\ v.rows = << >>
  BY DEF NewPass
<1>3. Len(<< >>) + 1 = 1 /\ TableOf(<< >>, 1) = NoTable
  <2>1. Before(<< >>, 1) = {}
    BY DEF Before
  <2> QED BY <2>1, TableIs
<1>4. Parsed(<< >>) /\ RowsOf(<< >>) = << >>
  BY DEF Parsed, RowsOf
<1> HIDE DEF v
<1>5. Scanned(v)
  BY <1>2, <1>3, <1>4 DEF Scanned
<1> QED BY <1>1, <1>5 DEF v

\* A pass that fails has nothing to show.
LEMMA FailScanned ==
    ASSUME NEW v \in Visitor
    PROVE  Fail(v) \in Visitor /\ Scanned(Fail(v))
BY DEF Fail, Visitor, Scanned

\* A record that scan accepts extends what the pass has seen.
LEMMA RecordScanned ==
    ASSUME NEW v \in Visitor, v.pc \in {"first", "second"}, Scanned(v), NEW cell \in CellSet
    PROVE  ScanRecord(v, cell) \in Visitor /\ Scanned(ScanRecord(v, cell))
<1> DEFINE raw == cell.raw
           n == Len(v.seen) + 1
           seen == Append(v.seen, raw)
           pit == NextPit(v, raw, n)
           t == [v EXCEPT
                   !.pos = @ + 1, !.seen = seen, !.table = DecodeTable(@, raw, n),
                   !.pit = pit,
                   !.rows = IF v.pc = "second" THEN Append(@, Row(n, raw, pit)) ELSE @]
<1>1. CASE ~(/\ cell.tag = "record"
             /\ cell.n = n /\ n <= MaxRecordCount /\ n <= v.length
             /\ cell.digest = seen
             /\ Decodes(seen, v.table, raw))
  BY <1>1, FailScanned DEF ScanRecord
<1>2. CASE /\ cell.tag = "record"
           /\ cell.n = n /\ n <= MaxRecordCount /\ n <= v.length
           /\ cell.digest = seen
           /\ Decodes(seen, v.table, raw)
  <2>1. ScanRecord(v, cell) = t
    BY <1>2 DEF ScanRecord
  <2>2. raw \in RecordSet /\ v.seen \in Seq(RecordSet) /\ n \in Nat /\ seen \in Seq(RecordSet)
        /\ Len(seen) = n /\ n + 1 = Len(v.seen) + 2
    BY DEF CellSet, Visitor
  <2>3. Parsed(v.seen) /\ v.table = TableOf(v.seen, n) /\ v.pit = v.table
    BY DEF Scanned
  <2>4. /\ Parsed(seen)
        /\ TableOf(seen, n + 1) = DecodeTable(v.table, raw, n)
        /\ \A i \in 1 .. n : TableOf(seen, i) = TableOf(v.seen, i)
    BY <1>2, <2>2, <2>3, ParsedAppend
  <2>5. pit = DecodeTable(v.table, raw, n)
    BY <2>3 DEF NextPit, DecodeTable
  <2>6. DecodeTable(v.table, raw, n) \in Nat /\ pit \in Nat
    BY <2>2, <2>5 DEF Visitor, DecodeTable, NoTable
  <2>7. Row(n, raw, pit) = Row(n, raw, v.pit)
    BY DEF Row, NextPit, Series
  <2>8. RowsOf(seen) = Append(RowsOf(v.seen), Row(n, raw, pit))
    BY <2>2, <2>3, <2>4, <2>7, RowsAppend
  <2>9. Row(n, raw, pit) \in RowSet
    BY <2>2, <2>6 DEF Row, RowSet, NoTable
  <2> DEFINE rows == IF v.pc = "second" THEN Append(v.rows, Row(n, raw, pit)) ELSE v.rows
  <2>10. rows \in Seq(RowSet) /\ (v.pc = "second" => rows = RowsOf(seen))
    BY <2>8, <2>9 DEF Visitor, Scanned
  <2> DEFINE table == DecodeTable(v.table, raw, n)
             pos == v.pos + 1
  <2>11. t = [v EXCEPT !.pos = pos, !.seen = seen, !.table = table, !.pit = pit, !.rows = rows]
    OBVIOUS
  <2> HIDE DEF raw, n, seen, pit, t, rows, table, pos
  <2>12. t \in Visitor /\ t.pc = v.pc /\ t.seen = seen /\ t.table = table /\ t.pit = pit /\ t.rows = rows
    <3>1. seen \in Seq(RecordSet) /\ table \in Nat /\ pit \in Nat /\ rows \in Seq(RowSet)
      BY <2>2, <2>6, <2>10 DEF table
    <3>2. pos \in Nat
      BY DEF Visitor, pos
    <3>3. t \in Visitor
      BY <2>11, <3>1, <3>2 DEF Visitor
    <3>4. t.pc = v.pc /\ t.seen = seen /\ t.table = table /\ t.pit = pit /\ t.rows = rows
      BY <2>11 DEF Visitor
    <3> QED BY <3>3, <3>4
  <2>13. Scanned(t)
    BY <2>2, <2>4, <2>5, <2>10, <2>12 DEF Scanned, table
  <2> QED BY <2>1, <2>12, <2>13
<1> QED BY <1>1, <1>2

\* Every step of a pass leaves it sound (scan, visit_verified).
LEMMA CellScanned ==
    ASSUME NEW v \in Visitor, v.pc \in {"first", "second"}, Scanned(v), NEW cells \in Seq(CellSet)
    PROVE  ScanCell(v, cells) \in Visitor /\ Scanned(ScanCell(v, cells))
<1>1. CASE v.pos >= Len(cells)
  BY <1>1, FailScanned DEF ScanCell
<1>2. CASE ~(v.pos >= Len(cells))
  <2>1. v.pos \in Nat /\ v.pos + 1 \in DOMAIN cells /\ 1 \in DOMAIN cells
    BY <1>2 DEF Visitor
  <2>2. cells[v.pos + 1] \in CellSet /\ cells[1] \in CellSet
    BY <2>1
  <2>3. CASE v.pos = 0
    <3>1. ScanCell(v, cells) = Opened(v, cells[1])
      BY <1>2, <2>3 DEF ScanCell
    <3>2. Opened(v, cells[1]) = Fail(v)
          \/ Opened(v, cells[1]) = [v EXCEPT !.pos = 1, !.length = cells[1].n]
      BY DEF Opened
    <3>3. cells[1].n \in Nat
      BY <2>2 DEF CellSet
    <3>4. ASSUME NEW t, t = [v EXCEPT !.pos = 1, !.length = cells[1].n] PROVE t \in Visitor /\ Scanned(t)
      BY <3>3, <3>4 DEF Visitor, Scanned
    <3> QED BY <3>1, <3>2, <3>4, FailScanned
  <2>4. CASE v.pos # 0 /\ cells[v.pos + 1].tag = "terminal"
    <3>1. ScanCell(v, cells) = IF TerminalMatches(v, cells[v.pos + 1], Len(cells)) THEN EndPass(v) ELSE Fail(v)
      BY <1>2, <2>4 DEF ScanCell
    <3>2. CASE TerminalMatches(v, cells[v.pos + 1], Len(cells))
      <4>1. Len(v.seen) = v.length /\ v.seen \in Seq(RecordSet)
        BY <3>2 DEF TerminalMatches, Visitor
      <4>2. CASE v.pc = "first"
        BY <3>1, <3>2, <4>1, <4>2, NewPassScanned DEF EndPass
      <4>3. CASE v.pc = "second" /\ v.seen = v.first
        <5>1. ScanCell(v, cells) = [v EXCEPT !.pc = "done"]
          BY <3>1, <3>2, <4>3 DEF EndPass
        <5> QED BY <4>1, <4>3, <5>1 DEF Visitor, Scanned
      <4>4. CASE v.pc = "second" /\ v.seen # v.first
        BY <3>1, <3>2, <4>4, FailScanned DEF EndPass
      <4> QED BY <4>2, <4>3, <4>4
    <3>3. CASE ~TerminalMatches(v, cells[v.pos + 1], Len(cells))
      BY <3>1, <3>3, FailScanned
    <3> QED BY <3>2, <3>3
  <2>5. CASE v.pos # 0 /\ cells[v.pos + 1].tag # "terminal"
    <3>1. ScanCell(v, cells) = ScanRecord(v, cells[v.pos + 1])
      BY <1>2, <2>5 DEF ScanCell
    <3> QED BY <2>2, <3>1, RecordScanned
  <2> QED BY <2>3, <2>4, <2>5
<1> QED BY <1>1, <1>2

-----------------------------------------------------------------------------
\* What does not touch the file or its writer.
LEMMA FileUntouched ==
    ASSUME WriterInv, PlainInv, UNCHANGED <<store, writer>>
    PROVE  WriterInv' /\ PlainInv'
BY DEF WriterInv, PlainInv, Recording

\* Nothing has been replayed while the writer has not finished.
LEMMA NotReplayed ==
    ASSUME SnapshotInv, writer.pc \notin Finished, UNCHANGED snapshot
    PROVE  SnapshotInv'
BY DEF SnapshotInv

\* No cells, no plain cells.
LEMMA EmptyFile ==
    ASSUME store \in {NoStore, Taken}
    PROVE  store.cells = << >> /\ store \in Files /\ ~Holds(store.cells, "plain")
<1>1. << >> \in Seq(CellSet)
  OBVIOUS
<1>2. NoStore \in Files /\ NoStore.cells = << >>
  BY <1>1 DEF NoStore, Files
<1>3. Taken \in Files /\ Taken.cells = << >>
  BY <1>2 DEF Taken, Files
<1>4. ~Holds(<< >>, "plain")
  BY DEF Holds
<1> QED BY <1>2, <1>3, <1>4

\* What the writer counts as written is what is in the file.
LEMMA WrittenIs ==
    ASSUME StoreTypes, NEW w \in Seq(RecordSet), Recording(w)
    PROVE  Written = w
<1>1. writer.length \in Nat /\ Len(w) = writer.at /\ store.cells = Opening(writer.length, w)
  BY DEF StoreTypes, Writers, Recording
<1>2. \A i \in 1 .. Len(w) : store.cells[i + 1].raw = w[i]
  <2> SUFFICES ASSUME NEW i \in 1 .. Len(w) PROVE store.cells[i + 1].raw = w[i]
    OBVIOUS
  <2>1. store.cells[i + 1] = Frame(i, w[i], SubSeq(w, 1, i - 1))
    BY <1>1, OpeningCells
  <2> QED BY <2>1, CellFields
<1>3. Written = [i \in 1 .. Len(w) |-> w[i]]
  BY <1>1, <1>2 DEF Written
<1> QED BY <1>3

\* What the writer has to have left behind to go on.
LEMMA StillRecording ==
    ASSUME NEW w \in Seq(RecordSet), NEW l, NEW n, NEW t,
           writer'.pc = "records", writer'.length = l, writer'.at = n, writer'.table = t,
           store'.cells = Opening(l, w), Len(w) = n, n <= l, t = TableOf(w, n + 1), Parsed(w)
    PROVE  WriterInv'
<1>1. Recording(w)'
  BY DEF Recording
<1> QED BY <1>1 DEF WriterInv

\* write_stream_path: the header of a new file, or no file.
LEMMA OpenStep ==
    ASSUME StoreInv, WriteStreamOpen
    PROVE  StoreInv'
<1> DEFINE l == Len(input)
<1>1. /\ StoreTypes /\ WriterInv /\ PlainInv /\ SnapshotInv /\ Scanned(visitor)
      /\ writer = NoWriter /\ store \in {NoStore, Taken} /\ writer.pc = "idle"
  BY DEF StoreInv, WriterInv, WriteStreamOpen
<1>2. SnapshotInv' /\ Scanned(visitor)'
  BY <1>1, NotReplayed DEF WriteStreamOpen, Finished
<1>3. UNCHANGED <<input, visitor, snapshot, changes>> /\ l \in Nat
  BY <1>1 DEF WriteStreamOpen, StoreTypes
<1>4. CASE /\ store' = [exists |-> TRUE, cells |-> <<Header(l)>>, synced |-> FALSE]
           /\ writer' = [writer EXCEPT !.pc = "records", !.length = l]
  <2>1. << >> \in Seq(RecordSet) /\ Len(<< >>) = 0 /\ 0 + 1 = 1
    OBVIOUS
  <2>2. /\ Opening(l, << >>) \in Seq(CellSet) /\ Len(Opening(l, << >>)) = 1
        /\ Opening(l, << >>)[1] = Header(l)
    BY <1>3, <2>1, OpeningCells
  <2>3. <<Header(l)>> = Opening(l, << >>)
    BY <2>2
  <2>4. store' \in Files /\ store'.cells = Opening(l, << >>)
    BY <1>4, <2>2, <2>3 DEF Files
  <2>5. /\ writer' \in Writers /\ writer'.pc = "records" /\ writer'.length = l /\ writer'.at = 0
        /\ writer'.table = NoTable
    <3> HIDE DEF l
    <3>1. writer.at = 0 /\ writer.table = NoTable /\ writer \in Writers
      BY <1>1 DEF NoWriter, StoreTypes
    <3> QED BY <1>3, <1>4, <3>1 DEF Writers
  <2>6. TableOf(<< >>, 1) = NoTable /\ Parsed(<< >>)
    <3>1. Before(<< >>, 1) = {}
      BY DEF Before
    <3> QED BY <3>1, TableIs DEF Parsed
  <2>7. 0 <= l
    BY <1>3
  <2>8. WriterInv'
    BY <2>1, <2>4, <2>5, <2>6, <2>7, StillRecording
  <2>9. ~Holds(store'.cells, "plain")
    BY <1>3, <2>1, <2>4, NoPlain02
  <2>10. PlainInv'
    BY <2>9 DEF PlainInv, Remains
  <2>11. StoreTypes'
    BY <1>1, <1>3, <2>4, <2>5 DEF StoreTypes
  <2> QED BY <1>2, <2>8, <2>10, <2>11 DEF StoreInv
<1>5. CASE writer' = [writer EXCEPT !.pc = "failed"] /\ UNCHANGED store
  <2>1. writer' \in Writers /\ writer'.pc = "failed"
    BY <1>1, <1>5 DEF StoreTypes, Writers
  <2>2. ~Holds(store'.cells, "plain")
    BY <1>1, <1>5, EmptyFile
  <2>3. WriterInv' /\ PlainInv'
    BY <2>1, <2>2 DEF WriterInv, PlainInv, Remains, Finished
  <2>4. StoreTypes'
    BY <1>1, <1>3, <1>5, <2>1 DEF StoreTypes
  <2> QED BY <1>2, <2>3, <2>4 DEF StoreInv
<1> QED BY <1>4, <1>5 DEF WriteStreamOpen

\* write_stream: one more frame, or a file that is left as it is.
LEMMA RecordStep ==
    ASSUME StoreInv, WriteStreamRecord
    PROVE  StoreInv'
<1> DEFINE n == writer.at + 1
           x == input[n]
<1>1. /\ StoreTypes /\ WriterInv /\ PlainInv /\ SnapshotInv /\ Scanned(visitor)
      /\ writer.pc = "records" /\ writer.at < writer.length
      /\ UNCHANGED <<input, visitor, snapshot, changes>>
  BY DEF StoreInv, WriteStreamRecord
<1>2. PICK w \in Seq(RecordSet) : Recording(w)
  BY <1>1 DEF WriterInv
<1>3. Written = w
  BY <1>1, <1>2, WrittenIs
<1>4. SnapshotInv' /\ Scanned(visitor)' /\ ~Holds(store.cells, "plain")
  BY <1>1, NotReplayed DEF Finished, PlainInv
<1>5. CASE /\ n <= Len(input) /\ Decodes(Append(Written, x), writer.table, x)
           /\ store' = [store EXCEPT !.cells = Append(@, Frame(n, x, Written))]
           /\ writer' = [writer EXCEPT !.at = n, !.table = DecodeTable(@, x, n)]
  <2> DEFINE a == Append(w, x)
             l == writer.length
             t == DecodeTable(writer.table, x, n)
  <2>1. l \in Nat /\ writer.at \in Nat /\ writer.at < l /\ n \in Nat \ {0} /\ writer.table \in Nat
    BY <1>1 DEF StoreTypes, Writers
  <2>2. input \in Seq(RecordSet) /\ n \in 1 .. Len(input)
    BY <1>1, <1>5, <2>1 DEF StoreTypes
  <2>3. x \in RecordSet
    BY <2>2
  <2>4. /\ Len(w) = writer.at /\ store.cells = Opening(l, w) /\ Parsed(w)
        /\ writer.table = TableOf(w, n)
    BY <1>2 DEF Recording
  <2>5. n = Len(w) + 1 /\ n + 1 = Len(w) + 2 /\ n <= l
    BY <2>1, <2>4
  <2>6. Parsed(a) /\ TableOf(a, n + 1) = t
    BY <1>3, <1>5, <2>3, <2>4, <2>5, ParsedAppend
  <2>7. a \in Seq(RecordSet) /\ Len(a) = n
    BY <2>3, <2>5
  <2>8. t \in Nat
    BY <2>1 DEF DecodeTable, NoTable
  <2>9. store'.cells = Opening(l, a) /\ store' \in Files
    <3>1. store'.cells = Append(store.cells, Frame(n, x, w)) /\ store' = [store EXCEPT !.cells = Append(store.cells, Frame(n, x, w))]
      BY <1>1, <1>3, <1>5 DEF StoreTypes, Files
    <3>2. Append(store.cells, Frame(n, x, w)) = Opening(l, a)
      BY <2>1, <2>3, <2>4, <2>5, OpeningAppend
    <3>3. Opening(l, a) \in Seq(CellSet)
      <4> HIDE DEF a
      <4> QED BY <2>1, <2>7, OpeningCells
    <3> QED BY <1>1, <3>1, <3>2, <3>3 DEF StoreTypes, Files
  <2>10. /\ writer' \in Writers /\ writer'.pc = "records" /\ writer'.length = l /\ writer'.at = n
         /\ writer'.table = t
    <3> HIDE DEF n, x, t
    <3>1. writer' = [writer EXCEPT !.at = n, !.table = t]
      BY <1>5 DEF t, n, x
    <3> QED BY <1>1, <2>1, <2>8, <3>1 DEF StoreTypes, Writers
  <2> HIDE DEF a, t, l, n, x
  <2>12. WriterInv'
    BY <2>5, <2>6, <2>7, <2>9, <2>10, StillRecording
  <2>13. ~Holds(store'.cells, "plain")
    BY <2>1, <2>7, <2>9, NoPlain02
  <2>14. PlainInv'
    BY <2>13 DEF PlainInv, Remains
  <2>15. StoreTypes'
    BY <1>1, <2>9, <2>10 DEF StoreTypes
  <2> QED BY <1>4, <2>12, <2>14, <2>15 DEF StoreInv
<1>6. CASE writer' = [writer EXCEPT !.pc = "failed"] /\ UNCHANGED store
  <2>1. writer' \in Writers /\ writer'.pc = "failed"
    BY <1>1, <1>6 DEF StoreTypes, Writers
  <2>2. WriterInv' /\ PlainInv'
    BY <1>4, <1>6, <2>1 DEF WriterInv, PlainInv, Remains, Finished
  <2>3. StoreTypes'
    BY <1>1, <1>6, <2>1 DEF StoreTypes
  <2> QED BY <1>4, <2>2, <2>3 DEF StoreInv
<1> QED BY <1>5, <1>6 DEF WriteStreamRecord

\* write_stream: the terminal of a file that has all of the source.
LEMMA SealStep ==
    ASSUME StoreInv, WriteStreamSeal
    PROVE  StoreInv'
<1>1. /\ StoreTypes /\ WriterInv /\ PlainInv /\ SnapshotInv /\ Scanned(visitor)
      /\ writer.pc = "records" /\ writer.at = writer.length
      /\ UNCHANGED <<input, visitor, snapshot, changes>>
  BY DEF StoreInv, WriteStreamSeal
<1>2. PICK w \in Seq(RecordSet) : Recording(w)
  BY <1>1 DEF WriterInv
<1>3. Written = w
  BY <1>1, <1>2, WrittenIs
<1>4. SnapshotInv' /\ Scanned(visitor)' /\ ~Holds(store.cells, "plain")
  BY <1>1, NotReplayed DEF Finished, PlainInv
<1>5. CASE writer' = [writer EXCEPT !.pc = "failed"] /\ UNCHANGED store
  <2>1. writer' \in Writers /\ writer'.pc = "failed"
    BY <1>1, <1>5 DEF StoreTypes, Writers
  <2>2. WriterInv' /\ PlainInv'
    BY <1>4, <1>5, <2>1 DEF WriterInv, PlainInv, Remains, Finished
  <2>3. StoreTypes'
    BY <1>1, <1>5, <2>1 DEF StoreTypes
  <2> QED BY <1>4, <2>2, <2>3 DEF StoreInv
<1>6. CASE /\ ~(Len(input) > writer.length)
           /\ store' = [store EXCEPT !.cells = Append(@, Terminal(Written))]
           /\ writer' = [writer EXCEPT !.pc = "sealed", !.taken = input]
  <2>1. Len(w) = writer.length /\ store.cells = Opening(Len(w), w) /\ Parsed(w)
    BY <1>1, <1>2 DEF Recording
  <2>2. Append(store.cells, Terminal(w)) = Sealed02(w) /\ Sealed02(w) \in Seq(CellSet)
    BY <2>1, OpeningSealed, SealedCells
  <2>3. store' \in Files /\ store'.cells = Sealed02(w)
    BY <1>1, <1>3, <1>6, <2>2 DEF StoreTypes, Files
  <2>4. writer' \in Writers /\ writer'.pc = "sealed" /\ writer'.taken = input /\ Len(input) <= Len(w)
    <3>1. Len(input) \in Nat /\ Len(w) \in Nat /\ input \in Seq(RecordSet)
      BY <1>1 DEF StoreTypes
    <3>2. Len(input) <= Len(w)
      BY <1>6, <2>1, <3>1
    <3>3. writer' \in Writers /\ writer'.pc = "sealed" /\ writer'.taken = input
      BY <1>1, <1>6, <3>1 DEF StoreTypes, Writers
    <3> QED BY <3>2, <3>3
  <2>5. WriterInv'
    BY <2>1, <2>3, <2>4 DEF WriterInv
  <2>6. ~Holds(store'.cells, "plain")
    BY <2>3, NoPlain02
  <2>7. PlainInv'
    BY <2>6 DEF PlainInv, Remains
  <2>8. StoreTypes'
    BY <1>1, <2>3, <2>4 DEF StoreTypes
  <2> QED BY <1>4, <2>5, <2>7, <2>8 DEF StoreInv
<1> QED BY <1>5, <1>6 DEF WriteStreamSeal

\* write_stream_path: a sealed file becomes durable.
LEMMA SyncStep ==
    ASSUME StoreInv, WriteSync
    PROVE  StoreInv'
<1>1. /\ StoreTypes /\ WriterInv /\ PlainInv /\ SnapshotInv /\ Scanned(visitor)
      /\ writer.pc = "sealed" /\ UNCHANGED <<input, visitor, snapshot, changes>>
  BY DEF StoreInv, WriteSync
<1>2. store' \in Files /\ store'.cells = store.cells
  BY <1>1 DEF WriteSync, StoreTypes, Files
<1>3. writer' \in Writers /\ writer'.pc = "done" /\ writer'.taken = writer.taken
  BY <1>1 DEF WriteSync, StoreTypes, Writers
<1>4. StoreTypes'
  BY <1>1, <1>2, <1>3 DEF StoreTypes
<1>5. WriterInv' /\ PlainInv'
  BY <1>1, <1>2, <1>3 DEF WriterInv, PlainInv, Finished
<1>6. SnapshotInv' /\ Scanned(visitor)'
  BY <1>1, <1>3 DEF SnapshotInv, Finished
<1> QED BY <1>4, <1>5, <1>6 DEF StoreInv

\* create_with_options: the whole file, or none when the source does not parse.
LEMMA CreateStep ==
    ASSUME StoreInv, CreateStore
    PROVE  StoreInv'
<1>1. /\ StoreTypes /\ WriterInv /\ PlainInv /\ SnapshotInv /\ Scanned(visitor)
      /\ store \in {NoStore, Taken} /\ writer.pc = "idle"
      /\ UNCHANGED <<input, visitor, snapshot, changes>>
  BY DEF StoreInv, WriterInv, CreateStore
<1>2. SnapshotInv' /\ Scanned(visitor)'
  BY <1>1, NotReplayed DEF Finished
<1>3. ASSUME NEW pc \in {"failed", "rejected"}, writer' = [writer EXCEPT !.pc = pc], UNCHANGED store
      PROVE  StoreInv'
  <2>1. writer' \in Writers /\ writer'.pc = pc
    BY <1>1, <1>3 DEF StoreTypes, Writers
  <2>2. ~Holds(store'.cells, "plain")
    BY <1>1, <1>3, EmptyFile
  <2>3. WriterInv' /\ PlainInv'
    BY <1>1, <1>3, <2>1, <2>2 DEF WriterInv, PlainInv, Remains, Finished
  <2>4. StoreTypes'
    BY <1>1, <1>3, <2>1 DEF StoreTypes
  <2> QED BY <1>2, <2>3, <2>4 DEF StoreInv
<1>4. CASE /\ Parsed(input)
           /\ store' = [exists |-> TRUE, cells |-> Sealed01(input), synced |-> FALSE]
           /\ writer' = [writer EXCEPT !.pc = "sealed", !.length = Len(input), !.taken = input]
  <2>1. input \in Seq(RecordSet) /\ Len(input) \in Nat
    BY <1>1 DEF StoreTypes
  <2>2. store' \in Files /\ store'.cells = Sealed01(input)
    BY <1>4, <2>1, SealedCells DEF Files
  <2>3. writer' \in Writers /\ writer'.pc = "sealed" /\ writer'.taken = input
    BY <1>1, <1>4, <2>1 DEF StoreTypes, Writers
  <2>4. WriterInv'
    BY <1>4, <2>1, <2>2, <2>3 DEF WriterInv
  <2>5. PlainInv'
    BY <1>4, <2>1, <2>2, <2>3, Remains01 DEF PlainInv, Finished
  <2>6. StoreTypes'
    BY <1>1, <2>2, <2>3 DEF StoreTypes
  <2> QED BY <1>2, <2>4, <2>5, <2>6 DEF StoreInv
<1> QED BY <1>3, <1>4 DEF CreateStore

\* A crash keeps a prefix.
LEMMA StopStep ==
    ASSUME StoreInv, WriterStops
    PROVE  StoreInv'
<1>1. /\ StoreTypes /\ WriterInv /\ PlainInv /\ SnapshotInv /\ Scanned(visitor)
      /\ writer.pc \in {"records", "sealed"} /\ UNCHANGED <<input, visitor, snapshot, changes>>
  BY DEF StoreInv, WriterStops
<1>2. PICK n \in 0 .. Len(store.cells) : store' = [store EXCEPT !.cells = SubSeq(@, 1, n)]
  BY DEF WriterStops
<1>3. store.cells \in Seq(CellSet) /\ writer.taken \in Seq(RecordSet)
  BY <1>1 DEF StoreTypes, Files, Writers
<1>4. SubSeq(store.cells, 1, n) \in Seq(CellSet)
  BY <1>3
<1>5. store' \in Files /\ store'.cells = SubSeq(store.cells, 1, n)
  BY <1>1, <1>2, <1>4 DEF StoreTypes, Files
<1>6. writer' \in Writers /\ writer'.pc = "failed" /\ writer'.taken = writer.taken
  BY <1>1 DEF WriterStops, StoreTypes, Writers
<1>7. Remains(store'.cells, writer.taken)
  BY <1>1, <1>3, <1>5, RemainsCut DEF PlainInv
<1>8. WriterInv' /\ PlainInv'
  BY <1>6, <1>7 DEF WriterInv, PlainInv, Finished
<1>9. SnapshotInv' /\ Scanned(visitor)'
  BY <1>1, <1>6 DEF SnapshotInv, Finished
<1>10. StoreTypes'
  BY <1>1, <1>5, <1>6 DEF StoreTypes
<1> QED BY <1>8, <1>9, <1>10 DEF StoreInv

\* visit_verified_path and visit_verified.
LEMMA VisitSteps ==
    ASSUME StoreInv, VisitOpen \/ VisitStep
    PROVE  StoreInv'
<1>1. /\ StoreTypes /\ WriterInv /\ PlainInv /\ SnapshotInv /\ Scanned(visitor)
      /\ UNCHANGED <<input, store, writer, snapshot, changes>>
  BY DEF StoreInv, VisitOpen, VisitStep
<1>2. visitor' \in Visitor /\ Scanned(visitor')
  <2>1. CASE VisitOpen
    <3>1. << >> \in Seq(RecordSet)
      OBVIOUS
    <3> QED BY <2>1, <3>1, NewPassScanned DEF VisitOpen
  <2>2. CASE VisitStep
    <3>1. visitor \in Visitor /\ store.cells \in Seq(CellSet)
      BY <1>1 DEF StoreTypes, Files
    <3> QED BY <1>1, <2>2, <3>1, CellScanned DEF VisitStep
  <2> QED BY <2>1, <2>2
<1>3. StoreTypes'
  BY <1>1, <1>2 DEF StoreTypes
<1>4. WriterInv' /\ PlainInv'
  BY <1>1, FileUntouched
<1>5. SnapshotInv'
  BY <1>1 DEF SnapshotInv
<1> QED BY <1>2, <1>3, <1>4, <1>5 DEF StoreInv

\* replay_with_options.
LEMMA ReplaySteps ==
    ASSUME StoreInv, ReplayOpen \/ ReplayRead
    PROVE  StoreInv'
<1>1. /\ StoreTypes /\ WriterInv /\ PlainInv /\ SnapshotInv /\ Scanned(visitor)
      /\ UNCHANGED <<input, store, writer, visitor, changes>>
  BY DEF StoreInv, ReplayOpen, ReplayRead
<1>2. store.cells \in Seq(CellSet) /\ writer.taken \in Seq(RecordSet) /\ Len(store.cells) \in Nat
  BY <1>1 DEF StoreTypes, Files, Writers
<1>3. snapshot' \in Snapshots /\ SnapshotInv'
  <2>1. CASE ReplayOpen
    <3>1. snapshot' = [snapshot EXCEPT !.pc = "sized", !.size = Len(store.cells)]
      BY <2>1 DEF ReplayOpen
    <3>2. snapshot' \in Snapshots /\ snapshot'.pc = "sized"
      BY <1>1, <1>2, <3>1 DEF StoreTypes, Snapshots
    <3> QED BY <3>2 DEF SnapshotInv
  <2>2. CASE ReplayRead /\ SnapshotSound(store.cells)
                        /\ snapshot' = [snapshot EXCEPT !.pc = "done", !.archive = Body(store.cells)]
    <3>1. Holds(store.cells, "plain") /\ Body(store.cells) = writer.taken /\ Parsed(writer.taken)
      BY <1>1, <1>2, <2>2, ReplayIs DEF PlainInv
    <3>2. writer.pc \in Finished
      BY <1>1, <3>1 DEF PlainInv
    <3>3. snapshot' \in Snapshots /\ snapshot'.archive = writer.taken
      BY <1>1, <1>2, <2>2, <3>1 DEF StoreTypes, Snapshots
    <3> QED BY <1>1, <3>1, <3>2, <3>3 DEF SnapshotInv
  <2>3. CASE snapshot' = [snapshot EXCEPT !.pc = "failed"]
    <3>1. snapshot' \in Snapshots /\ snapshot'.pc = "failed"
      BY <1>1, <2>3 DEF StoreTypes, Snapshots
    <3> QED BY <3>1 DEF SnapshotInv
  <2> QED BY <2>1, <2>2, <2>3 DEF ReplayRead
<1>4. StoreTypes'
  BY <1>1, <1>3 DEF StoreTypes
<1>5. WriterInv' /\ PlainInv'
  BY <1>1, FileUntouched
<1> QED BY <1>1, <1>3, <1>4, <1>5 DEF StoreInv

\* The source changes under its readers.
LEMMA SourceStep ==
    ASSUME StoreInv, SourceChanges
    PROVE  StoreInv'
<1>1. /\ StoreTypes /\ WriterInv /\ PlainInv /\ SnapshotInv /\ Scanned(visitor)
      /\ UNCHANGED <<store, writer, visitor, snapshot>> /\ changes' = changes + 1
  BY DEF StoreInv, SourceChanges
<1>2. input \in Seq(RecordSet) /\ changes' \in Nat
  BY <1>1 DEF StoreTypes
<1>3. input' \in Seq(RecordSet)
  <2>1. CASE \E s \in Sources : Len(s) > 0 /\ input' = Append(input, s[1])
    <3>1. PICK s \in Sources : Len(s) > 0 /\ input' = Append(input, s[1])
      BY <2>1
    <3>2. s \in Seq(RecordSet)
      BY StoreParameters
    <3>3. s[1] \in RecordSet
      BY <3>1, <3>2
    <3> QED BY <1>2, <3>1, <3>3
  <2>2. CASE input # << >> /\ input' = SubSeq(input, 1, Len(input) - 1)
    BY <1>2, <2>2
  <2> QED BY <2>1, <2>2 DEF SourceChanges
<1>4. StoreTypes'
  BY <1>1, <1>2, <1>3 DEF StoreTypes
<1>5. WriterInv' /\ PlainInv'
  BY <1>1, FileUntouched
<1>6. SnapshotInv'
  BY <1>1 DEF SnapshotInv
<1> QED BY <1>1, <1>4, <1>5, <1>6 DEF StoreInv

\* The file changes under its readers.
LEMMA ChangeStep ==
    ASSUME StoreInv, StoreChanges
    PROVE  StoreInv'
<1>1. /\ StoreTypes /\ WriterInv /\ PlainInv /\ SnapshotInv /\ Scanned(visitor)
      /\ UNCHANGED <<input, writer, visitor, snapshot>> /\ changes' = changes + 1
      /\ writer.pc \in {"done", "failed"}
  BY DEF StoreInv, StoreChanges
<1>2. store.cells \in Seq(CellSet) /\ writer.taken \in Seq(RecordSet) /\ changes' \in Nat
  BY <1>1 DEF StoreTypes, Files, Writers
<1>3. ASSUME NEW c \in Seq(CellSet), Remains(c, writer.taken), store' = [store EXCEPT !.cells = c]
      PROVE  StoreInv'
  <2>1. store' \in Files /\ store'.cells = c
    BY <1>1, <1>3 DEF StoreTypes, Files
  <2>2. StoreTypes'
    BY <1>1, <1>2, <2>1 DEF StoreTypes
  <2>3. WriterInv' /\ PlainInv'
    BY <1>1, <1>3, <2>1 DEF WriterInv, PlainInv, Finished
  <2>4. SnapshotInv'
    BY <1>1 DEF SnapshotInv
  <2> QED BY <1>1, <2>2, <2>3, <2>4 DEF StoreInv
<1>4. CASE \E s \in Sources : store' = [store EXCEPT !.cells = Sealed02(s)]
  <2>1. PICK s \in Sources : store' = [store EXCEPT !.cells = Sealed02(s)]
    BY <1>4
  <2>2. s \in Seq(RecordSet) /\ 0 \in Nat
    BY StoreParameters
  <2>3. Sealed02(s) \in Seq(CellSet) /\ ~Holds(Sealed02(s), "plain")
    BY <2>2, SealedCells, NoPlain02
  <2>4. Remains(Sealed02(s), writer.taken)
    BY <2>3 DEF Remains
  <2> QED BY <1>3, <2>1, <2>3, <2>4
<1>5. CASE \E n \in 0 .. (Len(store.cells) - 1) : store' = [store EXCEPT !.cells = SubSeq(@, 1, n)]
  <2>1. PICK n \in 0 .. (Len(store.cells) - 1) : store' = [store EXCEPT !.cells = SubSeq(@, 1, n)]
    BY <1>5
  <2>2. n \in 0 .. Len(store.cells)
    BY <1>2
  <2>3. SubSeq(store.cells, 1, n) \in Seq(CellSet)
    BY <1>2, <2>2
  <2>4. Remains(SubSeq(store.cells, 1, n), writer.taken)
    BY <1>1, <1>2, <2>2, RemainsCut DEF PlainInv
  <2> QED BY <1>3, <2>1, <2>3, <2>4
<1>6. CASE \E i \in DOMAIN store.cells : store' = [store EXCEPT !.cells = Append(@, store.cells[i])]
  <2>1. PICK i \in DOMAIN store.cells : store' = [store EXCEPT !.cells = Append(@, store.cells[i])]
    BY <1>6
  <2>2. Append(store.cells, store.cells[i]) \in Seq(CellSet)
    BY <1>2
  <2>3. Remains(Append(store.cells, store.cells[i]), writer.taken)
    BY <1>1, <1>2, RemainsGrown DEF PlainInv
  <2> QED BY <1>3, <2>1, <2>2, <2>3
<1> QED BY <1>4, <1>5, <1>6 DEF StoreChanges

-----------------------------------------------------------------------------
\* However the source changes under its readers and wherever a writer is cut
\* short, a visit that succeeds emitted the rows of one complete source, and an
\* archive that replays is the source that was written (bgp_mrt_stream.rs
\* visit_verified, bgp_mrt_stream_store.rs write_stream, bgp_mrt_store.rs).
THEOREM ArchiveHonestThm == StoreSpec => []ArchiveHonest
<1>1. StoreInit => StoreInv
  <2> SUFFICES ASSUME StoreInit PROVE StoreInv
    OBVIOUS
  <2>1. input \in Seq(RecordSet) /\ changes \in Nat
    BY StoreParameters DEF StoreInit
  <2>2. store \in {NoStore, Taken}
    BY DEF StoreInit
  <2>3. store \in Files /\ ~Holds(store.cells, "plain")
    BY <2>2, EmptyFile
  <2>4. writer = NoWriter /\ writer \in Writers /\ writer.pc = "idle"
    <3>1. << >> \in Seq(RecordSet)
      OBVIOUS
    <3>2. NoWriter \in Writers /\ NoWriter.pc = "idle"
      BY <3>1 DEF NoWriter, Writers, NoTable
    <3> QED BY <3>2 DEF StoreInit
  <2>5. visitor \in Visitor /\ Scanned(visitor)
    <3>1. << >> \in Seq(RecordSet)
      OBVIOUS
    <3> QED BY <3>1, NewPassScanned DEF StoreInit
  <2>6. snapshot \in Snapshots /\ snapshot.pc = "idle"
    BY DEF StoreInit, NoSnapshot, Snapshots
  <2>7. StoreTypes
    BY <2>1, <2>3, <2>4, <2>5, <2>6 DEF StoreTypes
  <2>8. WriterInv /\ PlainInv /\ SnapshotInv
    BY <2>2, <2>3, <2>4, <2>6 DEF WriterInv, PlainInv, SnapshotInv, Remains
  <2> QED BY <2>5, <2>7, <2>8 DEF StoreInv
<1>2. StoreInv /\ [StoreNext]_storeVars => StoreInv'
  <2> SUFFICES ASSUME StoreInv, [StoreNext]_storeVars PROVE StoreInv'
    OBVIOUS
  <2>1. CASE WriteStreamOpen \/ WriteStreamRecord \/ WriteStreamSeal \/ WriteSync
    BY <2>1, OpenStep, RecordStep, SealStep, SyncStep
  <2>2. CASE CreateStore \/ WriterStops
    BY <2>2, CreateStep, StopStep
  <2>3. CASE VisitOpen \/ VisitStep \/ ReplayOpen \/ ReplayRead
    BY <2>3, VisitSteps, ReplaySteps
  <2>4. CASE SourceChanges \/ StoreChanges
    BY <2>4, SourceStep, ChangeStep
  <2>5. CASE UNCHANGED storeVars
    <3>1. UNCHANGED <<input, store, writer, visitor, snapshot, changes>>
      BY <2>5 DEF storeVars
    <3>2. WriterInv' /\ PlainInv'
      BY <3>1, FileUntouched DEF StoreInv
    <3>3. StoreTypes' /\ SnapshotInv' /\ Scanned(visitor)'
      BY <3>1 DEF StoreInv, StoreTypes, SnapshotInv
    <3> QED BY <3>2, <3>3 DEF StoreInv
  <2> QED BY <2>1, <2>2, <2>3, <2>4, <2>5 DEF StoreNext
<1>3. StoreInv => ArchiveHonest
  <2> SUFFICES ASSUME StoreInv PROVE VisitHonest /\ StoreHonest
    BY DEF ArchiveHonest
  <2>1. VisitHonest
    BY DEF StoreInv, Scanned, VisitHonest
  <2>2. ASSUME writer.pc = "sealed"
        PROVE  \E all \in {Body(store.cells)} :
                  /\ Parsed(all)
                  /\ store.cells \in {Sealed01(all), Sealed02(all)}
                  /\ Len(writer.taken) <= Len(all)
    <3>1. PICK all \in Seq(RecordSet) :
             /\ Parsed(all)
             /\ store.cells \in {Sealed01(all), Sealed02(all)}
             /\ Len(writer.taken) <= Len(all)
      BY <2>2 DEF StoreInv, WriterInv
    <3>2. Body(store.cells) = all
      BY <3>1, BodySealed
    <3> QED BY <3>1, <3>2
  <2>3. snapshot.pc = "done" => snapshot.archive = writer.taken /\ Parsed(snapshot.archive)
    BY DEF StoreInv, SnapshotInv
  <2>4. writer.pc = "rejected" => store \in {NoStore, Taken}
    BY DEF StoreInv, WriterInv
  <2> QED BY <2>1, <2>2, <2>3, <2>4 DEF StoreHonest
<1> QED BY <1>1, <1>2, <1>3, PTL DEF StoreSpec
===============================================================================
