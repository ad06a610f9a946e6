------------------------------ MODULE RangeQuery ------------------------------
(* History::range and History::generations of history/src/query.rs with       *)
(* Index::lower_bound of history/src/index.rs: the interval query over the    *)
(* sorted rows of ranges.idx, and the paged list of generations.  Positions   *)
(* are counted from i64::MIN.                                                 *)
EXTENDS Naturals, Sequences, FiniteSets

CONSTANTS
    Indexes,        \* the indexes: sequences of rows
    Queries,        \* the range queries
    MaxLen,         \* 65535, the longest row
    MaxIntervals,   \* config.max_query_intervals
    MaxReferences,  \* 4 * max_query_intervals
    PageLimits      \* the page sizes asked for

VARIABLES
    rows,    \* ranges.idx
    query,   \* the query being answered, or << >>
    pc, lo, hi, at, scanned,
    seen,    \* observations, in index order
    pieces,  \* the answer so far
    refs,    \* references of the answer to observations
    limit,   \* size of the page being read
    page,    \* generations of that page so far
    listed,  \* generations of the pages before it
    paging   \* whether the last page said that there are more

rangeVars == << query, lo, hi, seen, pieces, refs >>
pageVars == << limit, page, listed, paging >>
queryVars == << rows, rangeVars, pc, at, scanned, pageVars >>

(* The rows that Row::decode lets through, with the payload they stand for.   *)
Row == { r \in [generation : Nat \ {0}, direction : {0, 1}, start : Nat, end : Nat,
                ordinal : Nat, selected : BOOLEAN, bytes : Seq(Nat)] :
           /\ r.start < r.end /\ r.end - r.start <= MaxLen
           /\ Len(r.bytes) = r.end - r.start }

Asked == [generation : Nat, direction : {0, 1}, start : Nat, end : Nat]

(* The constants are of their kinds. *)
ASSUME RangeParameters ==
    MaxLen \in Nat /\ Queries \subseteq Asked /\ PageLimits \subseteq Nat

(* The order of the index, and the part of it lower_bound looks at. *)
Before(a, b) ==
    \E i \in DOMAIN a : a[i] < b[i] /\ \A j \in 1 .. (i - 1) : a[j] = b[j]

Key(r) == << r.generation, r.direction, r.start, r.end, r.ordinal >>
Place(r) == << r.generation, r.direction, r.start >>

(* What sort_checked leaves in ranges.idx. *)
IsIndex(index) ==
    /\ index \in Seq(Row)
    /\ \A i, j \in DOMAIN index : i < j => ~Before(Key(index[j]), Key(index[i]))

RangeInit ==
    /\ rows \in Indexes /\ IsIndex(rows)
    /\ query = << >> /\ pc = "idle" /\ lo = 0 /\ hi = 0 /\ at = 0 /\ scanned = 0
    /\ seen = << >> /\ pieces = << >> /\ refs = 0
    /\ limit = 0 /\ page = << >> /\ listed = << >> /\ paging = TRUE

(* No row that reaches `start` begins before this. *)
LookBack(start) == IF start > MaxLen THEN start - MaxLen ELSE 0

Target == << query.generation, query.direction, LookBack(query.start) >>

(* range: the arguments are in order; the binary search starts. *)
Ask(q) ==
    /\ pc = "idle" /\ q.start < q.end
    /\ query' = q
    /\ lo' = 0 /\ hi' = Len(rows)
    /\ scanned' = 0 /\ seen' = << >> /\ pieces' = << >> /\ refs' = 0
    /\ pc' = "search"
    /\ UNCHANGED << rows, at, pageVars >>

(* One turn of the loop of lower_bound; index n of the code is rows[n + 1]. *)
Search ==
    /\ pc = "search" /\ lo < hi
    /\ LET mid == lo + (hi - lo) \div 2
       IN  IF Before(Place(rows[mid + 1]), Target)
           THEN lo' = mid + 1 /\ UNCHANGED hi
           ELSE hi' = mid /\ UNCHANGED lo
    /\ UNCHANGED << rows, query, pc, at, scanned, seen, pieces, refs, pageVars >>

Found ==
    /\ pc = "search" /\ lo >= hi
    /\ at' = lo
    /\ pc' = "scan"
    /\ UNCHANGED << rows, rangeVars, scanned, pageVars >>

Beyond(r) ==
    r.generation # query.generation \/ r.direction # query.direction \/ r.start >= query.end

ScanAllowed == scanned < MaxIntervals

(* One turn of the scan.  The budget is charged before the row is looked at. *)
Scan ==
    /\ pc = "scan" /\ at < Len(rows) /\ ScanAllowed
    /\ scanned' = scanned + 1
    /\ at' = at + 1
    /\ LET r == rows[at + 1]
       IN  /\ pc' = IF Beyond(r) THEN "cut" ELSE "scan"
           /\ seen' = IF ~Beyond(r) /\ r.end > query.start THEN Append(seen, r) ELSE seen
    /\ UNCHANGED << rows, query, lo, hi, pieces, refs, pageVars >>

ScanLimit ==
    /\ pc = "scan" /\ at < Len(rows) /\ ~ScanAllowed
    /\ pc' = "error"
    /\ UNCHANGED << rows, rangeVars, at, scanned, pageVars >>

ScanEnd ==
    /\ pc = "scan" /\ at >= Len(rows)
    /\ pc' = "cut"
    /\ UNCHANGED << rows, rangeVars, at, scanned, pageVars >>

(* A record, a witness or the work budget fails the query. *)
Refuse ==
    /\ pc \in {"scan", "cut"}
    /\ pc' = "error"
    /\ UNCHANGED << rows, rangeVars, at, scanned, pageVars >>

Greater(a, b) == IF a > b THEN a ELSE b
Smaller(a, b) == IF a < b THEN a ELSE b

(* Where the set of covering rows may change. *)
Cuts ==
    {query.start, query.end}
    \cup { Greater(seen[i].start, query.start) : i \in DOMAIN seen }
    \cup { Smaller(seen[i].end, query.end) : i \in DOMAIN seen }

(* The pair of the loop over cuts.windows(2) whose turn it is. *)
Cursor == IF pieces = << >> THEN query.start ELSE pieces[Len(pieces)].end
NextCut(a) == CHOOSE b \in Cuts : a < b /\ \A c \in Cuts : a < c => b <= c

(* The bytes that a row has at the positions from a to b. *)
Slice(r, a, b) == [n \in 1 .. (b - a) |-> r.bytes[n + a - r.start]]

(* Mutant of Status: whatever covers a piece, the first row decides. *)
FirstWins(slices, certain) == "candidate"

(* What the rows that cover a piece make of it. *)
Status(slices, certain) ==
    IF \E s, t \in slices : s # t THEN "conflicting_bytes"
    ELSE IF ~certain THEN "ambiguous_sequence_placement"
    ELSE "candidate"

Covering(a, b) == { i \in DOMAIN seen : seen[i].start <= a /\ seen[i].end >= b }

Piece(a, b) ==
    LET ids == Covering(a, b)
        slices == { Slice(seen[i], a, b) : i \in ids }
        status == IF ids = {} THEN "gap"
                  ELSE Status(slices, \A i \in ids : seen[i].selected)
    IN  [start |-> a, end |-> b, ids |-> ids, status |-> status,
         bytes |-> IF status = "candidate" THEN CHOOSE s \in slices : TRUE ELSE << >>]

(* One turn of the loop over the cuts. *)
Cut ==
    /\ pc = "cut" /\ Cursor < query.end
    /\ LET p == Piece(Cursor, NextCut(Cursor))
           all == refs + Cardinality(p.ids)
       IN  \/ /\ all <= MaxReferences
              /\ pieces' = Append(pieces, p) /\ refs' = all /\ UNCHANGED pc
           \/ /\ all > MaxReferences
              /\ pc' = "error" /\ UNCHANGED << pieces, refs >>
    /\ UNCHANGED << rows, query, lo, hi, at, scanned, seen, pageVars >>

Answer ==
    /\ pc = "cut" /\ Cursor >= query.end
    /\ pc' = "done"
    /\ UNCHANGED << rows, rangeVars, at, scanned, pageVars >>

(* The caller is done with the answer. *)
Close ==
    /\ pc \in {"done", "error"}
    /\ pc' = "idle"
    /\ query' = << >> /\ pieces' = << >> /\ seen' = << >> /\ refs' = 0
    /\ lo' = 0 /\ hi' = 0 /\ at' = 0 /\ scanned' = 0
    /\ limit' = 0 /\ page' = << >>
    /\ UNCHANGED << rows, listed, paging >>

(* lower_bound(id, 1, i64::MAX): how many rows come before those of a later   *)
(* generation.                                                                *)
Jump(generation) == CHOOSE n \in 0 .. Len(rows) :
    /\ n < Len(rows) => rows[n + 1].generation > generation
    /\ \A j \in 1 .. n : rows[j].generation <= generation

(* generations(after, n): the caller asks for the page behind the last        *)
(* generation it has.                                                         *)
AskPage(n) ==
    /\ pc = "idle" /\ paging /\ n > 0
    /\ limit' = n /\ page' = << >> /\ scanned' = 0
    /\ at' = IF listed = << >> THEN 0 ELSE Jump(listed[Len(listed)])
    /\ pc' = "page"
    /\ UNCHANGED << rows, rangeVars, listed, paging >>

PageAllowed == scanned < MaxIntervals

(* One turn of its loop: list the generation of the next row and jump over    *)
(* its rows.  A row of `after` or before it is never met.                     *)
ListNext ==
    /\ pc = "page" /\ at < Len(rows) /\ Len(page) < limit /\ PageAllowed
    /\ LET g == rows[at + 1].generation
       IN  /\ page' = Append(page, g)
           /\ at' = Greater(Jump(g), at + 1)
    /\ scanned' = scanned + 1
    /\ UNCHANGED << rows, rangeVars, pc, limit, listed, paging >>

ListLimit ==
    /\ pc = "page" /\ at < Len(rows) /\ Len(page) < limit /\ ~PageAllowed
    /\ pc' = "error"
    /\ UNCHANGED << rows, rangeVars, at, scanned, pageVars >>

(* has_more: the page is not empty and generations(last, 1) would not be. *)
PageEnd ==
    /\ pc = "page" /\ (at >= Len(rows) \/ Len(page) >= limit)
    /\ listed' = listed \o page
    /\ paging' = (page # << >> /\ Jump(page[Len(page)]) < Len(rows))
    /\ pc' = "idle"
    /\ limit' = 0 /\ page' = << >> /\ at' = 0 /\ scanned' = 0
    /\ UNCHANGED << rows, rangeVars >>

RangeNext ==
    \/ \E q \in Queries : Ask(q)
    \/ Search \/ Found \/ Scan \/ ScanLimit \/ ScanEnd \/ Refuse \/ Cut \/ Answer \/ Close
    \/ \E n \in PageLimits : AskPage(n)
    \/ ListNext \/ ListLimit \/ PageEnd

RangeSpec == RangeInit /\ [][RangeNext]_queryVars

------------------------------------------------------------------------------
Matching ==
    { i \in DOMAIN rows : /\ rows[i].generation = query.generation
                          /\ rows[i].direction = query.direction
                          /\ rows[i].start < query.end /\ query.start < rows[i].end }

(* An answer rests on every row that overlaps the range and on no other: the  *)
(* look-back of 65535 before the binary search misses none.                   *)
ObservationsComplete ==
    pc \in {"cut", "done"} =>
        /\ \A k \in DOMAIN seen : \E i \in Matching : seen[k] = rows[i]
        /\ \A i \in Matching : \E k \in DOMAIN seen : seen[k] = rows[i]

Over(x) == { i \in Matching : rows[i].start <= x /\ x < rows[i].end }
ByteAt(i, x) == rows[i].bytes[x - rows[i].start + 1]

(* A gap has no row at all; bytes are those that every row has there, all of  *)
(* them selected; in a conflict two rows differ somewhere; and in an          *)
(* ambiguity some row over every byte is not selected.                        *)
Honest(p) ==
    LET span == p.start .. (p.end - 1)
    IN  /\ p.status = "gap" => \A x \in span : Over(x) = {}
        /\ p.status = "candidate" =>
              \A x \in span : /\ Over(x) # {}
                             /\ \A i \in Over(x) : /\ rows[i].selected
                                                   /\ ByteAt(i, x) = p.bytes[x - p.start + 1]
        /\ p.status = "conflicting_bytes" =>
              \E x \in span : \E i, j \in Over(x) : ByteAt(i, x) # ByteAt(j, x)
        /\ p.status = "ambiguous_sequence_placement" =>
              \A x \in span : \E i \in Over(x) : ~rows[i].selected

(* The pieces follow one another from the start of the range. *)
Tiled ==
    /\ pieces # << >> => pieces[1].start = query.start
    /\ \A n \in DOMAIN pieces : pieces[n].start < pieces[n].end
    /\ \A n \in DOMAIN pieces : n + 1 \in DOMAIN pieces => pieces[n].end = pieces[n + 1].start

(* An answer rests on every row that overlaps the range.  Its pieces tile the *)
(* range, and each of them is honest about the rows over its bytes.           *)
NoByteInvented ==
    /\ ObservationsComplete
    /\ pc = "done" => /\ Tiled /\ pieces # << >> /\ Cursor = query.end
                      /\ \A n \in DOMAIN pieces : Honest(pieces[n])

(* The pages together list every generation once, in order, whatever the page *)
(* sizes.                                                                     *)
PagesComplete ==
    /\ \A i, j \in DOMAIN listed : i < j => listed[i] < listed[j]
    /\ \A k \in DOMAIN listed : \E i \in DOMAIN rows : listed[k] = rows[i].generation
    /\ ~paging => \A i \in DOMAIN rows : \E k \in DOMAIN listed : listed[k] = rows[i].generation

(* A query neither invents nor omits: no byte without agreement of all the    *)
(* rows that cover it, no generation left out of the pages or listed twice.   *)
QueryHonest == NoByteInvented /\ PagesComplete
===============================================================================
