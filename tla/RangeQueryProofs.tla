--------------------------- MODULE RangeQueryProofs ---------------------------
(***************************************************************************)
(* Proofs about the range query and the pages of generations, for any      *)
(* sorted index, any queries and any limits.                               *)
(***************************************************************************)
EXTENDS RangeQuery, SequenceTheorems, WellFoundedInduction, TLAPS

-----------------------------------------------------------------------------
(***************************************************************************)
(* The order of the index, without the tuples.                             *)
(***************************************************************************)
\* A row is before the target of the search as the three fields say.
LEMMA BeforeTarget ==
    ASSUME NEW r \in Row, NEW g \in Nat, NEW d \in Nat, NEW s \in Nat
    PROVE  Before(Place(r), << g, d, s >>) <=>
              \/ r.generation < g
              \/ r.generation = g /\ r.direction < d
              \/ r.generation = g /\ r.direction = d /\ r.start < s
<1> DEFINE a == Place(r)
           b == << g, d, s >>
<1>1. DOMAIN a = 1 .. 3 /\ a[1] = r.generation /\ a[2] = r.direction /\ a[3] = r.start
  BY DEF Place
<1>2. b[1] = g /\ b[2] = d /\ b[3] = s
  OBVIOUS
<1>3. r.generation \in Nat /\ r.direction \in Nat /\ r.start \in Nat
  BY DEF Row
<1>4. Before(a, b) <=> \E i \in 1 .. 3 : a[i] < b[i] /\ \A j \in 1 .. (i - 1) : a[j] = b[j]
  BY <1>1 DEF Before
<1> HIDE DEF a, b
<1>5. (\A j \in 1 .. (1 - 1) : a[j] = b[j]) <=> TRUE
  OBVIOUS
<1>6. (\A j \in 1 .. (2 - 1) : a[j] = b[j]) <=> a[1] = b[1]
  OBVIOUS
<1>7. (\A j \in 1 .. (3 - 1) : a[j] = b[j]) <=> a[1] = b[1] /\ a[2] = b[2]
  OBVIOUS
<1>8. Before(a, b) <=>
        \/ a[1] < b[1] /\ \A j \in 1 .. (1 - 1) : a[j] = b[j]
        \/ a[2] < b[2] /\ \A j \in 1 .. (2 - 1) : a[j] = b[j]
        \/ a[3] < b[3] /\ \A j \in 1 .. (3 - 1) : a[j] = b[j]
  BY <1>4
<1>9. Before(a, b) <=>
        \/ r.generation < g
        \/ r.generation = g /\ r.direction < d
        \/ r.generation = g /\ r.direction = d /\ r.start < s
  BY <1>1, <1>2, <1>5, <1>6, <1>7, <1>8
<1> QED BY <1>9 DEF a, b

\* A row whose place is smaller has the smaller key.
LEMMA SmallerPlace ==
    ASSUME NEW q \in Row, NEW r \in Row,
           \/ q.generation < r.generation
           \/ q.generation = r.generation /\ q.direction < r.direction
           \/ q.generation = r.generation /\ q.direction = r.direction /\ q.start < r.start
    PROVE  Before(Key(q), Key(r))
<1> DEFINE a == Key(q)
           b == Key(r)
<1>1. DOMAIN a = 1 .. 5 /\ a[1] = q.generation /\ a[2] = q.direction /\ a[3] = q.start
  BY DEF Key
<1>2. b[1] = r.generation /\ b[2] = r.direction /\ b[3] = r.start
  BY DEF Key
<1> HIDE DEF a, b
<1>3. CASE q.generation < r.generation
  <2>1. 1 \in DOMAIN a /\ a[1] < b[1] /\ \A j \in 1 .. (1 - 1) : a[j] = b[j]
    BY <1>1, <1>2, <1>3
  <2>2. Before(a, b)
    BY <2>1 DEF Before
  <2> QED BY <2>2 DEF a, b
<1>4. CASE q.generation = r.generation /\ q.direction < r.direction
  <2>1. 2 \in DOMAIN a /\ a[2] < b[2] /\ \A j \in 1 .. (2 - 1) : a[j] = b[j]
    BY <1>1, <1>2, <1>4
  <2>2. Before(a, b)
    BY <2>1 DEF Before
  <2> QED BY <2>2 DEF a, b
<1>5. CASE q.generation = r.generation /\ q.direction = r.direction /\ q.start < r.start
  <2>1. 3 \in DOMAIN a /\ a[3] < b[3] /\ \A j \in 1 .. (3 - 1) : a[j] = b[j]
    BY <1>1, <1>2, <1>5
  <2>2. Before(a, b)
    BY <2>1 DEF Before
  <2> QED BY <2>2 DEF a, b
<1> QED BY <1>3, <1>4, <1>5

\* A sequence with an element behind it.
Longer(s, e, t) ==
    /\ Len(s) \in Nat /\ Len(t) = Len(s) + 1
    /\ DOMAIN s = 1 .. Len(s) /\ DOMAIN t = 1 .. Len(t)
    /\ \A n \in 1 .. Len(s) : t[n] = s[n]
    /\ t[Len(s) + 1] = e /\ t # << >>
    /\ s = << >> <=> Len(s) = 0

\* Append makes one.
LEMMA Extended ==
    ASSUME NEW S, NEW s \in Seq(S), NEW e \in S
    PROVE  Append(s, e) \in Seq(S) /\ Longer(s, e, Append(s, e))
BY AppendProperties, EmptySeq DEF Longer

\* What a row of an index is.
LEMMA RowFields ==
    ASSUME IsIndex(rows), NEW i \in DOMAIN rows
    PROVE  /\ rows[i] \in Row /\ i \in Nat
           /\ rows[i].generation \in Nat /\ rows[i].direction \in Nat
           /\ rows[i].start \in Nat /\ rows[i].end \in Nat
           /\ rows[i].start < rows[i].end /\ rows[i].end - rows[i].start <= MaxLen
           /\ rows[i].bytes \in Seq(Nat) /\ Len(rows[i].bytes) = rows[i].end - rows[i].start
<1>1. rows[i] \in Row /\ i \in Nat
  BY DEF IsIndex
<1> QED BY <1>1 DEF Row

\* The places of a sorted index never decrease.
LEMMA PlacesAscend ==
    ASSUME IsIndex(rows), NEW i \in DOMAIN rows, NEW j \in DOMAIN rows, i < j
    PROVE  /\ rows[i] \in Row /\ rows[j] \in Row
           /\ rows[i].generation <= rows[j].generation
           /\ rows[i].generation = rows[j].generation =>
                 /\ rows[i].direction <= rows[j].direction
                 /\ rows[i].direction = rows[j].direction => rows[i].start <= rows[j].start
<1>1. rows[i] \in Row /\ rows[j] \in Row
  BY DEF IsIndex
<1>2. ~Before(Key(rows[j]), Key(rows[i]))
  BY DEF IsIndex
<1>3. /\ rows[i].generation \in Nat /\ rows[i].direction \in Nat /\ rows[i].start \in Nat
      /\ rows[j].generation \in Nat /\ rows[j].direction \in Nat /\ rows[j].start \in Nat
  BY SMTT(60), <1>1 DEF Row
<1>4. ~(\/ rows[j].generation < rows[i].generation
        \/ rows[j].generation = rows[i].generation /\ rows[j].direction < rows[i].direction
        \/ /\ rows[j].generation = rows[i].generation /\ rows[j].direction = rows[i].direction
           /\ rows[j].start < rows[i].start)
  BY <1>1, <1>2, SmallerPlace
<1> QED BY <1>1, <1>3, <1>4

\* A set of naturals that is not empty has a least element.
LEMMA LeastNat ==
    ASSUME NEW T, T \subseteq Nat, T # {}
    PROVE  \E u \in T : \A v \in T : u <= v
<1> DEFINE R == OpToRel(<, Nat)
<1>1. \E u \in T : \A v \in T : ~ (<<v, u>> \in R)
  <2> HIDE DEF R
  <2> QED BY NatLessThanWellFounded, WFMin DEF R
<1>2. PICK u \in T : \A v \in T : ~ (v < u)
  BY <1>1 DEF OpToRel
<1> QED BY <1>2

\* lower_bound(id, 1, i64::MAX) splits the index where a later generation starts.
LEMMA JumpSplits ==
    ASSUME IsIndex(rows), NEW g \in Nat
    PROVE  /\ Jump(g) \in 0 .. Len(rows)
           /\ \A j \in 1 .. Jump(g) : rows[j].generation <= g
           /\ \A j \in (Jump(g) + 1) .. Len(rows) : rows[j].generation > g
<1> DEFINE T == {j \in 1 .. Len(rows) : rows[j].generation > g}
           Split(n) == /\ n < Len(rows) => rows[n + 1].generation > g
                       /\ \A j \in 1 .. n : rows[j].generation <= g
<1>1. Len(rows) \in Nat /\ DOMAIN rows = 1 .. Len(rows)
  BY DEF IsIndex
<1>2. \A j \in 1 .. Len(rows) : rows[j].generation \in Nat
  BY <1>1 DEF IsIndex, Row
<1>3. \E n \in 0 .. Len(rows) : Split(n)
  <2>1. CASE T = {}
    <3>1. Split(Len(rows))
      BY <1>1, <1>2, <2>1
    <3> QED BY <1>1, <3>1
  <2>2. CASE T # {}
    <3>1. PICK u \in T : \A v \in T : u <= v
      <4>1. T \subseteq Nat
        OBVIOUS
      <4> HIDE DEF T
      <4> QED BY <2>2, <4>1, LeastNat
    <3>2. u - 1 \in 0 .. Len(rows) /\ u - 1 + 1 = u /\ u \in 1 .. Len(rows)
      BY <1>1
    <3>3. ASSUME NEW j \in 1 .. (u - 1) PROVE rows[j].generation <= g
      <4>1. j \in 1 .. Len(rows) /\ ~(u <= j)
        BY <1>1, <3>2
      <4>2. j \notin T
        BY <3>1, <4>1
      <4> QED BY <1>2, <4>1, <4>2
    <3>4. Split(u - 1)
      BY <3>2, <3>3
    <3> QED BY <3>2, <3>4
  <2> QED BY <2>1, <2>2
<1>4. Jump(g) \in 0 .. Len(rows) /\ Split(Jump(g))
  BY <1>3 DEF Jump
<1>5. ASSUME NEW j \in (Jump(g) + 1) .. Len(rows) PROVE rows[j].generation > g
  <2>1. Jump(g) + 1 \in DOMAIN rows /\ j \in DOMAIN rows /\ Jump(g) + 1 <= j
    BY <1>1, <1>4
  <2>2. rows[Jump(g) + 1].generation > g
    BY <1>1, <1>4, <2>1
  <2>3. CASE j = Jump(g) + 1
    BY <2>2, <2>3
  <2>4. CASE Jump(g) + 1 < j
    BY <1>2, <1>1, <2>1, <2>2, <2>4, PlacesAscend
  <2> QED BY <1>1, <1>4, <2>1, <2>3, <2>4
<1> QED BY <1>4, <1>5

-----------------------------------------------------------------------------
(***************************************************************************)
(* The inductive invariant.  While the binary search runs, the rows before *)
(* lo are before the target and the rows from hi on are not.  While the    *)
(* scan runs, the observations are the matching rows among those before    *)
(* `at`, and no row from there on is before the target: with that the row  *)
(* at which the scan breaks off has no matching row behind it.  While the  *)
(* range is cut up, the pieces so far tile it up to a cut and are honest.  *)
(***************************************************************************)
Answering == pc \in {"search", "scan", "cut", "done"}

Statuses == {"gap", "conflicting_bytes", "ambiguous_sequence_placement", "candidate"}
PieceSet == [start : Nat, end : Nat, ids : SUBSET Nat, status : Statuses, bytes : Seq(Nat)]

Typed ==
    /\ IsIndex(rows)
    /\ pc \in {"idle", "search", "scan", "cut", "done", "error", "page"}
    /\ Answering => query \in Asked /\ query.start < query.end
    /\ seen \in Seq(Row) /\ pieces \in Seq(PieceSet)
    /\ listed \in Seq(Nat) /\ page \in Seq(Nat) /\ limit \in Nat
    /\ paging \in BOOLEAN

BeforeTargetAt(i) == Before(Place(rows[i]), Target)

\* The matching rows among the first n are the observations.
SeenUpTo(n) ==
    /\ \A k \in DOMAIN seen : \E i \in Matching : i <= n /\ seen[k] = rows[i]
    /\ \A i \in Matching : i <= n => \E k \in DOMAIN seen : seen[k] = rows[i]

Searching ==
    pc = "search" =>
        /\ lo \in Nat /\ hi \in Nat /\ lo <= hi /\ hi <= Len(rows)
        /\ \A i \in 1 .. lo : BeforeTargetAt(i)
        /\ \A i \in (hi + 1) .. Len(rows) : ~BeforeTargetAt(i)
        /\ seen = << >> /\ pieces = << >>

Scanning ==
    pc = "scan" =>
        /\ at \in 0 .. Len(rows)
        /\ SeenUpTo(at)
        /\ \A i \in (at + 1) .. Len(rows) : ~BeforeTargetAt(i)
        /\ pieces = << >>

Cutting ==
    pc \in {"cut", "done"} =>
        /\ SeenUpTo(Len(rows))
        /\ Tiled /\ Cursor \in Cuts /\ query.start <= Cursor /\ Cursor <= query.end
        /\ \A n \in DOMAIN pieces : Honest(pieces[n])
        /\ pc = "done" => Cursor = query.end

RangeInv == Searching /\ Scanning /\ Cutting

(***************************************************************************)
(* The pages before this one hold every generation up to their last.  The  *)
(* page that is read continues them: the rows before `at` are of listed    *)
(* generations, the rows from there on of later ones.                      *)
(***************************************************************************)
Ascending(s) == \A i, j \in DOMAIN s : i < j => s[i] < s[j]
OfRows(s) == \A k \in DOMAIN s : \E i \in DOMAIN rows : s[k] = rows[i].generation
In(s, g) == \E k \in DOMAIN s : s[k] = g
Above(s, g) == \A k \in DOMAIN s : s[k] < g

ListedInv ==
    /\ Ascending(listed) /\ OfRows(listed)
    /\ \A i \in DOMAIN rows : In(listed, rows[i].generation) \/ Above(listed, rows[i].generation)
    /\ ~paging => \A i \in DOMAIN rows : In(listed, rows[i].generation)

Paging ==
    pc = "page" =>
        /\ at \in 0 .. Len(rows) /\ limit > 0
        /\ Ascending(page) /\ OfRows(page)
        /\ \A k \in DOMAIN page : Above(listed, page[k])
        /\ \A i \in 1 .. at : In(listed, rows[i].generation) \/ In(page, rows[i].generation)
        /\ \A i \in (at + 1) .. Len(rows) :
              Above(listed, rows[i].generation) /\ Above(page, rows[i].generation)

QueryInv == Typed /\ RangeInv /\ ListedInv /\ Paging

\* The sequences of the state and their domains.
LEMMA Sequences ==
    ASSUME Typed
    PROVE  /\ IsIndex(rows) /\ Len(rows) \in Nat /\ DOMAIN rows = 1 .. Len(rows)
           /\ page \in Seq(Nat) /\ Len(page) \in Nat /\ DOMAIN page = 1 .. Len(page)
           /\ listed \in Seq(Nat) /\ Len(listed) \in Nat /\ DOMAIN listed = 1 .. Len(listed)
<1>1. IsIndex(rows) /\ rows \in Seq(Row) /\ page \in Seq(Nat) /\ listed \in Seq(Nat)
  BY DEF Typed, IsIndex
<1> QED BY <1>1

\* Where the loop stands.
LEMMA Within ==
    ASSUME NEW i, NEW n \in Nat, i \in 0 .. n
    PROVE  i \in Nat /\ i <= n
OBVIOUS

\* What a sequence with an element behind it holds, and that it still ascends.
LEMMA LongerHolds ==
    ASSUME NEW s, NEW e, NEW t, Longer(s, e, t)
    PROVE  \A k \in DOMAIN t : (k \in DOMAIN s /\ t[k] = s[k]) \/ t[k] = e
BY DEF Longer

LEMMA LongerAscends ==
    ASSUME NEW s, NEW e, NEW t, Longer(s, e, t), Ascending(s), Above(s, e)
    PROVE  Ascending(t)
BY DEF Longer, Ascending, Above

-----------------------------------------------------------------------------
(***************************************************************************)
(* What the steps of the range query need.                                 *)
(***************************************************************************)
\* The target is a place, and a row is before it as the three fields say.
LEMMA TargetFields ==
    ASSUME MaxLen \in Nat, Typed, Answering, NEW i \in DOMAIN rows
    PROVE  /\ rows[i] \in Row /\ LookBack(query.start) \in Nat
           /\ BeforeTargetAt(i) <=>
                \/ rows[i].generation < query.generation
                \/ /\ rows[i].generation = query.generation
                   /\ rows[i].direction < query.direction
                \/ /\ rows[i].generation = query.generation
                   /\ rows[i].direction = query.direction
                   /\ rows[i].start < LookBack(query.start)
<1>1. rows[i] \in Row
  BY DEF Typed, IsIndex
<1>2. query.generation \in Nat /\ query.direction \in Nat /\ query.start \in Nat
  BY DEF Typed, Asked
<1>3. LookBack(query.start) \in Nat
  BY <1>2 DEF LookBack
<1> QED BY <1>1, <1>2, <1>3, BeforeTarget DEF BeforeTargetAt, Target

\* The rows before the target are exactly the first ones.
LEMMA TargetSplits ==
    ASSUME MaxLen \in Nat, Typed, Answering,
           NEW i \in DOMAIN rows, NEW j \in DOMAIN rows, i <= j
    PROVE  BeforeTargetAt(j) => BeforeTargetAt(i)
<1>1. CASE i = j
  BY <1>1
<1>2. CASE i < j
  <2>1. /\ rows[i].generation <= rows[j].generation
        /\ rows[i].generation = rows[j].generation =>
             /\ rows[i].direction <= rows[j].direction
             /\ rows[i].direction = rows[j].direction => rows[i].start <= rows[j].start
    BY <1>2, PlacesAscend DEF Typed
  <2>2. /\ rows[i].generation \in Nat /\ rows[i].direction \in Nat /\ rows[i].start \in Nat
        /\ rows[j].generation \in Nat /\ rows[j].direction \in Nat /\ rows[j].start \in Nat
    BY RowFields DEF Typed
  <2>3. query.generation \in Nat /\ query.direction \in Nat /\ LookBack(query.start) \in Nat
    BY TargetFields DEF Typed, Asked
  <2> QED BY <2>1, <2>2, <2>3, TargetFields
<1>3. i \in Nat /\ j \in Nat
  BY DEF Typed, IsIndex
<1> QED BY <1>1, <1>2, <1>3

\* No row before the target reaches the range: none is longer than the look-back.
LEMMA LookBackMissesNone ==
    ASSUME MaxLen \in Nat, Typed, Answering, NEW i \in DOMAIN rows, BeforeTargetAt(i)
    PROVE  i \notin Matching
<1>1. SUFFICES ASSUME i \in Matching PROVE FALSE
  OBVIOUS
<1>2. /\ rows[i].generation = query.generation /\ rows[i].direction = query.direction
      /\ query.start < rows[i].end
  BY <1>1 DEF Matching
<1>3. /\ rows[i].generation \in Nat /\ rows[i].direction \in Nat
      /\ rows[i].start \in Nat /\ rows[i].end \in Nat
      /\ rows[i].end - rows[i].start <= MaxLen
  BY TargetFields DEF Row
<1>4. rows[i].start < LookBack(query.start)
  BY <1>2, <1>3, TargetFields
<1>5. query.start \in Nat
  BY DEF Typed, Asked
<1> QED BY <1>2, <1>3, <1>4, <1>5 DEF LookBack

\* Behind a row that is not before the target and is beyond the range no row
\* matches.
LEMMA BeyondEnds ==
    ASSUME MaxLen \in Nat, Typed, Answering,
           NEW i \in DOMAIN rows, NEW j \in DOMAIN rows, i <= j,
           ~BeforeTargetAt(i), Beyond(rows[i])
    PROVE  j \notin Matching
<1>1. SUFFICES ASSUME j \in Matching PROVE FALSE
  OBVIOUS
<1>2. /\ rows[j].generation = query.generation /\ rows[j].direction = query.direction
      /\ rows[j].start < query.end
  BY <1>1 DEF Matching
<1>3. /\ rows[i].generation \in Nat /\ rows[i].direction \in Nat /\ rows[i].start \in Nat
      /\ rows[j].generation \in Nat /\ rows[j].direction \in Nat /\ rows[j].start \in Nat
  BY RowFields DEF Typed
<1>4. i # j
  BY <1>2, <1>3 DEF Beyond, Typed, Asked
<1>5. i < j
  BY <1>4 DEF Typed, IsIndex
<1>6. /\ rows[i].generation <= rows[j].generation
      /\ rows[i].generation = rows[j].generation =>
           /\ rows[i].direction <= rows[j].direction
           /\ rows[i].direction = rows[j].direction => rows[i].start <= rows[j].start
  BY <1>5, PlacesAscend DEF Typed
<1>7. query.generation \in Nat /\ query.direction \in Nat /\ query.end \in Nat
  BY DEF Typed, Asked
<1>8. ~(\/ rows[i].generation < query.generation
        \/ rows[i].generation = query.generation /\ rows[i].direction < query.direction)
  BY TargetFields
<1> QED BY <1>2, <1>3, <1>6, <1>7, <1>8 DEF Beyond

\* The cuts are positions from the start of the range to its end.
LEMMA CutPositions ==
    ASSUME Typed, Answering, SeenUpTo(Len(rows))
    PROVE  /\ query.start \in Nat /\ query.end \in Nat /\ query.start < query.end
           /\ query.start \in Cuts /\ query.end \in Cuts
           /\ \A c \in Cuts : c \in Nat /\ query.start <= c /\ c <= query.end
<1>1. query.start \in Nat /\ query.end \in Nat /\ query.start < query.end
  BY DEF Typed, Asked
<1>2. query.start \in Cuts /\ query.end \in Cuts
  BY DEF Cuts
<1>3. ASSUME NEW i \in DOMAIN seen
      PROVE  /\ seen[i].start \in Nat /\ seen[i].end \in Nat
             /\ seen[i].start < query.end /\ query.start < seen[i].end
  <2>1. PICK n \in Matching : seen[i] = rows[n]
    BY <1>3 DEF SeenUpTo
  <2>2. seen[i] \in Row
    BY <1>3 DEF Typed
  <2> QED BY <2>1, <2>2 DEF Matching, Row
<1>4. ASSUME NEW c \in Cuts PROVE c \in Nat /\ query.start <= c /\ c <= query.end
  <2>1. CASE c \in {query.start, query.end}
    BY <1>1, <2>1
  <2>2. ASSUME NEW i \in DOMAIN seen, c = Greater(seen[i].start, query.start)
        PROVE  c \in Nat /\ query.start <= c /\ c <= query.end
    BY <1>1, <1>3, <2>2 DEF Greater
  <2>3. ASSUME NEW i \in DOMAIN seen, c = Smaller(seen[i].end, query.end)
        PROVE  c \in Nat /\ query.start <= c /\ c <= query.end
    BY <1>1, <1>3, <2>3 DEF Smaller
  <2> QED BY <2>1, <2>2, <2>3 DEF Cuts
<1> QED BY <1>1, <1>2, <1>4

\* The next cut is the least behind the cursor.
LEMMA NextCutLeast ==
    ASSUME Typed, Answering, SeenUpTo(Len(rows)), NEW a \in Nat, a < query.end
    PROVE  /\ NextCut(a) \in Cuts /\ a < NextCut(a)
           /\ \A c \in Cuts : a < c => NextCut(a) <= c
<1> DEFINE T == {c \in Cuts : a < c}
<1>1. T \subseteq Nat /\ T # {}
  BY CutPositions
<1>2. \E u \in T : \A v \in T : u <= v
  <2> HIDE DEF T
  <2> QED BY <1>1, LeastNat
<1>3. \E b \in Cuts : a < b /\ \A c \in Cuts : a < c => b <= c
  BY <1>2
<1> QED BY <1>3 DEF NextCut

\* Between two neighbouring cuts a row covers every byte or none.
LEMMA WholePieces ==
    ASSUME Typed, Answering, SeenUpTo(Len(rows)), NEW a \in Cuts, a < query.end,
           NEW x \in a .. (NextCut(a) - 1), NEW k \in DOMAIN seen
    PROVE  (seen[k].start <= x /\ x < seen[k].end) <=>
               (seen[k].start <= a /\ seen[k].end >= NextCut(a))
<1> DEFINE b == NextCut(a)
<1>1. a \in Nat /\ b \in Cuts /\ b \in Nat /\ a < b /\ query.start <= a /\ b <= query.end
  BY CutPositions, NextCutLeast
<1>2. \A c \in Cuts : a < c => b <= c
  BY <1>1, NextCutLeast
<1>3. seen[k].start \in Nat /\ seen[k].end \in Nat
  BY DEF Typed, Row
<1>4. Greater(seen[k].start, query.start) \in Cuts /\ Smaller(seen[k].end, query.end) \in Cuts
  BY DEF Cuts
<1>5. query.start \in Nat /\ query.end \in Nat
  BY CutPositions
<1> HIDE DEF b
<1>6. x \in Nat /\ a <= x /\ x < b
  BY <1>1 DEF b
<1>7. ASSUME seen[k].start <= x, x < seen[k].end
      PROVE  seen[k].start <= a /\ seen[k].end >= b
  <2>1. seen[k].start <= a
    BY <1>1, <1>2, <1>3, <1>4, <1>5, <1>6, <1>7 DEF Greater
  <2>2. seen[k].end >= b
    BY <1>1, <1>2, <1>3, <1>4, <1>5, <1>6, <1>7 DEF Smaller
  <2> QED BY <2>1, <2>2
<1>8. ASSUME seen[k].start <= a, seen[k].end >= b
      PROVE  seen[k].start <= x /\ x < seen[k].end
  BY <1>1, <1>3, <1>6, <1>8
<1>9. (seen[k].start <= x /\ x < seen[k].end) <=> (seen[k].start <= a /\ seen[k].end >= b)
  BY <1>7, <1>8
<1> QED BY <1>9 DEF b

\* The rows over a byte of a piece are those that cover the piece.
LEMMA CoveringIsOver ==
    ASSUME Typed, Answering, SeenUpTo(Len(rows)), NEW a \in Cuts, a < query.end,
           NEW x \in a .. (NextCut(a) - 1)
    PROVE  /\ \A i \in Over(x) : \E k \in Covering(a, NextCut(a)) : seen[k] = rows[i]
           /\ \A k \in Covering(a, NextCut(a)) : \E i \in Over(x) : seen[k] = rows[i]
<1>1. ASSUME NEW i \in Over(x)
      PROVE  \E k \in Covering(a, NextCut(a)) : seen[k] = rows[i]
  <2>1. i \in Matching /\ rows[i].start <= x /\ x < rows[i].end
    BY DEF Over
  <2>2. i <= Len(rows)
    BY <2>1 DEF Matching, Typed, IsIndex
  <2>3. PICK k \in DOMAIN seen : seen[k] = rows[i]
    BY <2>1, <2>2 DEF SeenUpTo
  <2>4. seen[k].start <= a /\ seen[k].end >= NextCut(a)
    BY <2>1, <2>3, WholePieces
  <2> QED BY <2>3, <2>4 DEF Covering
<1>2. ASSUME NEW k \in Covering(a, NextCut(a))
      PROVE  \E i \in Over(x) : seen[k] = rows[i]
  <2>1. k \in DOMAIN seen /\ seen[k].start <= a /\ seen[k].end >= NextCut(a)
    BY DEF Covering
  <2>2. seen[k].start <= x /\ x < seen[k].end
    BY <2>1, WholePieces
  <2>3. PICK i \in Matching : seen[k] = rows[i]
    BY <2>1 DEF SeenUpTo
  <2> QED BY <2>2, <2>3 DEF Over
<1> QED BY <1>1, <1>2

Slices(a, b) == {Slice(seen[k], a, b) : k \in Covering(a, b)}
StatusOf(a, b) ==
    IF Covering(a, b) = {} THEN "gap"
    ELSE Status(Slices(a, b), \A k \in Covering(a, b) : seen[k].selected)

\* The fields of a piece.
LEMMA PieceFields ==
    ASSUME NEW a, NEW b
    PROVE  /\ Piece(a, b).start = a /\ Piece(a, b).end = b
           /\ Piece(a, b).ids = Covering(a, b)
           /\ Piece(a, b).status = StatusOf(a, b)
           /\ StatusOf(a, b) = "candidate" => Piece(a, b).bytes = CHOOSE s \in Slices(a, b) : TRUE
           /\ StatusOf(a, b) # "candidate" => Piece(a, b).bytes = << >>
           /\ DOMAIN Piece(a, b) = {"start", "end", "ids", "status", "bytes"}
BY DEF Piece, StatusOf, Slices

\* The byte at a position of a payload.
LEMMA ByteOf ==
    ASSUME NEW s \in Seq(Nat), NEW f \in Nat, NEW e \in Nat, Len(s) = e - f,
           NEW a \in Nat, NEW b \in Nat, f <= a, b <= e, NEW n \in 1 .. (b - a)
    PROVE  s[n + a - f] \in Nat
<1>1. n + a - f \in 1 .. Len(s)
  OBVIOUS
<1> QED BY <1>1

\* A covering row has a byte of its payload at every position of the piece.
LEMMA SliceBytes ==
    ASSUME Typed, NEW a \in Nat, NEW b \in Nat, a < b, NEW k \in Covering(a, b)
    PROVE  /\ Slice(seen[k], a, b) \in [1 .. (b - a) -> Nat]
           /\ \A x \in a .. (b - 1) : /\ x - a + 1 \in 1 .. (b - a)
                                     /\ Slice(seen[k], a, b)[x - a + 1]
                                            = seen[k].bytes[x - seen[k].start + 1]
<1>1. seen[k] \in Row /\ seen[k].start <= a /\ seen[k].end >= b
  BY DEF Covering, Typed
<1>2. /\ seen[k].start \in Nat /\ seen[k].end \in Nat
      /\ seen[k].bytes \in Seq(Nat) /\ Len(seen[k].bytes) = seen[k].end - seen[k].start
  BY <1>1 DEF Row
<1>3. ASSUME NEW n \in 1 .. (b - a) PROVE seen[k].bytes[n + a - seen[k].start] \in Nat
  BY <1>1, <1>2, ByteOf
<1>4. ASSUME NEW x \in a .. (b - 1)
      PROVE  /\ x - a + 1 \in 1 .. (b - a)
             /\ Slice(seen[k], a, b)[x - a + 1] = seen[k].bytes[x - seen[k].start + 1]
  <2>1. x - a + 1 \in 1 .. (b - a)
    OBVIOUS
  <2>2. (x - a + 1) + a - seen[k].start = x - seen[k].start + 1
    BY <1>2
  <2> QED BY <2>1, <2>2 DEF Slice
<1> QED BY <1>3, <1>4 DEF Slice

\* Two functions that differ differ somewhere.
LEMMA Differ ==
    ASSUME NEW S, NEW T, NEW f \in [S -> T], NEW g \in [S -> T], f # g
    PROVE  \E n \in S : f[n] # g[n]
OBVIOUS

\* A piece is a piece, and honest about the rows over its bytes.
LEMMA PieceHonest ==
    ASSUME Typed, Answering, SeenUpTo(Len(rows)), NEW a \in Cuts, a < query.end
    PROVE  /\ Piece(a, NextCut(a)) \in PieceSet
           /\ Honest(Piece(a, NextCut(a)))
<1> DEFINE b == NextCut(a)
           p == Piece(a, b)
           span == a .. (b - 1)
<1>1. a \in Nat /\ b \in Cuts /\ b \in Nat /\ a < b
  BY CutPositions, NextCutLeast
<1>2. /\ p.start = a /\ p.end = b /\ p.ids = Covering(a, b) /\ p.status = StatusOf(a, b)
      /\ StatusOf(a, b) = "candidate" => p.bytes = CHOOSE s \in Slices(a, b) : TRUE
  BY PieceFields
<1>12. StatusOf(a, b) # "candidate" => p.bytes \in Seq(Nat)
  <2>1. StatusOf(a, b) # "candidate" => p.bytes = << >>
    BY PieceFields
  <2>2. << >> \in Seq(Nat)
    OBVIOUS
  <2> HIDE DEF p
  <2> QED BY <2>1, <2>2
<1>3. \A x \in span :
        /\ \A i \in Over(x) : \E k \in Covering(a, b) : seen[k] = rows[i]
        /\ \A k \in Covering(a, b) : \E i \in Over(x) : seen[k] = rows[i]
  BY CoveringIsOver
<1>4. a \in span
  BY <1>1
<1>5. \A k \in Covering(a, b) :
        /\ Slice(seen[k], a, b) \in [1 .. (b - a) -> Nat]
        /\ \A x \in span : /\ x - a + 1 \in 1 .. (b - a)
                          /\ Slice(seen[k], a, b)[x - a + 1]
                                 = seen[k].bytes[x - seen[k].start + 1]
  BY <1>1, SliceBytes
<1>6. \/ StatusOf(a, b) = "gap" /\ Covering(a, b) = {}
      \/ /\ StatusOf(a, b) = "conflicting_bytes"
         /\ \E s, t \in Slices(a, b) : s # t
      \/ /\ StatusOf(a, b) = "ambiguous_sequence_placement"
         /\ \E k \in Covering(a, b) : ~seen[k].selected
      \/ /\ StatusOf(a, b) = "candidate" /\ Covering(a, b) # {}
         /\ \A s, t \in Slices(a, b) : s = t
         /\ \A k \in Covering(a, b) : seen[k].selected
  BY DEF StatusOf, Status
<1> HIDE DEF b, p, span
<1>0. SUFFICES Honest(p) /\ p.bytes \in Seq(Nat)
  <2>1. p.ids \in SUBSET Nat
    BY <1>2 DEF Covering, Typed
  <2>2. p.status \in Statuses
    BY <1>2, <1>6 DEF Statuses
  <2>3. p = [start |-> a, end |-> b, ids |-> p.ids, status |-> p.status, bytes |-> p.bytes]
    BY <1>2 DEF p, Piece
  <2> QED BY <1>1, <2>1, <2>2, <2>3 DEF PieceSet, p, b
<1>7. CASE StatusOf(a, b) = "gap" /\ Covering(a, b) = {}
  <2>1. \A x \in span : Over(x) = {}
    BY <1>3, <1>7
  <2>2. p.bytes \in Seq(Nat)
    BY <1>7, <1>12
  <2>3. Honest(p)
    BY <1>2, <1>7, <2>1 DEF Honest, span
  <2> QED BY <2>2, <2>3
<1>8. CASE /\ StatusOf(a, b) = "conflicting_bytes"
           /\ \E s, t \in Slices(a, b) : s # t
  <2>1. PICK k \in Covering(a, b), m \in Covering(a, b) :
            Slice(seen[k], a, b) # Slice(seen[m], a, b)
    BY <1>8 DEF Slices
  <2>2. PICK n \in 1 .. (b - a) : Slice(seen[k], a, b)[n] # Slice(seen[m], a, b)[n]
    <3> DEFINE S == 1 .. (b - a)
               f == Slice(seen[k], a, b)
               g == Slice(seen[m], a, b)
    <3>1. f \in [S -> Nat] /\ g \in [S -> Nat] /\ f # g
      BY <1>5, <2>1
    <3> HIDE DEF S, f, g
    <3>2. \E n \in S : f[n] # g[n]
      BY <3>1, Differ
    <3> QED BY <3>2 DEF S, f, g
  <2> DEFINE x == a + n - 1
  <2>7. x \in span /\ x - a + 1 = n
    BY <1>1 DEF span
  <2> HIDE DEF x
  <2>3. PICK i \in Over(x), j \in Over(x) : seen[k] = rows[i] /\ seen[m] = rows[j]
    BY <1>3, <2>7
  <2>4. ByteAt(i, x) # ByteAt(j, x)
    BY <1>5, <2>2, <2>3, <2>7 DEF ByteAt
  <2>5. Honest(p)
    BY <1>2, <1>8, <2>3, <2>4, <2>7 DEF Honest, span
  <2>6. p.bytes \in Seq(Nat)
    BY <1>8, <1>12
  <2> QED BY <2>5, <2>6
<1>9. CASE /\ StatusOf(a, b) = "ambiguous_sequence_placement"
           /\ \E k \in Covering(a, b) : ~seen[k].selected
  <2>1. PICK k \in Covering(a, b) : ~seen[k].selected
    BY <1>9
  <2>2. \A x \in span : \E i \in Over(x) : ~rows[i].selected
    <3> TAKE x \in span
    <3>1. PICK i \in Over(x) : seen[k] = rows[i]
      BY <1>3
    <3> QED BY <2>1, <3>1
  <2>3. Honest(p)
    BY <1>2, <1>9, <2>2 DEF Honest, span
  <2>4. p.bytes \in Seq(Nat)
    BY <1>9, <1>12
  <2> QED BY <2>3, <2>4
<1>10. CASE /\ StatusOf(a, b) = "candidate" /\ Covering(a, b) # {}
            /\ \A s, t \in Slices(a, b) : s = t
            /\ \A k \in Covering(a, b) : seen[k].selected
  <2>1. Slices(a, b) # {}
    BY <1>10 DEF Slices
  <2>2. p.bytes \in Slices(a, b)
    BY <1>2, <1>10, <2>1
  <2>3. \A k \in Covering(a, b) : p.bytes = Slice(seen[k], a, b)
    BY <1>10, <2>2 DEF Slices
  <2>4. ASSUME NEW x \in span
        PROVE  Over(x) # {} /\ \A i \in Over(x) : rows[i].selected /\ ByteAt(i, x) = p.bytes[x - a + 1]
    <3>1. Over(x) # {}
      BY <1>3, <1>10
    <3>2. ASSUME NEW i \in Over(x) PROVE rows[i].selected /\ ByteAt(i, x) = p.bytes[x - a + 1]
      <4>1. PICK k \in Covering(a, b) : seen[k] = rows[i]
        BY <1>3
      <4>2. p.bytes[x - a + 1] = seen[k].bytes[x - seen[k].start + 1]
        BY <1>5, <2>3
      <4> QED BY <1>10, <4>1, <4>2 DEF ByteAt
    <3> QED BY <3>1, <3>2
  <2>5. Honest(p)
    BY <1>2, <1>10, <2>4 DEF Honest, span
  <2>6. p.bytes \in Seq(Nat)
    <3>1. PICK k \in Covering(a, b) : TRUE
      BY <1>10
    <3>2. p.bytes \in [1 .. (b - a) -> Nat] /\ b - a \in Nat
      BY <1>1, <1>5, <2>3, <3>1
    <3> QED BY <3>2
  <2> QED BY <2>5, <2>6
<1> QED BY <1>6, <1>7, <1>8, <1>9, <1>10

-----------------------------------------------------------------------------
(***************************************************************************)
(* The steps of the range query keep its part of the invariant.            *)
(***************************************************************************)
\* What is said of rows and the query does not change while they do not.
LEMMA SameRange ==
    ASSUME rows' = rows, query' = query
    PROVE  /\ Matching' = Matching
           /\ \A i : BeforeTargetAt(i)' <=> BeforeTargetAt(i)
BY DEF Matching, BeforeTargetAt, Target

\* Nor do the rows over a position and their bytes.
LEMMA SameOver ==
    ASSUME rows' = rows, query' = query
    PROVE  /\ \A x : Over(x)' = Over(x)
           /\ \A i, x : ByteAt(i, x)' = ByteAt(i, x)
<1>1. \A x : Over(x)' = Over(x)
  BY SameRange DEF Over
<1>2. \A i, x : ByteAt(i, x)' = ByteAt(i, x)
  BY DEF ByteAt
<1> QED BY <1>1, <1>2

\* So a piece that is honest stays so.
LEMMA StaysHonest ==
    ASSUME rows' = rows, query' = query, NEW n, Honest(pieces'[n])
    PROVE  Honest(pieces[n])'
BY SameOver DEF Honest

\* The search starts with the whole index.
LEMMA AskRange ==
    ASSUME Typed, NEW q \in Queries, Ask(q)
    PROVE  RangeInv'
<1>1. pc' = "search" /\ lo' = 0 /\ hi' = Len(rows') /\ seen' = << >> /\ pieces' = << >>
  BY DEF Ask
<1>2. Len(rows') \in Nat
  BY DEF Ask, Typed, IsIndex
<1>3. Searching'
  BY <1>1, <1>2 DEF Searching
<1>4. Scanning' /\ Cutting'
  BY <1>1 DEF Scanning, Cutting
<1> QED BY <1>3, <1>4 DEF RangeInv

\* A turn of the binary search halves the rows it does not know.
LEMMA SearchRange ==
    ASSUME MaxLen \in Nat, Typed, RangeInv, Search
    PROVE  RangeInv'
<1> DEFINE mid == lo + (hi - lo) \div 2
<1>1. /\ pc = "search" /\ lo < hi /\ pc' = "search" /\ rows' = rows /\ query' = query
      /\ seen' = << >> /\ pieces' = << >>
      /\ lo \in Nat /\ hi \in Nat /\ lo <= hi /\ hi <= Len(rows)
      /\ \A i \in 1 .. lo : BeforeTargetAt(i)
      /\ \A i \in (hi + 1) .. Len(rows) : ~BeforeTargetAt(i)
  BY DEF Search, RangeInv, Searching
<1>2. Len(rows) \in Nat /\ DOMAIN rows = 1 .. Len(rows) /\ Answering
  BY <1>1 DEF Typed, IsIndex, Answering
<1>3. \/ BeforeTargetAt(mid + 1) /\ lo' = mid + 1 /\ hi' = hi
      \/ ~BeforeTargetAt(mid + 1) /\ hi' = mid /\ lo' = lo
  BY DEF Search, BeforeTargetAt
<1>4. mid \in Nat /\ lo <= mid /\ mid < hi
  BY <1>1
<1> HIDE DEF mid
<1>5. mid + 1 \in DOMAIN rows
  BY <1>1, <1>2, <1>4
<1>6. CASE BeforeTargetAt(mid + 1) /\ lo' = mid + 1 /\ hi' = hi
  <2>1. \A i \in 1 .. lo' : BeforeTargetAt(i)
    <3> TAKE i \in 1 .. lo'
    <3>1. i \in DOMAIN rows /\ i <= mid + 1
      BY <1>1, <1>2, <1>4, <1>6
    <3> QED BY <1>2, <1>5, <1>6, <3>1, TargetSplits
  <2>2. lo' \in Nat /\ lo' <= hi'
    BY <1>1, <1>4, <1>6
  <2>3. Searching'
    BY <1>1, <1>6, <2>1, <2>2, SameRange DEF Searching
  <2> QED BY <1>1, <2>3 DEF RangeInv, Scanning, Cutting
<1>7. CASE ~BeforeTargetAt(mid + 1) /\ hi' = mid /\ lo' = lo
  <2>1. \A i \in (hi' + 1) .. Len(rows) : ~BeforeTargetAt(i)
    <3> TAKE i \in (hi' + 1) .. Len(rows)
    <3>1. i \in DOMAIN rows /\ mid + 1 <= i
      BY <1>1, <1>2, <1>4, <1>7
    <3> QED BY <1>2, <1>5, <1>7, <3>1, TargetSplits
  <2>2. hi' \in Nat /\ lo' <= hi' /\ hi' <= Len(rows)
    BY <1>1, <1>2, <1>4, <1>7
  <2>3. Searching'
    BY <1>1, <1>7, <2>1, <2>2, SameRange DEF Searching
  <2> QED BY <1>1, <2>3 DEF RangeInv, Scanning, Cutting
<1> QED BY <1>3, <1>6, <1>7

\* The scan starts behind the rows that cannot match.
LEMMA FoundRange ==
    ASSUME MaxLen \in Nat, Typed, RangeInv, Found
    PROVE  RangeInv'
<1>1. /\ pc = "search" /\ pc' = "scan" /\ rows' = rows /\ query' = query
      /\ at' = lo /\ seen' = << >> /\ pieces' = << >>
      /\ lo \in Nat /\ lo = hi /\ hi <= Len(rows)
      /\ \A i \in 1 .. lo : BeforeTargetAt(i)
      /\ \A i \in (hi + 1) .. Len(rows) : ~BeforeTargetAt(i)
  BY DEF Found, RangeInv, Searching, rangeVars
<1>2. Len(rows) \in Nat /\ DOMAIN rows = 1 .. Len(rows) /\ Answering
  BY <1>1 DEF Typed, IsIndex, Answering
<1>3. \A i \in Matching : ~(i <= lo)
  <2> SUFFICES ASSUME NEW i \in Matching, i <= lo PROVE FALSE
    OBVIOUS
  <2>1. i \in DOMAIN rows /\ i \in 1 .. lo
    BY <1>1, <1>2 DEF Matching
  <2> QED BY <1>1, <1>2, <2>1, LookBackMissesNone
<1>4. SeenUpTo(at)'
  BY <1>1, <1>3, SameRange DEF SeenUpTo
<1>5. Scanning'
  BY <1>1, <1>2, <1>4, SameRange DEF Scanning
<1> QED BY <1>1, <1>5 DEF RangeInv, Searching, Cutting

\* What the first cut starts from.
LEMMA CuttingStarts ==
    ASSUME Typed', Answering', pc' = "cut", SeenUpTo(Len(rows))', pieces' = << >>
    PROVE  RangeInv'
<1>1. query'.start \in Nat /\ query'.end \in Nat /\ query'.start < query'.end
  BY DEF Typed, Asked
<1>2. Cursor' = query'.start /\ query'.start \in Cuts'
  BY DEF Cursor, Cuts
<1>3. Tiled' /\ \A n \in DOMAIN pieces' : Honest(pieces[n])'
  BY DEF Tiled
<1>4. Cutting'
  BY <1>1, <1>2, <1>3 DEF Cutting
<1> QED BY <1>4 DEF RangeInv, Searching, Scanning

\* A turn of the scan takes the next row if it matches, and ends the scan only
\* when no row behind matches.
LEMMA ScanRange ==
    ASSUME MaxLen \in Nat, Typed, Typed', RangeInv, Scan
    PROVE  RangeInv'
<1> DEFINE r == rows[at + 1]
<1>1. /\ pc = "scan" /\ at < Len(rows) /\ rows' = rows /\ query' = query
      /\ at' = at + 1 /\ pieces' = << >>
      /\ at \in 0 .. Len(rows) /\ SeenUpTo(at)
      /\ \A i \in (at + 1) .. Len(rows) : ~BeforeTargetAt(i)
  BY DEF Scan, RangeInv, Scanning
<1>2. Len(rows) \in Nat /\ DOMAIN rows = 1 .. Len(rows) /\ Answering /\ at \in Nat
  BY <1>1 DEF Typed, IsIndex, Answering
<1>3. at + 1 \in DOMAIN rows /\ r \in Row /\ ~BeforeTargetAt(at + 1)
  <2>1. at + 1 \in DOMAIN rows /\ at + 1 \in (at + 1) .. Len(rows)
    BY <1>1, <1>2
  <2>2. r \in Row
    BY <2>1, RowFields DEF Typed
  <2>3. ~BeforeTargetAt(at + 1)
    BY <1>1, <2>1
  <2> QED BY <2>1, <2>2, <2>3
<1>4. /\ pc' = IF Beyond(r) THEN "cut" ELSE "scan"
      /\ seen' = IF ~Beyond(r) /\ r.end > query.start THEN Append(seen, r) ELSE seen
  BY DEF Scan
<1>5. \A i \in Matching : i \in DOMAIN rows /\ i \in Nat
  BY <1>2 DEF Matching
<1> HIDE DEF r
<1>6. CASE Beyond(r)
  <2>1. pc' = "cut" /\ seen' = seen
    BY <1>4, <1>6
  <2>2. \A i \in Matching : i <= at
    <3> SUFFICES ASSUME NEW i \in Matching, ~(i <= at) PROVE FALSE
      OBVIOUS
    <3>1. i \in DOMAIN rows /\ at + 1 <= i
      BY <1>2, <1>5
    <3> QED BY <1>2, <1>3, <1>6, <3>1, BeyondEnds DEF r
  <2>3. SeenUpTo(Len(rows))'
    BY <1>1, <1>2, <1>5, <2>1, <2>2, SameRange DEF SeenUpTo
  <2> QED BY <1>1, <2>1, <2>3, CuttingStarts DEF Answering
<1>7. CASE ~Beyond(r)
  <2>1. pc' = "scan"
    BY <1>4, <1>7
  <2>2. SeenUpTo(at)'
    <3>1. CASE r.end > query.start
      <4>1. seen' = Append(seen, r) /\ seen \in Seq(Row)
        BY <1>4, <1>7, <3>1 DEF Typed
      <4>2. /\ Len(seen) \in Nat /\ Len(seen') = Len(seen) + 1 /\ DOMAIN seen = 1 .. Len(seen)
            /\ DOMAIN seen' = 1 .. Len(seen')
            /\ \A k \in 1 .. Len(seen) : seen'[k] = seen[k]
            /\ seen'[Len(seen) + 1] = r
        BY <1>3, <4>1
      <4>3. at + 1 \in Matching
        <5>1. r.start \in Nat /\ query.end \in Nat /\ r.end \in Nat /\ query.start \in Nat
          BY <1>2, <1>3 DEF Row, Typed, Asked
        <5>2. /\ r.generation = query.generation /\ r.direction = query.direction
              /\ r.start < query.end /\ query.start < r.end
          BY <1>7, <3>1, <5>1 DEF Beyond
        <5> QED BY <1>3, <5>2 DEF Matching, r
      <4>4. ASSUME NEW k \in DOMAIN seen'
            PROVE  \E i \in Matching : i <= at + 1 /\ seen'[k] = rows[i]
        <5>1. CASE k = Len(seen) + 1
          BY <1>2, <4>2, <4>3, <5>1 DEF r
        <5>2. CASE k \in DOMAIN seen
          <6>1. PICK i \in Matching : i <= at /\ seen[k] = rows[i]
            BY <1>1, <5>2 DEF SeenUpTo
          <6> QED BY <1>2, <1>5, <4>2, <5>2, <6>1
        <5> QED BY <4>2, <5>1, <5>2
      <4>5. ASSUME NEW i \in Matching, i <= at + 1
            PROVE  \E k \in DOMAIN seen' : seen'[k] = rows[i]
        <5>1. CASE i = at + 1
          <6>1. Len(seen) + 1 \in DOMAIN seen'
            BY <4>2
          <6> QED BY <4>2, <5>1, <6>1 DEF r
        <5>2. CASE i <= at
          <6>1. PICK k \in DOMAIN seen : seen[k] = rows[i]
            BY <1>1, <5>2 DEF SeenUpTo
          <6>2. k \in DOMAIN seen' /\ seen'[k] = seen[k]
            BY <4>2
          <6> QED BY <6>1, <6>2
        <5> QED BY <1>2, <1>5, <4>5, <5>1, <5>2
      <4> QED BY <1>1, <4>4, <4>5, SameRange DEF SeenUpTo
    <3>2. CASE ~(r.end > query.start)
      <4>1. seen' = seen
        BY <1>4, <3>2
      <4>2. at + 1 \notin Matching
        <5>1. ~(query.start < r.end)
          BY <1>2, <1>3, <3>2 DEF Row, Typed, Asked
        <5> QED BY <5>1 DEF Matching, r
      <4>3. ASSUME NEW i \in Matching, i <= at + 1 PROVE i <= at
        BY <1>2, <1>5, <4>2, <4>3
      <4>4. \A i \in Matching : i <= at => i <= at + 1
        BY <1>2, <1>5
      <4> QED BY <1>1, <4>1, <4>3, <4>4, SameRange DEF SeenUpTo
    <3> QED BY <3>1, <3>2
  <2>3. \A i \in (at' + 1) .. Len(rows) : ~BeforeTargetAt(i)
    BY <1>1, <1>2
  <2>4. Scanning'
    BY <1>1, <1>2, <2>2, <2>3, SameRange DEF Scanning
  <2> QED BY <2>1, <2>4 DEF RangeInv, Searching, Cutting
<1> QED BY <1>6, <1>7

\* A scan that reaches the end of the index has seen every row.
LEMMA ScanEndRange ==
    ASSUME MaxLen \in Nat, Typed, Typed', RangeInv, ScanEnd
    PROVE  RangeInv'
<1>1. /\ pc = "scan" /\ at >= Len(rows) /\ rows' = rows /\ query' = query /\ seen' = seen
      /\ pc' = "cut" /\ pieces' = << >> /\ at \in 0 .. Len(rows) /\ SeenUpTo(at)
  BY DEF ScanEnd, RangeInv, Scanning, rangeVars
<1>2. at = Len(rows)
  BY <1>1 DEF Typed, IsIndex
<1>3. SeenUpTo(Len(rows))'
  BY <1>1, <1>2, SameRange DEF SeenUpTo
<1> QED BY <1>1, <1>3, CuttingStarts DEF Answering

\* A turn of the loop over the cuts continues the pieces by an honest one.
LEMMA CutRange ==
    ASSUME MaxLen \in Nat, Typed, RangeInv, Cut
    PROVE  RangeInv'
<1> DEFINE a == Cursor
           p == Piece(a, NextCut(a))
<1>1. /\ pc = "cut" /\ a < query.end /\ rows' = rows /\ query' = query /\ seen' = seen
      /\ SeenUpTo(Len(rows)) /\ Tiled /\ a \in Cuts
      /\ \A n \in DOMAIN pieces : Honest(pieces[n])
      /\ Answering
  BY DEF Cut, RangeInv, Cutting, Answering
<1>2. \/ pieces' = Append(pieces, p) /\ pc' = "cut"
      \/ pc' = "error"
  BY <1>1 DEF Cut
<1>3. CASE pc' = "error"
  BY <1>3 DEF RangeInv, Searching, Scanning, Cutting
<1>4. CASE pieces' = Append(pieces, p) /\ pc' = "cut"
  <2>1. p \in PieceSet /\ Honest(p)
    BY <1>1, PieceHonest
  <2>2. p.start = a /\ p.end = NextCut(a)
    BY PieceFields
  <2>3. /\ NextCut(a) \in Cuts /\ a < NextCut(a) /\ NextCut(a) \in Nat /\ a \in Nat
        /\ query.start <= NextCut(a) /\ NextCut(a) <= query.end
    BY <1>1, CutPositions, NextCutLeast
  <2>4. a = IF pieces = << >> THEN query.start ELSE pieces[Len(pieces)].end
    BY DEF Cursor
  <2> HIDE DEF p, a
  <2>5. /\ Len(pieces) \in Nat /\ Len(pieces') = Len(pieces) + 1
        /\ DOMAIN pieces = 1 .. Len(pieces) /\ DOMAIN pieces' = 1 .. Len(pieces')
        /\ \A n \in 1 .. Len(pieces) : pieces'[n] = pieces[n]
        /\ pieces'[Len(pieces) + 1] = p /\ pieces' # << >>
        /\ pieces = << >> <=> Len(pieces) = 0
    <3>1. pieces \in Seq(PieceSet)
      BY DEF Typed
    <3>2. Longer(pieces, p, Append(pieces, p))
      BY <2>1, <3>1, Extended
    <3>3. Longer(pieces, p, pieces')
      BY <1>4, <3>2
    <3> QED BY <3>3 DEF Longer
  <2>6. Cursor' = NextCut(a)
    BY <2>2, <2>5 DEF Cursor
  <2>7. Cuts' = Cuts
    BY <1>1 DEF Cuts
  <2>8. pieces'[1].start = query.start
    <3>1. CASE pieces = << >>
      BY <2>2, <2>4, <2>5, <3>1
    <3>2. CASE pieces # << >>
      <4>1. 1 \in 1 .. Len(pieces) /\ pieces[1].start = query.start
        BY <1>1, <2>5, <3>2 DEF Tiled
      <4> QED BY <2>5, <4>1
    <3> QED BY <3>1, <3>2
  <2>9. ASSUME NEW n \in DOMAIN pieces'
        PROVE  /\ pieces'[n].start < pieces'[n].end /\ Honest(pieces'[n])
               /\ n + 1 \in DOMAIN pieces' => pieces'[n].end = pieces'[n + 1].start
    <3>1. CASE n = Len(pieces) + 1
      <4>1. n + 1 \notin DOMAIN pieces'
        BY <2>5, <3>1
      <4> QED BY <2>1, <2>2, <2>3, <2>5, <3>1, <4>1
    <3>2. CASE n = Len(pieces) /\ n \in DOMAIN pieces
      <4>1. pieces # << >> /\ n + 1 = Len(pieces) + 1
        BY <2>5, <3>2
      <4>2. pieces'[n] = pieces[n] /\ pieces'[n + 1] = p /\ pieces[n].end = a
        BY <2>4, <2>5, <3>2, <4>1
      <4> QED BY <1>1, <2>2, <3>2, <4>2 DEF Tiled
    <3>3. CASE n < Len(pieces) /\ n \in DOMAIN pieces
      <4>1. n + 1 \in DOMAIN pieces
        BY <2>5, <3>3
      <4>2. pieces'[n] = pieces[n] /\ pieces'[n + 1] = pieces[n + 1]
        BY <2>5, <3>3, <4>1
      <4> QED BY <1>1, <3>3, <4>1, <4>2 DEF Tiled
    <3> QED BY <2>5, <3>1, <3>2, <3>3
  <2>10. Tiled'
    BY <1>1, <2>8, <2>9 DEF Tiled
  <2>11. \A n \in DOMAIN pieces' : Honest(pieces[n])'
    <3> TAKE n \in DOMAIN pieces'
    <3>1. Honest(pieces'[n])
      BY <2>9
    <3> QED BY <1>1, <3>1, StaysHonest
  <2>12. SeenUpTo(Len(rows))'
    BY <1>1, SameRange DEF SeenUpTo
  <2>13. Cutting'
    BY <1>1, <1>4, <2>3, <2>6, <2>7, <2>10, <2>11, <2>12 DEF Cutting
  <2> QED BY <1>4, <2>13 DEF RangeInv, Searching, Scanning
<1> QED BY <1>2, <1>3, <1>4

\* The loop ends at the end of the range.
LEMMA AnswerRange ==
    ASSUME Typed, RangeInv, Answer
    PROVE  RangeInv'
<1>1. /\ pc = "cut" /\ Cursor >= query.end /\ pc' = "done" /\ rows' = rows /\ query' = query
      /\ seen' = seen /\ pieces' = pieces
      /\ SeenUpTo(Len(rows)) /\ Tiled /\ Cursor \in Cuts /\ query.start <= Cursor
      /\ Cursor <= query.end /\ \A n \in DOMAIN pieces : Honest(pieces[n])
      /\ Answering
  BY DEF Answer, RangeInv, Cutting, rangeVars, Answering
<1>2. Cursor \in Nat /\ query.end \in Nat
  BY <1>1, CutPositions
<1>3. Cursor' = Cursor /\ Cuts' = Cuts /\ SeenUpTo(Len(rows))' /\ Tiled'
  BY <1>1, SameRange DEF Cursor, Cuts, SeenUpTo, Tiled
<1>4. \A n \in DOMAIN pieces' : Honest(pieces[n])'
  <2> TAKE n \in DOMAIN pieces'
  <2>1. Honest(pieces'[n])
    BY <1>1
  <2> QED BY <1>1, <2>1, StaysHonest
<1>5. Cutting'
  BY <1>1, <1>2, <1>3, <1>4 DEF Cutting
<1> QED BY <1>1, <1>5 DEF RangeInv, Searching, Scanning

-----------------------------------------------------------------------------
(***************************************************************************)
(* The steps of the pages keep theirs.                                     *)
(***************************************************************************)
\* A step that leaves the pages alone.
LEMMA SameListed ==
    ASSUME ListedInv, rows' = rows, listed' = listed, paging' = paging
    PROVE  ListedInv'
BY DEF ListedInv, Ascending, OfRows, In, Above

\* A page starts behind the rows of the generations that are listed.
LEMMA AskPagePaging ==
    ASSUME Typed, ListedInv, NEW n \in Nat, AskPage(n)
    PROVE  ListedInv' /\ Paging'
<1>1. /\ n > 0 /\ limit' = n /\ page' = << >> /\ rows' = rows /\ listed' = listed
      /\ paging' = paging /\ pc' = "page"
      /\ at' = IF listed = << >> THEN 0 ELSE Jump(listed[Len(listed)])
  BY DEF AskPage
<1>2. ListedInv'
  BY <1>1, SameListed
<1>3. /\ IsIndex(rows) /\ listed \in Seq(Nat) /\ Len(listed) \in Nat
      /\ DOMAIN listed = 1 .. Len(listed)
      /\ Len(rows) \in Nat /\ DOMAIN rows = 1 .. Len(rows)
  BY DEF Typed, IsIndex
<1>4. \A i \in DOMAIN rows : rows[i].generation \in Nat
  BY <1>3, RowFields
<1>5. /\ at' \in 0 .. Len(rows)
      /\ \A i \in 1 .. at' : In(listed, rows[i].generation)
      /\ \A i \in (at' + 1) .. Len(rows) : Above(listed, rows[i].generation)
  <2>1. CASE listed = << >>
    <3>1. at' = 0 /\ DOMAIN listed = {}
      BY <1>1, <1>3, <2>1
    <3> QED BY <1>3, <3>1 DEF Above
  <2>2. CASE listed # << >>
    <3> DEFINE g == listed[Len(listed)]
    <3>1. Len(listed) \in DOMAIN listed /\ g \in Nat /\ at' = Jump(g)
      BY <1>1, <1>3, <2>2, EmptySeq
    <3>2. \A k \in DOMAIN listed : listed[k] \in Nat /\ listed[k] <= g
      BY <1>3, <3>1 DEF ListedInv, Ascending
    <3> HIDE DEF g
    <3>3. /\ at' \in 0 .. Len(rows)
          /\ \A j \in 1 .. at' : rows[j].generation <= g
          /\ \A j \in (at' + 1) .. Len(rows) : rows[j].generation > g
      BY <1>3, <3>1, JumpSplits
    <3>4. ASSUME NEW i \in 1 .. at' PROVE In(listed, rows[i].generation)
      <4>1. i \in DOMAIN rows /\ rows[i].generation <= g
        BY <1>3, <3>3
      <4>2. ~Above(listed, rows[i].generation)
        BY <1>4, <3>1, <4>1 DEF Above, g
      <4> QED BY <4>1, <4>2 DEF ListedInv
    <3>5. ASSUME NEW i \in (at' + 1) .. Len(rows) PROVE Above(listed, rows[i].generation)
      <4>1. i \in DOMAIN rows /\ rows[i].generation > g
        BY <1>3, <3>3
      <4> QED BY <1>4, <3>1, <3>2, <4>1 DEF Above
    <3> QED BY <3>3, <3>4, <3>5
  <2> QED BY <2>1, <2>2
<1>6. Ascending(page)' /\ OfRows(page)' /\ (\A k \in DOMAIN page : Above(listed, page[k]))'
      /\ \A h : Above(page', h)
  BY <1>1 DEF Ascending, OfRows, Above
<1>7. Paging'
  BY <1>1, <1>5, <1>6 DEF Paging, In, Above
<1> QED BY <1>2, <1>7

\* A turn lists the least generation that is not listed, and no row of it is left.
LEMMA ListNextPaging ==
    ASSUME Typed, ListedInv, Paging, ListNext
    PROVE  page' \in Seq(Nat) /\ ListedInv' /\ Paging'
<1> DEFINE g == rows[at + 1].generation
<1>1. /\ pc = "page" /\ pc' = "page" /\ at < Len(rows) /\ limit' = limit
      /\ rows' = rows /\ listed' = listed /\ paging' = paging
      /\ page' = Append(page, g) /\ at' = Greater(Jump(g), at + 1)
  BY DEF ListNext
<1>2. /\ at \in 0 .. Len(rows) /\ limit > 0
      /\ Ascending(page) /\ OfRows(page)
      /\ \A k \in DOMAIN page : Above(listed, page[k])
      /\ \A i \in 1 .. at : In(listed, rows[i].generation) \/ In(page, rows[i].generation)
      /\ \A i \in (at + 1) .. Len(rows) :
            Above(listed, rows[i].generation) /\ Above(page, rows[i].generation)
  BY <1>1 DEF Paging
<1>3. /\ IsIndex(rows) /\ page \in Seq(Nat) /\ Len(rows) \in Nat /\ DOMAIN rows = 1 .. Len(rows)
      /\ at \in Nat
  BY <1>2, Sequences, Within
<1>4. \A i \in DOMAIN rows : rows[i].generation \in Nat
  BY <1>3, RowFields
<1>5. at + 1 \in DOMAIN rows /\ g \in Nat /\ Above(listed, g) /\ Above(page, g)
  <2>1. at + 1 \in DOMAIN rows /\ at + 1 \in (at + 1) .. Len(rows)
    BY <1>1, <1>3
  <2> QED BY <1>2, <1>4, <2>1
<1>6. /\ Jump(g) \in 0 .. Len(rows)
      /\ \A j \in 1 .. Jump(g) : rows[j].generation <= g
      /\ \A j \in (Jump(g) + 1) .. Len(rows) : rows[j].generation > g
  BY <1>3, <1>5, JumpSplits
<1>7. at' = Jump(g) /\ at' \in 0 .. Len(rows) /\ at < at'
  <2>1. ~(Jump(g) < at + 1)
    <3> SUFFICES ASSUME Jump(g) < at + 1 PROVE FALSE
      OBVIOUS
    <3>1. at + 1 \in (Jump(g) + 1) .. Len(rows)
      BY <1>3, <1>5, <1>6
    <3> QED BY <1>5, <1>6, <3>1
  <2> QED BY <1>1, <1>3, <1>6, <2>1 DEF Greater
<1>8. page' \in Seq(Nat) /\ Longer(page, g, page')
  BY <1>1, <1>3, <1>5, Extended
<1> HIDE DEF g
<1>9. /\ Len(page) \in Nat /\ Len(page') = Len(page) + 1
      /\ DOMAIN page = 1 .. Len(page) /\ DOMAIN page' = 1 .. Len(page')
      /\ \A n \in 1 .. Len(page) : page'[n] = page[n]
      /\ page'[Len(page) + 1] = g
  BY <1>8 DEF Longer
<1>10. \A h : (\A k \in DOMAIN page' : page'[k] < h) <=> (Above(page, h) /\ g < h)
  BY <1>9 DEF Above
<1>11. \A h : In(page', h) <=> (In(page, h) \/ g = h)
  BY <1>9 DEF In
<1>12. Ascending(page')
  BY <1>2, <1>5, <1>8, LongerAscends
<1>13. OfRows(page')
  BY <1>2, <1>5, <1>9 DEF OfRows, g
<1>14. \A k \in DOMAIN page' : Above(listed, page'[k])
  <2> TAKE k \in DOMAIN page'
  <2>1. (k \in DOMAIN page /\ page'[k] = page[k]) \/ page'[k] = g
    BY <1>8, LongerHolds
  <2> QED BY <1>2, <1>5, <2>1
<1>15. ASSUME NEW i \in 1 .. at'
       PROVE  In(listed, rows[i].generation) \/ In(page', rows[i].generation)
  <2>1. CASE i <= at
    <3>1. i \in 1 .. at
      BY <1>3, <1>7, <2>1
    <3> QED BY <1>2, <1>11, <3>1
  <2>2. CASE at < i
    <3>1. i \in DOMAIN rows /\ i \in 1 .. Jump(g)
      BY <1>3, <1>7
    <3>2. rows[i].generation <= g
      BY <1>6, <3>1
    <3>3. g <= rows[i].generation
      <4>1. CASE i = at + 1
        BY <1>5, <4>1 DEF g
      <4>2. CASE at + 1 < i
        BY <1>3, <1>5, <3>1, <4>2, PlacesAscend DEF g
      <4> QED BY <1>3, <1>7, <2>2, <4>1, <4>2
    <3>4. rows[i].generation = g
      BY <1>4, <1>5, <3>1, <3>2, <3>3
    <3> QED BY <1>11, <3>4
  <2> QED BY <1>3, <1>7, <2>1, <2>2
<1>16. ASSUME NEW i \in (at' + 1) .. Len(rows)
       PROVE  Above(listed, rows[i].generation) /\ Above(page', rows[i].generation)
  <2>1. i \in (at + 1) .. Len(rows) /\ i \in (Jump(g) + 1) .. Len(rows)
    BY <1>3, <1>7
  <2>2. Above(listed, rows[i].generation) /\ Above(page, rows[i].generation)
        /\ g < rows[i].generation
    BY <1>2, <1>4, <1>5, <1>6, <2>1
  <2> QED BY <1>10, <2>2 DEF Above
<1>17. Paging'
  BY <1>1, <1>2, <1>7, <1>12, <1>13, <1>14, <1>15, <1>16
     DEF Paging, Ascending, OfRows, Above, In
<1> QED BY <1>1, <1>8, <1>17, SameListed

\* A page that ends is joined to the pages before it, and the last page leaves no
\* generation out.
LEMMA PageEndListed ==
    ASSUME Typed, ListedInv, Paging, PageEnd
    PROVE  listed' \in Seq(Nat) /\ ListedInv'
<1>1. /\ pc = "page" /\ (at >= Len(rows) \/ Len(page) >= limit)
      /\ rows' = rows /\ listed' = listed \o page
      /\ paging' = (page # << >> /\ Jump(page[Len(page)]) < Len(rows))
  BY DEF PageEnd
<1>2. /\ at \in 0 .. Len(rows) /\ limit > 0
      /\ Ascending(page) /\ OfRows(page)
      /\ \A k \in DOMAIN page : Above(listed, page[k])
      /\ \A i \in 1 .. at : In(listed, rows[i].generation) \/ In(page, rows[i].generation)
      /\ \A i \in (at + 1) .. Len(rows) :
            Above(listed, rows[i].generation) /\ Above(page, rows[i].generation)
  BY <1>1 DEF Paging
<1>3. /\ IsIndex(rows) /\ page \in Seq(Nat) /\ listed \in Seq(Nat)
      /\ Len(rows) \in Nat /\ DOMAIN rows = 1 .. Len(rows) /\ at \in Nat
      /\ Len(page) \in Nat /\ DOMAIN page = 1 .. Len(page)
      /\ Len(listed) \in Nat /\ DOMAIN listed = 1 .. Len(listed)
  BY <1>2, Sequences, Within
<1>4. \A i \in DOMAIN rows : rows[i].generation \in Nat
  BY <1>3, RowFields
<1>5. /\ listed' \in Seq(Nat) /\ Len(listed') = Len(listed) + Len(page)
      /\ \A i \in 1 .. (Len(listed) + Len(page)) :
            listed'[i] = IF i <= Len(listed) THEN listed[i] ELSE page[i - Len(listed)]
  BY <1>1, <1>3, ConcatProperties
<1>6. DOMAIN listed' = 1 .. (Len(listed) + Len(page))
  BY <1>5
<1>7. ASSUME NEW i \in DOMAIN listed'
      PROVE  \/ i \in DOMAIN listed /\ listed'[i] = listed[i]
             \/ /\ Len(listed) < i /\ i - Len(listed) \in DOMAIN page
                /\ listed'[i] = page[i - Len(listed)]
  BY <1>3, <1>5, <1>6
<1>8. \A k \in DOMAIN listed : k \in DOMAIN listed' /\ listed'[k] = listed[k]
  BY <1>3, <1>5, <1>6
<1>9. \A k \in DOMAIN page : /\ Len(listed) + k \in DOMAIN listed'
                             /\ listed'[Len(listed) + k] = page[k]
  <2> TAKE k \in DOMAIN page
  <2> DEFINE n == Len(listed) + k
  <2>1. n \in 1 .. (Len(listed) + Len(page)) /\ ~(n <= Len(listed)) /\ n - Len(listed) = k
    BY <1>3
  <2> HIDE DEF n
  <2>2. n \in DOMAIN listed' /\ listed'[n] = page[k]
    BY <1>5, <1>6, <2>1
  <2> QED BY <2>2 DEF n
<1>10. Ascending(listed')
  <2> SUFFICES ASSUME NEW i \in DOMAIN listed', NEW j \in DOMAIN listed', i < j
               PROVE  listed'[i] < listed'[j]
    BY DEF Ascending
  <2>1. CASE j \in DOMAIN listed /\ listed'[j] = listed[j]
    <3>1. i \in DOMAIN listed
      BY <1>3, <1>6, <2>1
    <3> QED BY <1>8, <2>1, <3>1 DEF ListedInv, Ascending
  <2>2. CASE /\ Len(listed) < j /\ j - Len(listed) \in DOMAIN page
             /\ listed'[j] = page[j - Len(listed)]
    <3>1. CASE i \in DOMAIN listed /\ listed'[i] = listed[i]
      BY <1>2, <2>2, <3>1 DEF Above
    <3>2. CASE /\ Len(listed) < i /\ i - Len(listed) \in DOMAIN page
               /\ listed'[i] = page[i - Len(listed)]
      <4>1. i - Len(listed) < j - Len(listed)
        BY <1>3, <1>6
      <4> QED BY <1>2, <2>2, <3>2, <4>1 DEF Ascending
    <3> QED BY <1>7, <3>1, <3>2
  <2> QED BY <1>7, <2>1, <2>2
<1>11. OfRows(listed')
  <2>1. OfRows(listed)
    BY DEF ListedInv
  <2> QED BY <1>2, <1>7, <2>1 DEF OfRows
<1>12. \A h : In(listed, h) \/ In(page, h) => In(listed', h)
  BY <1>8, <1>9 DEF In
<1>13. \A h : Above(listed, h) /\ Above(page, h) => Above(listed', h)
  BY <1>7 DEF Above
<1>14. ASSUME NEW i \in DOMAIN rows
       PROVE  In(listed', rows[i].generation) \/ Above(listed', rows[i].generation)
  <2>1. CASE i \in 1 .. at
    BY <1>2, <1>12, <2>1
  <2>2. CASE i \in (at + 1) .. Len(rows)
    BY <1>2, <1>13, <2>2
  <2> QED BY <1>3, <2>1, <2>2
<1>15. ASSUME ~paging', NEW i \in DOMAIN rows PROVE In(listed', rows[i].generation)
  <2>1. CASE page = << >>
    <3>1. at = Len(rows)
      <4>1. Len(page) = 0
        BY <2>1
      <4>2. at >= Len(rows)
        <5>1. limit \in Nat
          BY DEF Typed
        <5> QED BY <1>1, <1>2, <1>3, <4>1, <5>1
      <4>3. at \in Nat /\ Len(rows) \in Nat /\ at <= Len(rows)
        BY <1>2, <1>3, Within
      <4> QED BY <4>2, <4>3
    <3>2. i \in 1 .. at
      BY <1>3, <3>1
    <3> QED BY <1>2, <1>12, <3>2
  <2>2. CASE page # << >>
    <3> DEFINE g == page[Len(page)]
    <3>1. Len(page) \in DOMAIN page /\ g \in Nat
      BY <1>3, <2>2, EmptySeq
    <3>2. ~(Jump(g) < Len(rows))
      BY <1>1, <1>15, <2>2
    <3> HIDE DEF g
    <3>3. i \in 1 .. Jump(g) /\ rows[i].generation <= g
      <4>1. Jump(g) \in 0 .. Len(rows) /\ \A j \in 1 .. Jump(g) : rows[j].generation <= g
        BY <1>3, <3>1, JumpSplits
      <4>2. i \in 1 .. Jump(g)
        BY <1>3, <3>2, <4>1
      <4> QED BY <4>1, <4>2
    <3>4. ~Above(listed', rows[i].generation)
      BY <1>4, <1>9, <3>1, <3>3 DEF Above, g
    <3> QED BY <1>14, <3>4
  <2> QED BY <2>1, <2>2
<1>16. ListedInv'
  BY <1>1, <1>10, <1>11, <1>14, <1>15 DEF ListedInv, Ascending, OfRows, Above, In
<1> QED BY <1>5, <1>16

-----------------------------------------------------------------------------
(***************************************************************************)
(* The theorem.                                                            *)
(***************************************************************************)
\* The invariant holds before the first query.
LEMMA QueryInit == ASSUME RangeInit PROVE QueryInv
<1>1. Typed
  BY DEF RangeInit, Typed, Answering
<1>2. RangeInv
  BY DEF RangeInit, RangeInv, Searching, Scanning, Cutting
<1>3. ListedInv /\ Paging
  <2>1. listed = << >> /\ paging = TRUE /\ DOMAIN listed = {} /\ pc = "idle"
    BY DEF RangeInit
  <2> QED BY <2>1 DEF ListedInv, Paging, Ascending, OfRows, Above
<1> QED BY <1>1, <1>2, <1>3 DEF QueryInv

\* Every step keeps it.
LEMMA QueryStep == ASSUME QueryInv, [RangeNext]_queryVars PROVE QueryInv'
<1> USE DEF QueryInv
<1>0. MaxLen \in Nat /\ Queries \subseteq Asked /\ PageLimits \subseteq Nat
  BY RangeParameters
<1>1. ASSUME NEW q \in Queries, Ask(q) PROVE QueryInv'
  <2>1. Typed'
    BY <1>0, <1>1 DEF Typed, Ask, Answering, pageVars
  <2>2. ListedInv' /\ Paging'
    BY <1>1, SameListed DEF Ask, Paging, pageVars
  <2> QED BY <1>1, <2>1, <2>2, AskRange
<1>2. CASE Search
  <2>1. Typed'
    BY <1>2 DEF Typed, Search, Answering, pageVars
  <2>2. ListedInv' /\ Paging'
    BY <1>2, SameListed DEF Search, Paging, pageVars
  <2> QED BY <1>0, <1>2, <2>1, <2>2, SearchRange
<1>3. CASE Found
  <2>1. Typed'
    BY <1>3 DEF Typed, Found, Answering, rangeVars, pageVars
  <2>2. ListedInv' /\ Paging'
    BY <1>3, SameListed DEF Found, Paging, pageVars
  <2> QED BY <1>0, <1>3, <2>1, <2>2, FoundRange
<1>4. CASE Scan
  <2>1. Typed'
    <3> DEFINE r == rows[at + 1]
    <3>1. r \in Row
      <4>1. at + 1 \in DOMAIN rows
        <5>1. at < Len(rows) /\ at \in 0 .. Len(rows)
          BY <1>4 DEF Scan, RangeInv, Scanning
        <5>2. Len(rows) \in Nat /\ DOMAIN rows = 1 .. Len(rows)
          BY Sequences
        <5> QED BY <5>1, <5>2
      <4> QED BY <4>1, RowFields DEF Typed
    <3>2. seen' = Append(seen, r) \/ seen' = seen
      BY <1>4 DEF Scan
    <3>3. pc' \in {"scan", "cut"} /\ pc = "scan"
      BY <1>4 DEF Scan
    <3> HIDE DEF r
    <3>4. seen' \in Seq(Row)
      <4>1. seen \in Seq(Row)
        BY DEF Typed
      <4>2. Append(seen, r) \in Seq(Row)
        BY <3>1, <4>1, Extended
      <4> QED BY <3>2, <4>1, <4>2
    <3> QED BY <1>4, <3>3, <3>4 DEF Typed, Scan, Answering, pageVars
  <2>2. ListedInv' /\ Paging'
    BY <1>4, SameListed DEF Scan, Paging, pageVars
  <2> QED BY <1>0, <1>4, <2>1, <2>2, ScanRange
<1>5. CASE ScanLimit \/ Refuse \/ ListLimit
  <2>1. Typed'
    BY <1>5 DEF Typed, ScanLimit, Refuse, ListLimit, Answering, rangeVars, pageVars
  <2>2. ListedInv' /\ Paging'
    BY <1>5, SameListed DEF ScanLimit, Refuse, ListLimit, Paging, pageVars
  <2>3. RangeInv'
    BY <1>5 DEF ScanLimit, Refuse, ListLimit, RangeInv, Searching, Scanning, Cutting
  <2> QED BY <2>1, <2>2, <2>3
<1>6. CASE ScanEnd
  <2>1. Typed'
    BY <1>6 DEF Typed, ScanEnd, Answering, rangeVars, pageVars
  <2>2. ListedInv' /\ Paging'
    BY <1>6, SameListed DEF ScanEnd, Paging, pageVars
  <2> QED BY <1>0, <1>6, <2>1, <2>2, ScanEndRange
<1>7. CASE Cut
  <2>1. Typed'
    <3> DEFINE p == Piece(Cursor, NextCut(Cursor))
    <3>1. p \in PieceSet
      BY <1>7, PieceHonest DEF Cut, RangeInv, Cutting, Answering
    <3>2. /\ pc = "cut"
          /\ \/ pieces' = Append(pieces, p) /\ pc' = "cut"
             \/ pieces' = pieces /\ pc' = "error"
      BY <1>7 DEF Cut
    <3> HIDE DEF p
    <3>3. pieces' \in Seq(PieceSet)
      BY <3>1, <3>2, Extended DEF Typed
    <3> QED BY <1>7, <3>2, <3>3 DEF Typed, Cut, Answering, pageVars
  <2>2. ListedInv' /\ Paging'
    BY <1>7, SameListed DEF Cut, Paging, pageVars
  <2> QED BY <1>0, <1>7, <2>1, <2>2, CutRange
<1>8. CASE Answer
  <2>1. Typed'
    BY <1>8 DEF Typed, Answer, Answering, rangeVars, pageVars
  <2>2. ListedInv' /\ Paging'
    BY <1>8, SameListed DEF Answer, Paging, pageVars
  <2> QED BY <1>8, <2>1, <2>2, AnswerRange
<1>9. CASE Close
  <2>1. Typed'
    BY <1>9 DEF Typed, Close, Answering
  <2>2. ListedInv' /\ Paging'
    BY <1>9, SameListed DEF Close, Paging
  <2>3. RangeInv'
    BY <1>9 DEF Close, RangeInv, Searching, Scanning, Cutting
  <2> QED BY <2>1, <2>2, <2>3
<1>10. ASSUME NEW n \in PageLimits, AskPage(n) PROVE QueryInv'
  <2>1. Typed'
    BY <1>0, <1>10 DEF Typed, AskPage, Answering, rangeVars
  <2>2. RangeInv'
    BY <1>10 DEF AskPage, RangeInv, Searching, Scanning, Cutting
  <2> QED BY <1>0, <1>10, <2>1, <2>2, AskPagePaging
<1>11. CASE ListNext
  <2>1. page' \in Seq(Nat) /\ ListedInv' /\ Paging'
    BY <1>11, ListNextPaging
  <2>2. Typed'
    BY <1>11, <2>1 DEF Typed, ListNext, Answering, rangeVars
  <2>3. RangeInv'
    BY <1>11 DEF ListNext, RangeInv, Searching, Scanning, Cutting
  <2> QED BY <2>1, <2>2, <2>3
<1>12. CASE PageEnd
  <2>1. listed' \in Seq(Nat) /\ ListedInv'
    BY <1>12, PageEndListed
  <2>2. Typed'
    BY <1>12, <2>1 DEF Typed, PageEnd, Answering, rangeVars
  <2>3. RangeInv' /\ Paging'
    BY <1>12 DEF PageEnd, RangeInv, Searching, Scanning, Cutting, Paging
  <2> QED BY <2>1, <2>2, <2>3
<1>13. CASE UNCHANGED queryVars
  <2>1. /\ rows' = rows /\ query' = query /\ pc' = pc /\ lo' = lo /\ hi' = hi /\ at' = at
        /\ seen' = seen /\ pieces' = pieces /\ limit' = limit /\ page' = page
        /\ listed' = listed /\ paging' = paging
    BY <1>13 DEF queryVars, rangeVars, pageVars
  <2>2. Typed'
    BY <2>1 DEF Typed, Answering
  <2>3. ListedInv' /\ Paging'
    BY <2>1, SameListed DEF Paging, Ascending, OfRows, In, Above
  <2>4. Cursor' = Cursor /\ Cuts' = Cuts /\ Tiled' = Tiled
        /\ \A n : SeenUpTo(n)' <=> SeenUpTo(n)
    BY <2>1, SameRange DEF Cursor, Cuts, SeenUpTo, Tiled
  <2>5. ASSUME NEW n \in DOMAIN pieces, Honest(pieces[n])
        PROVE  Honest(pieces[n])'
    <3>1. Honest(pieces'[n])
      BY <2>1, <2>5
    <3> QED BY <2>1, <3>1, StaysHonest
  <2>6. RangeInv'
    BY <2>1, <2>4, <2>5, SameRange DEF RangeInv, Searching, Scanning, Cutting, SeenUpTo
  <2> QED BY <2>2, <2>3, <2>6
<1> QED BY <1>1, <1>2, <1>3, <1>4, <1>5, <1>6, <1>7, <1>8, <1>9, <1>10, <1>11, <1>12, <1>13
        DEF RangeNext

\* The invariant says what the query promises.
LEMMA QueryInvHonest == ASSUME QueryInv PROVE QueryHonest
<1>1. ASSUME pc \in {"cut", "done"} PROVE SeenUpTo(Len(rows)) /\ Answering
  BY <1>1 DEF QueryInv, RangeInv, Cutting, Answering
<1>2. ObservationsComplete
  <2>1. \A i \in Matching : i <= Len(rows)
    <3>1. Len(rows) \in Nat /\ DOMAIN rows = 1 .. Len(rows)
      BY Sequences DEF QueryInv
    <3> QED BY <3>1 DEF Matching
  <2> QED BY <1>1, <2>1 DEF ObservationsComplete, SeenUpTo
<1>3. ASSUME pc = "done"
      PROVE  Tiled /\ pieces # << >> /\ Cursor = query.end
             /\ \A n \in DOMAIN pieces : Honest(pieces[n])
  <2>1. Tiled /\ Cursor = query.end /\ \A n \in DOMAIN pieces : Honest(pieces[n])
    BY <1>3 DEF QueryInv, RangeInv, Cutting
  <2>2. query.start \in Nat /\ query.end \in Nat /\ query.start < query.end
    BY <1>1, <1>3, CutPositions DEF QueryInv
  <2> QED BY <2>1, <2>2 DEF Cursor
<1>4. PagesComplete
  BY DEF QueryInv, ListedInv, PagesComplete, Ascending, OfRows, In
<1> QED BY <1>2, <1>3, <1>4 DEF QueryHonest, NoByteInvented

(***************************************************************************)
(* A range query neither invents nor omits, for every sorted index: the    *)
(* binary search with its look-back misses no overlapping row, the pieces  *)
(* tile the range and are honest byte by byte, and the pages of            *)
(* History::generations list every generation once and in order, whatever  *)
(* their sizes and however many queries are asked in between.              *)
(***************************************************************************)
THEOREM QueryHonestThm == RangeSpec => []QueryHonest
<1>1. RangeInit => QueryInv
  BY QueryInit
<1>2. QueryInv /\ [RangeNext]_queryVars => QueryInv'
  BY QueryStep
<1>3. QueryInv => QueryHonest
  BY QueryInvHonest
<1> QED BY <1>1, <1>2, <1>3, PTL DEF RangeSpec

=============================================================================
