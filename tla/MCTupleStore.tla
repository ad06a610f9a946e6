----------------------------- MODULE MCTupleStore -----------------------------
(* The state of the history build: its tuple store, the external sort of its  *)
(* placements and the queries over the sorted index.  A behaviour is one of   *)
(* the three, as `part` says; a query is a process of its own, and the sort   *)
(* runs after the store is finished.                                          *)
EXTENDS TupleStore, RangeQuery, TLC

CONSTANTS
    Busy,   \* the tuple that sees every kind of segment
    Rows, MaxRows, Entries, FanIn, Quotas

VARIABLES
    part,
    input, raw, read, runs, pass, count, next, first, heads, ranges, quota, charged, phase

sortVars == << input, raw, read, runs, pass, count, next, first, heads, ranges, quota,
               charged, phase >>

Sort == INSTANCE ExternalSort WITH used <- charged, at <- read

(* The tuples that only evict it are alike.                                   *)
Others == Permutations(Keys \ {Busy})

(* Segments of two connections that reuse the tuple, with a sequence number   *)
(* that wraps within a few steps.  The other tuples are there to evict it.    *)
Seg(d, s, len, flags, ack) ==
    [direction |-> d, sequence |-> s, len |-> len, acknowledgement |-> ack, when |-> None,
     syn |-> "S" \in flags, ack |-> "A" \in flags, fin |-> "F" \in flags, rst |-> "R" \in flags]

BusySegments ==
    { Seg(0, 6, 0, {"S"}, 0),
      Seg(0, 1, 0, {"S"}, 0),
      Seg(1, 3, 0, {"S"}, 0),
      Seg(1, 3, 0, {"S", "A"}, 7),
      Seg(0, 7, 2, {"A"}, 4),
      Seg(0, 4, 3, {"A", "F"}, 4),
      Seg(1, 4, 1, {"A", "F"}, 7),
      [Seg(0, 2, 0, {"R"}, 0) EXCEPT !.when = 2],
      [Seg(1, 5, 0, {"A"}, 7) EXCEPT !.when = 1] }

MCSegments == [k \in Keys |-> IF k = Busy THEN BusySegments ELSE { Seg(0, 7, 2, {"A"}, 4) }]

R(g, d, start, ord, selected, bytes) ==
    [generation |-> g, direction |-> d, start |-> start, end |-> start + Len(bytes),
     ordinal |-> ord, selected |-> selected, bytes |-> bytes]

(* Overlaps that agree and that conflict, a duplicate that is not selected, a *)
(* short row before a long one, the other direction and later generations.    *)
Universe ==
    { R(1, 0, 1, 1, TRUE, << 1, 1, 1 >>),
      R(1, 0, 3, 2, TRUE, << 1, 2 >>),
      R(1, 0, 3, 3, TRUE, << 1, 3 >>),
      R(1, 0, 3, 4, FALSE, << 1, 2 >>),
      R(1, 0, 1, 5, TRUE, << 1 >>),
      R(1, 1, 2, 6, TRUE, << 2 >>),
      R(2, 0, 1, 7, TRUE, << 1, 2 >>),
      R(3, 0, 1, 8, TRUE, << 1 >>),
      R(4, 1, 1, 9, TRUE, << 1 >>) }

(* Up to four of them in any order: the query's Init keeps the sorted ones.  *)
MCIndexes ==
    { s \in UNION { [1 .. n -> Universe] : n \in 0 .. 4 } :
        \A i, j \in DOMAIN s : s[i] = s[j] => i = j }

MCQueries ==
    { [generation |-> g, direction |-> d, start |-> a, end |-> b] :
        g \in {1}, d \in {0}, a \in 0 .. 4, b \in {2, 3, 5, 6} }
    \cup { [generation |-> 2, direction |-> 0, start |-> 0, end |-> 4],
           [generation |-> 1, direction |-> 1, start |-> 0, end |-> 4] }

(* The side that is not looked at has nothing to do. *)
NoSort ==
    /\ input = << >> /\ raw = << >> /\ charged = 0 /\ quota = 0
    /\ read = 0 /\ runs = << >> /\ pass = 0 /\ count = 0 /\ next = 0 /\ first = 0
    /\ heads = << >> /\ ranges = << >> /\ phase = "done"

NoQuery ==
    /\ rows = << >> /\ query = << >> /\ pc = "idle" /\ lo = 0 /\ hi = 0 /\ at = 0 /\ scanned = 0
    /\ seen = << >> /\ pieces = << >> /\ refs = 0
    /\ limit = 0 /\ page = << >> /\ listed = << >> /\ paging = TRUE

HistoryInit ==
    /\ Init
    /\ \/ part = "store" /\ NoSort /\ NoQuery
       \/ part = "sort" /\ Sort!Init /\ NoQuery
       \/ part = "query" /\ NoSort /\ RangeInit

HistoryNext ==
    \/ part = "store" /\ Next /\ UNCHANGED << part, sortVars, queryVars >>
    \/ part = "sort" /\ Sort!Next /\ UNCHANGED << part, vars, queryVars >>
    \/ part = "query" /\ RangeNext /\ UNCHANGED << part, vars, sortVars >>

HistorySpec == HistoryInit /\ [][HistoryNext]_<< part, vars, sortVars, queryVars >>

(* See ExternalSort: the sorted index holds exactly the rows of the build.    *)
SortsInput == Sort!SortsInput
===============================================================================
