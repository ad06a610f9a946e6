----------------------------- MODULE ExternalSort -----------------------------
(* sort_checked of history/src/index.rs: sorts the placement rows of a build  *)
(* with a bounded number of rows in memory and a bounded number of open runs, *)
(* under the disk quota.  A row is a number: rows are totally ordered.        *)
EXTENDS Naturals, Sequences, FiniteSets, SequencesExt

CONSTANTS
    Rows,      \* the rows that may occur
    MaxRows,   \* how many rows placements.raw holds at most
    Entries,   \* sort_entries
    FanIn,     \* merge_fan_in
    Quotas     \* what the disk quota may be

VARIABLES
    input,   \* what the build wrote to placements.raw
    raw,     \* placements.raw, while it exists
    at,      \* rows read of it
    runs,    \* the run files of this pass and of the next, by pass and number
    pass, count, next, first,
    heads,   \* the heap of the merge: file number -> rows of it not yet written
    ranges,  \* ranges.idx, once it is there
    quota, used, phase

vars == << input, raw, at, runs, pass, count, next, first, heads, ranges, quota, used, phase >>

Init ==
    /\ input \in UNION { [1 .. n -> Rows] : n \in 0 .. MaxRows }
    /\ quota \in { q \in Quotas : q >= Len(input) }
    /\ raw = input /\ used = Len(input)
    /\ at = 0 /\ runs = << >> /\ pass = 0 /\ count = 0 /\ next = 0 /\ first = 0
    /\ heads = << >> /\ ranges = << >> /\ phase = "chunk"

(* chunk.sort() *)
Sorted(s) == SortSeq(s, LAMBDA a, b : a <= b)

Least(a, b) == IF a < b THEN a ELSE b

With(f, k, v) == [x \in DOMAIN f \cup {k} |-> IF x = k THEN v ELSE f[x]]

SizeOf(n) == Len(runs[<< pass, n >>])

(* An error or a cancellation leaves the files as they are. *)
Stop == phase' = "failed" /\ UNCHANGED << input, raw, at, runs, pass, count, next, first, heads,
                                          ranges, quota, used >>

(* The next chunk is read, sorted and written to run 0-count.  Every row is   *)
(* charged before it is written.                                              *)
WriteRun ==
    LET chunk == SubSeq(raw, at + 1, Least(at + Entries, Len(raw)))
    IN  /\ phase = "chunk" /\ at < Len(raw)
        /\ used + Len(chunk) <= quota
        /\ runs' = With(runs, << 0, count >>, Sorted(chunk))
        /\ at' = at + Len(chunk)
        /\ count' = count + 1
        /\ used' = used + Len(chunk)
        /\ UNCHANGED << input, raw, pass, next, first, heads, ranges, quota, phase >>

(* The input is removed and its charge released; no rows, an empty index. *)
EndOfInput ==
    /\ phase = "chunk" /\ at = Len(raw)
    /\ raw' = << >>
    /\ used' = used - Len(raw)
    /\ phase' = IF count = 0 THEN "done" ELSE "pass"
    /\ UNCHANGED << input, at, runs, pass, count, next, first, heads, ranges, quota >>

(* The runs first .. GroupEnd - 1 are merged together. *)
GroupEnd == Least(count, first + FanIn)

(* Open the runs of the next group and start the output run. *)
OpenGroup ==
    /\ phase = "pass" /\ count > 1 /\ first < count
    /\ heads' = [n \in first .. (GroupEnd - 1) |-> runs[<< pass, n >>]]
    /\ runs' = With(runs, << pass + 1, next >>, << >>)
    /\ phase' = "merge"
    /\ UNCHANGED << input, raw, at, pass, count, next, first, ranges, quota, used >>

Live == { n \in DOMAIN heads : heads[n] # << >> }

(* Mutant of Pop: the last file with a row is taken. *)
PopLast == CHOOSE n \in Live : \A m \in Live : n >= m

(* The file whose next row is the least; the first such file among equals. *)
Pop == CHOOSE n \in Live :
           \A m \in Live : \/ Head(heads[n]) < Head(heads[m])
                           \/ Head(heads[n]) = Head(heads[m]) /\ n <= m

(* heap.pop(), write_row, and the refill from the same file. *)
MergeRow ==
    /\ phase = "merge" /\ Live # {}
    /\ used + 1 <= quota
    /\ LET n == Pop
       IN  /\ runs' = [runs EXCEPT ![<< pass + 1, next >>] = Append(@, Head(heads[n]))]
           /\ heads' = [heads EXCEPT ![n] = Tail(@)]
    /\ used' = used + 1
    /\ UNCHANGED << input, raw, at, pass, count, next, first, ranges, quota, phase >>

GroupRows == FoldLeft(LAMBDA sum, n : sum + SizeOf(n), 0,
                      [i \in 1 .. (GroupEnd - first) |-> first + i - 1])

(* What removing the merged input runs releases. *)
Released == GroupRows

(* The group is merged: its runs are removed. *)
CloseGroup ==
    /\ phase = "merge" /\ Live = {}
    /\ runs' = [k \in DOMAIN runs \ { << pass, n >> : n \in first .. (GroupEnd - 1) } |-> runs[k]]
    /\ used' = used - Released
    /\ first' = GroupEnd
    /\ next' = next + 1
    /\ heads' = << >>
    /\ phase' = "pass"
    /\ UNCHANGED << input, raw, at, pass, count, ranges, quota >>

NextPass ==
    /\ phase = "pass" /\ count > 1 /\ first >= count
    /\ pass' = pass + 1
    /\ count' = next
    /\ next' = 0 /\ first' = 0
    /\ UNCHANGED << input, raw, at, runs, heads, ranges, quota, used, phase >>

(* The last run becomes ranges.idx. *)
Rename ==
    /\ phase = "pass" /\ count = 1
    /\ ranges' = runs[<< pass, 0 >>]
    /\ runs' = << >>
    /\ phase' = "done"
    /\ UNCHANGED << input, raw, at, pass, count, next, first, heads, quota, used >>

(* The quota refuses a row of a run.  (A merge has no such action: were its   *)
(* charge refused, MergeRow would be stuck and SortsInput would not hold.)    *)
Refused ==
    /\ phase = "chunk" /\ at < Len(raw)
    /\ used + Len(SubSeq(raw, at + 1, Least(at + Entries, Len(raw)))) > quota
    /\ Stop

(* check() reports the cancellation. *)
Cancelled == phase \in {"chunk", "pass", "merge"} /\ Stop

Step == WriteRun \/ EndOfInput \/ OpenGroup \/ MergeRow \/ CloseGroup \/ NextPass \/ Rename \/ Refused

Next == Step \/ Cancelled

Spec == Init /\ [][Next]_vars

------------------------------------------------------------------------------
(* ranges.idx is the input in order: no row lost, added or doubled in any     *)
(* pass, for every split into chunks and groups; and once the runs have been  *)
(* written no merge stops for want of quota.                                  *)
SortsInput ==
    /\ phase = "done" => ranges = Sorted(input)
    /\ phase = "merge" /\ Live # {} => used < quota
===============================================================================
