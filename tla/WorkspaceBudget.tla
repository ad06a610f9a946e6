-------------------------- MODULE WorkspaceBudget --------------------------
(***************************************************************************)
(* Admission of writers to the desktop workspace (tools/desktop/storage.py)*)
(* A path is the sequence of its names below runs/; a job is a path of     *)
(* length one, derived files lie below it.  A census is a function from    *)
(* the existing paths to the bytes of the files directly in them.  A       *)
(* writer is trusted to stay inside what it reserved, as the manager's own *)
(* threads do by sizing what they write beforehand.                        *)
(***************************************************************************)
EXTENDS Integers, Sequences, SequencesExt, FiniteSets, FiniteSetsExt

CONSTANTS
    Paths,      \* scopes a writer may reserve
    Peaks,      \* peaks a writer of derived files may reserve
    Limit,      \* the disk budget
    MinJob,     \* MIN_JOB_BUDGET
    MaxJobs,    \* MAX_JOBS
    MaxEntries, \* max_entries
    Retained    \* bytes of evidence from before, per path

VARIABLES
    size,           \* bytes of the files in each path that exists
    reservations    \* set of [path, peak, basis]

vars == <<size, reservations>>

Init == size = Retained /\ reservations = {}

-----------------------------------------------------------------------------
Below(p, q) == IsPrefix(q, p)
Overlap(p, q) == Below(p, q) \/ Below(q, p)

Inside(p) == SumFunctionOnSet(size, {q \in DOMAIN size : Below(q, p)})
Total == SumFunctionOnSet(size, DOMAIN size)

Outstanding(c) == Max({0, c.basis + c.peak - Inside(c.path)})

\* _usage: what is there, and what the reservations may still add.  Every
\* reservation here is for one entry.
Charged == Total + SumFunctionOnSet([c \in reservations |-> Outstanding(c)], reservations)
Entries == Cardinality(DOMAIN size) + Cardinality(reservations)

Available == Max({0, Limit - Charged})

\* Mutant of Denied: only a reservation of the same path is in the way.
DeniedSame(p, peak) ==
    \/ \E c \in reservations : c.path = p
    \/ Charged + peak > Limit
    \/ Entries + 1 > MaxEntries

Denied(p, peak) ==
    \/ \E c \in reservations : Overlap(p, c.path)
    \/ Charged + peak > Limit
    \/ Entries + 1 > MaxEntries

Siblings(p) == {q \in DOMAIN size : Front(q) = Front(p)}

\* The retention count also counts reservations of what does not exist yet.
Crowded(p, maximum) ==
    Cardinality(Siblings(p)) + Cardinality({c \in reservations : Front(c.path) = Front(p)}) >= maximum

Reserve(p, peak) ==
    /\ ~Denied(p, peak)
    /\ reservations' = reservations \cup {[path |-> p, peak |-> peak, basis |-> Inside(p)]}
    /\ UNCHANGED size

\* start: the job takes all that is left.
ReserveJob(p) ==
    /\ Len(p) = 1 /\ p \notin DOMAIN size
    /\ Available >= MinJob /\ ~Crowded(p, MaxJobs)
    /\ Reserve(p, Available)

ReserveBelow(p) == \E peak \in Peaks : Reserve(p, peak)

(***************************************************************************)
(* Writers, inside their reservation: new and longer files, and staging    *)
(* files removed.                                                          *)
(***************************************************************************)
Write(c, q) ==
    /\ Below(q, c.path)
    /\ Inside(c.path) < c.basis + c.peak
    /\ size' = [p \in DOMAIN size \cup {q} |->
                   (IF p \in DOMAIN size THEN size[p] ELSE 0) + IF p = q THEN 1 ELSE 0]
    /\ UNCHANGED reservations

Unlink(c, q) ==
    /\ Below(q, c.path) /\ q \in DOMAIN size /\ size[q] > 0
    /\ size' = [size EXCEPT ![q] = @ - 1]
    /\ UNCHANGED reservations

Release(c) ==
    /\ reservations' = reservations \ {c}
    /\ UNCHANGED size

Next ==
    \/ \E p \in Paths : ReserveJob(p) \/ ReserveBelow(p)
    \/ \E c \in reservations : Release(c) \/ \E q \in Paths : Write(c, q) \/ Unlink(c, q)

Spec == Init /\ [][Next]_vars

-----------------------------------------------------------------------------
\* Writers that stay inside what they were admitted for never take the workspace
\* over its budget together, whatever they reserve, write, remove and release in
\* whatever order; a workspace already over it does not grow.
WithinBudget == [][Total' <= Max({Limit, Total})]_vars
=============================================================================
