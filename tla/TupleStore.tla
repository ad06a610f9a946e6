------------------------------ MODULE TupleStore ------------------------------
(* Store of history/src/state.rs: at most hot_tuples tuples in memory, the    *)
(* least recently used one spilled to a file under the disk quota, and read   *)
(* back when its tuple is seen again.  The first error makes the store fail   *)
(* for good.  It implements TupleMap.                                         *)
EXTENDS Generations, FiniteSetsExt

CONSTANTS
    Keys,
    Segments,    \* the segments each tuple may see
    StepBound,   \* model bound on the number of segments
    HotTuples,   \* config.hot_tuples
    Quota,       \* what config.max_disk_bytes leaves for the state files
    FaultBound   \* how many file operations fail

ASSUME StoreAssumption ==
    /\ HotTuples \in Nat \ {0}
    /\ Quota \in Nat /\ FaultBound \in Nat
    /\ \A k \in Keys : Segments[k] \subseteq Segment

VARIABLES
    hot,      \* Store.hot: the cached tuples with the clock of their last use
    files,    \* the spilled tuples
    clock, used, failed, finished, frame, decision, faults

vars == << hot, files, clock, used, failed, finished, frame, decision, faults >>

NoDecision == [key |-> None, segment |-> None, placements |-> {}, assumption |-> FALSE]

Init ==
    /\ hot = << >> /\ files = << >>
    /\ clock = 0 /\ used = 0 /\ frame = 0 /\ faults = 0
    /\ failed = FALSE /\ finished = FALSE
    /\ decision = NoDecision

(* Length of the encoded state: its key, its hash and its generations. *)
Size(generations) == 1 + Len(generations)

Without(f, k) == [x \in DOMAIN f \ {k} |-> f[x]]
With(f, k, v) == [x \in DOMAIN f \cup {k} |-> IF x = k THEN v ELSE f[x]]

Oldest(h) == CHOOSE k \in DOMAIN h : \A x \in DOMAIN h : h[k].used <= h[x].used

(* Mutant of Spill: the key leaves memory and no file is written. *)
SpillWithoutFile(s, k) ==
    [s EXCEPT !.hot = Without(@, k), !.used = @ + Size(s.hot[k].state)]

(* The disk side of the store: what spilling and loading do to hot, files and *)
(* the quota.  `full` when the quota refuses the spill.                       *)
Spill(s, k) ==
    [s EXCEPT !.hot = Without(@, k),
              !.files = With(@, k, s.hot[k].state),
              !.used = @ + Size(s.hot[k].state),
              !.full = @ \/ s.used + Size(s.hot[k].state) > Quota]

Load(s, k) ==
    IF k \in DOMAIN s.files
    THEN [s EXCEPT !.hot = With(@, k, [state |-> s.files[k], used |-> 0]),
                   !.used = @ - Size(s.files[k]),
                   !.files = Without(@, k)]
    ELSE [s EXCEPT !.hot = With(@, k, [state |-> << >>, used |-> 0])]

(* Make room and bring k into memory. *)
Fetch(s, k) ==
    IF k \in DOMAIN s.hot THEN s
    ELSE Load(IF Cardinality(DOMAIN s.hot) >= HotTuples THEN Spill(s, Oldest(s.hot)) ELSE s, k)

Disk == [hot |-> hot, files |-> files, used |-> used, full |-> FALSE]

(* A call that returns an error: the store has failed, and what it held is    *)
(* not used again.                                                            *)
Failed ==
    /\ failed' = TRUE
    /\ decision' = NoDecision
    /\ UNCHANGED << hot, files, clock, used, finished, frame >>

IngestSegment(k, p) ==
    LET s == Fetch(Disk, k)
        state == s.hot[k].state
        r == Ingest(state, p, frame + 1)
    IN  /\ ~failed /\ ~finished /\ frame < StepBound
        /\ \/ /\ ~s.full /\ ~OverLimit(state, p)
              /\ hot' = [s.hot EXCEPT ![k] = [state |-> r.generations, used |-> clock + 1]]
              /\ files' = s.files
              /\ used' = s.used
              /\ clock' = clock + 1
              /\ frame' = frame + 1
              /\ decision' = [key |-> k, segment |-> p, placements |-> r.placements,
                              assumption |-> r.assumption]
              /\ UNCHANGED << failed, finished, faults >>
           \/ /\ s.full \/ OverLimit(state, p)
              /\ Failed /\ UNCHANGED faults
           \/ /\ k \notin DOMAIN hot   \* a file operation of the spill or load
              /\ faults < FaultBound /\ faults' = faults + 1
              /\ Failed

(* Where a tuple's state is. *)
StateOf(k) ==
    IF k \in DOMAIN hot THEN hot[k].state
    ELSE IF k \in DOMAIN files THEN files[k]
    ELSE << >>

(* finish: spill everything; a spill only adds to the charge, so one of them  *)
(* is refused exactly when all of them together exceed the quota.             *)
Spilled == used + MapThenSumSet(LAMBDA k : Size(hot[k].state), DOMAIN hot)

Finish ==
    /\ ~failed /\ ~finished
    /\ \/ /\ Spilled <= Quota
          /\ hot' = << >>
          /\ files' = [k \in DOMAIN hot \cup DOMAIN files |-> StateOf(k)]
          /\ used' = Spilled
          /\ finished' = TRUE
          /\ UNCHANGED << clock, failed, frame, decision, faults >>
       \/ Spilled > Quota /\ Failed /\ UNCHANGED faults
       \/ /\ hot # << >>
          /\ faults < FaultBound /\ faults' = faults + 1
          /\ Failed

Next == (\E k \in Keys : \E p \in Segments[k] : IngestSegment(k, p)) \/ Finish

Spec == Init /\ [][Next]_vars

------------------------------------------------------------------------------
Abstract == INSTANCE TupleMap
    WITH map <- IF failed THEN [k \in Keys |-> << >>] ELSE [k \in Keys |-> StateOf(k)]

(* Eviction is invisible: the store is a plain map from tuples to their       *)
(* generations, whatever was spilled and read back in between, until it       *)
(* fails.                                                                     *)
ImplementsMap == Abstract!MapSpec

(* What the map promises, of the store: every placement within reach of every *)
(* generation is offered, in one coordinate system, whatever was evicted and  *)
(* read back in between.                                                      *)
PlacementsExact == Abstract!PlacementsExact

===============================================================================
