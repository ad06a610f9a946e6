--------------------------- MODULE TupleStoreProofs ---------------------------
(* The tuple store of history/src/state.rs implements TupleMap, and places    *)
(* every segment exactly, for every set of tuples and segments, every modulus *)
(* and horizon, every cache size, quota and number of failing file            *)
(* operations.  The inductive invariant of the first is Clocked alone: it     *)
(* makes the choice of the least recently used tuple a choice among cached    *)
(* tuples.  The rest is where the state of a tuple is before and after a      *)
(* fetch.  The second adds GenInv, the types of the generations, and rests on *)
(* the arithmetic of epoch_candidates.                                        *)
EXTENDS TupleStore, FiniteSetTheorems, WellFoundedInduction, TLAPS

-------------------------------------------------------------------------------
(* TupleState::ingest is the same operator in the store and in the map.       *)
(* Proved from the inside out, one operator of Generations at a time.         *)
\* Closed generations.
LEMMA SameClosed ==
    ASSUME NEW g
    PROVE  Abstract!Closed(g) <=> Closed(g)
BY DEF Abstract!Closed, Closed, Abstract!Directions, Directions

\* The offsets that a generation can reach.
LEMMA SameReach ==
    ASSUME NEW g, NEW p
    PROVE  /\ Abstract!Reach(g, p) = Reach(g, p)
           /\ Abstract!DataSequence(p) = DataSequence(p)
BY SameClosed DEF Abstract!Reach, Reach, Abstract!DataSequence, DataSequence,
        Abstract!Epochs, Epochs, Abstract!Low, Low, Abstract!High, High

\* The segments that contradict a generation.
LEMMA SameForeign ==
    ASSUME NEW g, NEW p
    PROVE  Abstract!Foreign(g, p) <=> Foreign(g, p)
BY SameClosed DEF Abstract!Foreign, Foreign

\* The offsets of a segment in one generation.
LEMMA SameOffsets ==
    ASSUME NEW g, NEW p
    PROVE  Abstract!Offsets(g, p) = Offsets(g, p)
<1>1. Abstract!Reach(g, p) = Reach(g, p) /\ Abstract!DataSequence(p) = DataSequence(p)
  BY SameReach
<1>2. Abstract!EpochOffsets(g, p) = EpochOffsets(g, p)
  BY <1>1, Zenon DEF Abstract!EpochOffsets, EpochOffsets
<1> QED BY <1>2, SameClosed, SameForeign DEF Abstract!Offsets, Offsets

\* The candidates of all generations.
LEMMA SameObserved ==
    ASSUME NEW gs, NEW p
    PROVE  Abstract!Observed(gs, p) = Observed(gs, p)
BY SameOffsets DEF Abstract!Observed, Observed, Abstract!Candidate, Candidate

\* The generations whose SYN is repeated.
LEMMA SameSameSyn ==
    ASSUME NEW gs, NEW p
    PROVE  Abstract!SameSyn(gs, p) = SameSyn(gs, p)
BY SameClosed DEF Abstract!SameSyn, SameSyn

\* The openings from both sides.
LEMMA SameSimultaneous ==
    ASSUME NEW g, NEW p
    PROVE  Abstract!Simultaneous(g, p) <=> Simultaneous(g, p)
BY SameClosed DEF Abstract!Simultaneous, Simultaneous, Abstract!Both, Both, Abstract!Directions, Directions

\* When a generation is created.
LEMMA SameCreates ==
    ASSUME NEW gs, NEW p
    PROVE  Abstract!Creates(gs, p) <=> Creates(gs, p)
BY SameObserved, SameSameSyn, SameSimultaneous DEF Abstract!Creates, Creates

\* All placements of a segment.
LEMMA SameCandidates ==
    ASSUME NEW gs, NEW p
    PROVE  Abstract!Candidates(gs, p) = Candidates(gs, p)
BY SameObserved, SameSameSyn, SameCreates
   DEF Abstract!Candidates, Candidates, Abstract!Candidate, Candidate

\* The limits that make ingest fail.
LEMMA SameLimit ==
    ASSUME NEW gs, NEW p
    PROVE  Abstract!OverLimit(gs, p) <=> OverLimit(gs, p)
BY SameCreates, SameForeign, SameReach DEF Abstract!OverLimit, OverLimit

\* The selected placement.
LEMMA SameSelected ==
    ASSUME NEW gs, NEW cs, NEW d
    PROVE  Abstract!Selected(gs, cs, d) = Selected(gs, cs, d)
BY DEF Abstract!Selected, Selected, Abstract!Distance, Distance

\* The progress of the selected generation.
LEMMA SameMoved ==
    ASSUME NEW g, NEW p, NEW at
    PROVE  Abstract!Moved(g, p, at) = Moved(g, p, at)
BY DEF Abstract!Moved, Moved, Abstract!Larger, Larger, Abstract!DataSequence, DataSequence

\* A new generation.
LEMMA SameNew ==
    ASSUME NEW p, NEW f, NEW n
    PROVE  Abstract!NewGeneration(p, f, n) = NewGeneration(p, f, n)
BY DEF Abstract!NewGeneration, NewGeneration, Abstract!Both, Both, Abstract!Directions, Directions

\* Hence ingest as a whole.
LEMMA SameIngest ==
    ASSUME NEW gs, NEW p, NEW f
    PROVE  Abstract!Ingest(gs, p, f) = Ingest(gs, p, f)
BY SameCreates, SameCandidates, SameSelected, SameMoved, SameNew DEF Abstract!Ingest, Ingest

-------------------------------------------------------------------------------
\* The clock and the times of last use are numbers.
Clocked == clock \in Nat /\ \A k \in DOMAIN hot : hot[k].used \in Nat

\* The least recently used tuple of a nonempty cache is in the cache: min_by_key
\* in Store::ingest_inner never comes back empty-handed.
LEMMA OldestHot ==
    ASSUME NEW h, DOMAIN h # {}, \A k \in DOMAIN h : h[k].used \in Nat
    PROVE  Oldest(h) \in DOMAIN h
<1> DEFINE R == OpToRel(<, Nat)
           T == {h[k].used : k \in DOMAIN h}
<1>1. T \subseteq Nat /\ T # {}
    OBVIOUS
<1>2. \E u \in T : \A v \in T : ~ (<<v, u>> \in R)
    <2> HIDE DEF R, T
    <2> QED BY <1>1, NatLessThanWellFounded, WFMin DEF R
<1>3. PICK u \in T : \A v \in T : ~ (v < u)
    BY <1>1, <1>2 DEF OpToRel
<1>4. PICK k \in DOMAIN h : h[k].used = u
    BY <1>3
<1>5. ASSUME NEW x \in DOMAIN h PROVE h[k].used <= h[x].used
    <2>1. h[x].used \in T /\ h[x].used \in Nat /\ u \in Nat
        BY <1>1
    <2>2. ~ (h[x].used < u)
        BY <1>3, <2>1
    <2> HIDE DEF T
    <2> QED BY <1>4, <2>1, <2>2
<1> QED BY <1>4, <1>5 DEF Oldest

\* Where a disk record s holds the state of a tuple; StateOf for Disk.
Located(s, x) ==
    IF x \in DOMAIN s.hot THEN s.hot[x].state
    ELSE IF x \in DOMAIN s.files THEN s.files[x]
    ELSE << >>

\* Store::spill moves one state and loses none.
LEMMA SpillLocated ==
    ASSUME NEW s, s = Disk, Clocked, Cardinality(DOMAIN hot) >= HotTuples,
           NEW t, t = Spill(s, Oldest(s.hot))
    PROVE  /\ \A x : Located(t, x) = StateOf(x)
           /\ \A x \in DOMAIN t.hot : x \in DOMAIN hot /\ t.hot[x] = hot[x]
           /\ t = [hot |-> t.hot, files |-> t.files, used |-> t.used, full |-> t.full]
<1>1. DOMAIN hot # {}
    BY FS_EmptySet, StoreAssumption
<1>2. Oldest(hot) \in DOMAIN hot
    BY <1>1, OldestHot DEF Clocked
<1>3. t = [hot |-> Without(hot, Oldest(hot)), files |-> With(files, Oldest(hot), hot[Oldest(hot)].state),
           used |-> t.used, full |-> t.full]
    BY DEF Spill, Disk
<1> QED BY <1>2, <1>3 DEF Located, StateOf, Without, With

\* Reading a state back moves it and loses none.
LEMMA LoadLocated ==
    ASSUME NEW s, NEW k, k \notin DOMAIN s.hot,
           s = [hot |-> s.hot, files |-> s.files, used |-> s.used, full |-> s.full],
           NEW t, t = Load(s, k)
    PROVE  /\ \A x : Located(t, x) = Located(s, x)
           /\ k \in DOMAIN t.hot
           /\ \A x \in DOMAIN t.hot : x # k => x \in DOMAIN s.hot /\ t.hot[x] = s.hot[x]
<1>1. CASE k \in DOMAIN s.files
    <2>1. t.hot = With(s.hot, k, [state |-> s.files[k], used |-> 0]) /\ t.files = Without(s.files, k)
        BY <1>1 DEF Load
    <2> QED BY <1>1, <2>1 DEF Located, With, Without
<1>2. CASE k \notin DOMAIN s.files
    <2>1. t.hot = With(s.hot, k, [state |-> << >>, used |-> 0]) /\ t.files = s.files
        BY <1>2 DEF Load
    <2> QED BY <1>2, <2>1 DEF Located, With
<1> QED BY <1>1, <1>2

\* After a fetch the tuple is in memory and every state is where a lookup finds it.
LEMMA FetchLocated ==
    ASSUME Clocked, NEW k, NEW t, t = Fetch(Disk, k)
    PROVE  /\ k \in DOMAIN t.hot
           /\ \A x : Located(t, x) = StateOf(x)
           /\ \A x \in DOMAIN t.hot : x # k => t.hot[x].used \in Nat
<1> DEFINE s == Disk
<1>0. s = [hot |-> hot, files |-> files, used |-> used, full |-> FALSE] /\ \A x : Located(s, x) = StateOf(x)
    BY DEF Disk, Located, StateOf
<1>1. CASE k \in DOMAIN hot
    BY <1>0, <1>1 DEF Fetch, Clocked
<1>2. CASE k \notin DOMAIN hot /\ Cardinality(DOMAIN hot) >= HotTuples
    <2> DEFINE m == Spill(s, Oldest(s.hot))
    <2>1. /\ \A x : Located(m, x) = StateOf(x)
          /\ \A x \in DOMAIN m.hot : x \in DOMAIN hot /\ m.hot[x] = hot[x]
          /\ m = [hot |-> m.hot, files |-> m.files, used |-> m.used, full |-> m.full]
        BY <1>2, SpillLocated
    <2>2. t = Load(m, k)
        BY <1>0, <1>2 DEF Fetch
    <2> HIDE DEF m
    <2> QED BY <1>2, <2>1, <2>2, LoadLocated DEF Clocked
<1>3. CASE k \notin DOMAIN hot /\ ~(Cardinality(DOMAIN hot) >= HotTuples)
    <2>1. t = Load(s, k)
        BY <1>0, <1>3 DEF Fetch
    <2>2. k \notin DOMAIN s.hot /\ s.hot = hot
          /\ s = [hot |-> s.hot, files |-> s.files, used |-> s.used, full |-> s.full]
        BY <1>0, <1>3
    <2> HIDE DEF s
    <2>3. /\ \A x : Located(t, x) = Located(s, x)
          /\ k \in DOMAIN t.hot
          /\ \A x \in DOMAIN t.hot : x # k => x \in DOMAIN s.hot /\ t.hot[x] = s.hot[x]
        BY <2>1, <2>2, LoadLocated
    <2> QED BY <1>0, <2>2, <2>3 DEF Clocked
<1> QED BY <1>1, <1>2, <1>3

-------------------------------------------------------------------------------
\* The refinement mapping of TupleStore.
Map == IF failed THEN [k \in Keys |-> << >>] ELSE [k \in Keys |-> StateOf(k)]

\* An ingest changes the state of its own tuple only.
LEMMA IngestStates ==
    ASSUME Clocked, NEW k, NEW p, NEW s, s = Fetch(Disk, k), NEW v,
           hot' = [s.hot EXCEPT ![k] = [state |-> v, used |-> clock + 1]],
           files' = s.files
    PROVE  /\ s.hot[k].state = StateOf(k)
           /\ \A x : StateOf(x)' = IF x = k THEN v ELSE StateOf(x)
           /\ \A x \in DOMAIN hot' : (hot'[x]).used \in Nat
<1>1. /\ k \in DOMAIN s.hot
      /\ \A x : Located(s, x) = StateOf(x)
      /\ \A x \in DOMAIN s.hot : x # k => s.hot[x].used \in Nat
    BY FetchLocated
<1>2. /\ DOMAIN hot' = DOMAIN s.hot
      /\ hot'[k] = [state |-> v, used |-> clock + 1]
      /\ \A x \in DOMAIN s.hot : x # k => hot'[x] = s.hot[x]
    BY <1>1
<1>3. s.hot[k].state = StateOf(k)
    BY <1>1 DEF Located
<1>4. ASSUME NEW x PROVE StateOf(x)' = IF x = k THEN v ELSE StateOf(x)
    <2>1. StateOf(x)' = IF x \in DOMAIN hot' THEN (hot'[x]).state
                        ELSE IF x \in DOMAIN s.files THEN s.files[x] ELSE << >>
        BY DEF StateOf
    <2>2. Located(s, x) = StateOf(x)
        BY <1>1
    <2> QED BY <1>1, <1>2, <2>1, <2>2 DEF Located
<1>5. \A x \in DOMAIN hot' : (hot'[x]).used \in Nat
    BY <1>1, <1>2 DEF Clocked
<1> QED BY <1>3, <1>4, <1>5

\* Every error of the store is the one failure of the map.
LEMMA FailedStep ==
    ASSUME ~failed, Failed
    PROVE  Abstract!FailStore
BY DEF Failed, Abstract!FailStore, NoDecision, Abstract!NoDecision

\* Store::ingest implements TupleMap's IngestSegment or fails.
LEMMA IngestStep ==
    ASSUME Clocked, NEW k \in Keys, NEW p \in Segments[k], IngestSegment(k, p)
    PROVE  Clocked' /\ (Abstract!IngestSegment(k, p) \/ Abstract!FailStore)
<1> DEFINE s == Fetch(Disk, k)
           state == s.hot[k].state
           r == Ingest(state, p, frame + 1)
<1>1. CASE Failed
    BY <1>1, FailedStep DEF IngestSegment, Failed, Clocked
<1>2. CASE /\ ~OverLimit(state, p)
           /\ hot' = [s.hot EXCEPT ![k] = [state |-> r.generations, used |-> clock + 1]]
           /\ files' = s.files /\ clock' = clock + 1 /\ frame' = frame + 1
           /\ decision' = [key |-> k, segment |-> p, placements |-> r.placements,
                           assumption |-> r.assumption]
           /\ UNCHANGED failed
    <2>0. ~failed /\ ~failed' /\ frame < StepBound
        BY <1>2 DEF IngestSegment
    <2>1. /\ state = StateOf(k)
          /\ \A x : StateOf(x)' = IF x = k THEN r.generations ELSE StateOf(x)
          /\ \A x \in DOMAIN hot' : (hot'[x]).used \in Nat
        <3> HIDE DEF r
        <3> QED BY <1>2, IngestStates
    <2>2. Clocked'
        BY <1>2, <2>1 DEF Clocked
    <2>3. /\ Map = [x \in Keys |-> StateOf(x)]
          /\ Map' = [x \in Keys |-> StateOf(x)']
          /\ Map[k] = state
        BY <2>0, <2>1 DEF Map
    <2>4. Map' = [Map EXCEPT ![k] = r.generations]
        <3> HIDE DEF r, state
        <3> QED BY <2>1, <2>3
    <2>5. r = Abstract!Ingest(Map[k], p, frame + 1) /\ ~Abstract!OverLimit(Map[k], p)
        BY <1>2, <2>3, SameIngest, SameLimit
    <2>6. Abstract!IngestSegment(k, p)
        <3> HIDE DEF r, state, s
        <3> QED BY <1>2, <2>0, <2>4, <2>5 DEF Abstract!IngestSegment, Map
    <2> QED BY <2>2, <2>6
<1> QED BY <1>1, <1>2 DEF IngestSegment

\* Store::finish changes no state, or fails.
LEMMA FinishStep ==
    ASSUME Clocked, Finish
    PROVE  Clocked' /\ (Abstract!FailStore \/ UNCHANGED Abstract!mapVars)
<1>1. CASE Failed
    BY <1>1, FailedStep DEF Finish, Failed, Clocked
<1>2. CASE /\ hot' = << >>
           /\ files' = [k \in DOMAIN hot \cup DOMAIN files |-> StateOf(k)]
           /\ UNCHANGED << clock, failed, frame, decision >>
    <2>1. DOMAIN hot' = {}
        BY <1>2
    <2>2. \A x : StateOf(x)' = StateOf(x)
        BY <1>2, <2>1 DEF StateOf
    <2>3. Clocked'
        BY <1>2, <2>1 DEF Clocked
    <2> QED BY <1>2, <2>2, <2>3 DEF Abstract!mapVars
<1> QED BY <1>1, <1>2 DEF Finish

\* Every step of the store is a step of the map or changes nothing in it.
LEMMA NextStep ==
    ASSUME Clocked, [Next]_vars
    PROVE  Clocked' /\ [Abstract!MapNext]_(Abstract!mapVars)
<1>1. CASE \E k \in Keys : \E p \in Segments[k] : IngestSegment(k, p)
    BY <1>1, IngestStep DEF Abstract!MapNext
<1>2. CASE Finish
    BY <1>2, FinishStep DEF Abstract!MapNext
<1>3. CASE UNCHANGED vars
    BY <1>3 DEF vars, Clocked, Abstract!mapVars, StateOf
<1> QED BY <1>1, <1>2, <1>3 DEF Next

\* Eviction is invisible: whatever sequence of spills, loads and failures the
\* bounded cache goes through, the decisions are those of a plain map from tuples
\* to generations (Store::ingest and Store::finish).
THEOREM ImplementsMapThm == Spec => ImplementsMap
<1>1. Init => Clocked /\ Abstract!MapInit
    BY DEF Init, Clocked, Abstract!MapInit, StateOf, NoDecision, Abstract!NoDecision
<1>2. Clocked /\ [Next]_vars => Clocked' /\ [Abstract!MapNext]_(Abstract!mapVars)
    BY NextStep
<1> QED BY <1>1, <1>2, PTL DEF Spec, ImplementsMap, Abstract!MapSpec

-------------------------------------------------------------------------------
(* Where a segment may lie.                                                   *)
\* Division with remainder.
LEMMA DivMod ==
    ASSUME NEW m \in Nat \ {0}, NEW x \in Int
    PROVE  /\ x \div m \in Int /\ (x % m) \in Int
           /\ x = (m * (x \div m)) + (x % m)
           /\ 0 <= (x % m) /\ (x % m) < m
OBVIOUS

\* A multiple leaves no remainder.
LEMMA MultipleMod ==
    ASSUME NEW m \in Nat \ {0}, NEW q \in Int
    PROVE  (m * q) % m = 0
OBVIOUS

\* What is below the modulus is its own remainder.
LEMMA SmallMod ==
    ASSUME NEW m \in Nat \ {0}, NEW x \in 0 .. (m - 1)
    PROVE  x % m = x
OBVIOUS

\* Multiples by a positive number keep the order.
LEMMA MultipleOrder ==
    ASSUME NEW m \in Nat \ {0}, NEW a \in Int, NEW b \in Int
    PROVE  /\ a <= b => m * a <= m * b
           /\ m * a < (m * b) + m => a <= b
OBVIOUS

\* What ConnectionGeneration holds.
Generation ==
    [id : Nat \X Nat, syn : [Directions -> Int \cup {None}], anchor : [Directions -> Int \cup {None}],
     low : [Directions -> Int], high : [Directions -> Int], fin : [Directions -> Int \cup {None}],
     reset : BOOLEAN, midstream : BOOLEAN, last : Nat \cup {None}]

\* The fields that place a segment.
LEMMA GenerationFields ==
    ASSUME NEW g \in Generation, NEW p \in Segment
    PROVE  /\ p.direction \in Directions
           /\ DataSequence(p) \in Int
           /\ g.anchor[p.direction] \in Int \cup {None}
           /\ Low(g, p.direction) \in Int /\ High(g, p.direction) \in Int
<1>1. p.direction \in Directions /\ p.sequence \in Int /\ Modulus \in Nat \ {0} /\ Horizon \in Int
  BY GenerationsAssumption DEF Segment
<1>2. DataSequence(p) \in Int
  BY <1>1 DEF DataSequence
<1>3. /\ g.anchor[p.direction] \in Int \cup {None}
      /\ g.low[p.direction] \in Int /\ g.high[p.direction] \in Int
  BY <1>1 DEF Generation
<1> QED BY <1>1, <1>2, <1>3 DEF Low, High

\* epoch_candidates: the multiples of the modulus between the rounded bounds are
\* exactly the offsets within reach that agree with the sequence number.
LEMMA EpochOffsetsExact ==
    ASSUME NEW g \in Generation, NEW p \in Segment, g.anchor[p.direction] # None
    PROVE  EpochOffsets(g, p) =
             { at \in Low(g, p.direction) .. High(g, p.direction) :
                 (at - (DataSequence(p) - g.anchor[p.direction])) % Modulus = 0 }
<1> DEFINE d == p.direction
           m == Modulus
           low == Low(g, d)
           high == High(g, d)
           z == DataSequence(p) - g.anchor[d]
           r == z % m
           first == (low - r + m - 1) \div m
           last == (high - r) \div m
           q == z \div m
           x == (low - r + m - 1) % m
           y == (high - r) % m
           Exact == { at \in low .. high : (at - z) % m = 0 }
<1>1. m \in Nat \ {0} /\ z \in Int /\ low \in Int /\ high \in Int
  BY GenerationsAssumption, GenerationFields
<1>2. EpochOffsets(g, p) = { r + e * m : e \in first .. last }
  BY DEF EpochOffsets, Reach, Epochs
<1> HIDE DEF d, z, m, low, high
<1>3. r \in Int /\ q \in Int /\ z = (m * q) + r
  BY <1>1, DivMod
<1> HIDE DEF r, q
<1>4. first \in Int /\ x \in Int /\ low - r + m - 1 = (m * first) + x /\ 0 <= x /\ x < m
  BY <1>1, <1>3, DivMod
<1>5. last \in Int /\ y \in Int /\ high - r = (m * last) + y /\ 0 <= y /\ y < m
  BY <1>1, <1>3, DivMod
<1> HIDE DEF first, last, x, y
<1>6. ASSUME NEW e \in first .. last
      PROVE  r + e * m \in Exact
  <2>1. e \in Int /\ m * first <= m * e /\ m * e <= m * last /\ r + e * m = r + (m * e)
    BY <1>1, <1>3, <1>4, <1>5, MultipleOrder
  <2>2. m * first \in Int /\ m * e \in Int /\ m * last \in Int
    BY <1>1, <1>4, <1>5, <2>1
  <2>3. r + (m * e) \in low .. high
    BY <1>1, <1>3, <1>4, <1>5, <2>1, <2>2
  <2>4. (r + (m * e)) - z = m * (e - q) /\ e - q \in Int
    BY <1>1, <1>3, <2>1
  <2> QED BY <1>1, <2>1, <2>3, <2>4, MultipleMod
<1>7. ASSUME NEW at \in low .. high, (at - z) % m = 0
      PROVE  \E e \in first .. last : at = r + e * m
  <2> DEFINE k == (at - z) \div m
             e == k + q
  <2>1. at \in Int /\ low <= at /\ at <= high
    BY <1>1
  <2>2. k \in Int /\ at - z = m * k
    BY <1>1, <1>7, <2>1, DivMod
  <2> HIDE DEF k
  <2>3. e \in Int /\ m * e = (m * k) + (m * q)
    BY <1>1, <1>3, <2>2
  <2> HIDE DEF e
  <2>4. m * k \in Int /\ m * q \in Int /\ m * first \in Int /\ m * e \in Int /\ m * last \in Int
    BY <1>1, <1>3, <1>4, <1>5, <2>2, <2>3
  <2>5. at = r + (m * e)
    BY <1>1, <1>3, <2>1, <2>2, <2>3, <2>4
  <2>6. m * first < (m * e) + m /\ m * e < (m * last) + m
    BY <1>1, <1>3, <1>4, <1>5, <2>1, <2>4, <2>5
  <2>7. e \in first .. last
    BY <1>1, <1>4, <1>5, <2>3, <2>6, MultipleOrder
  <2>8. at = r + e * m
    BY <1>1, <2>3, <2>5
  <2> QED BY <2>7, <2>8, Zenon
<1>8. { r + e * m : e \in first .. last } = Exact
  BY <1>6, <1>7
<1> QED BY <1>2, <1>8 DEF d, z, m, low, high

\* Every offset of a segment in a generation agrees with the anchor it has there,
\* and is zero where there is none.
LEMMA OffsetsAgree ==
    ASSUME NEW g \in Generation, NEW p \in Segment, NEW at \in Offsets(g, p)
    PROVE  /\ at \in Int
           /\ g.anchor[p.direction] # None =>
                 (at - (DataSequence(p) - g.anchor[p.direction])) % Modulus = 0
           /\ g.anchor[p.direction] = None => at = 0
<1>1. CASE g.anchor[p.direction] # None
  <2>1. at \in EpochOffsets(g, p)
    BY <1>1 DEF Offsets
  <2> QED BY <1>1, <2>1, EpochOffsetsExact, GenerationFields
<1>2. CASE g.anchor[p.direction] = None
  BY <1>2 DEF Offsets
<1> QED BY <1>1, <1>2

\* A new generation is one.
LEMMA NewTyped ==
    ASSUME NEW p \in Segment, NEW f \in Nat, NEW n \in Nat
    PROVE  /\ NewGeneration(p, f, n) \in Generation
           /\ NewGeneration(p, f, n).anchor = Both(None)
BY DEF NewGeneration, Generation, Both, Segment

\* A generation that moves stays one, and keeps its anchor or takes the first.
LEMMA MovedTyped ==
    ASSUME NEW g \in Generation, NEW p \in Segment, NEW at \in Int
    PROVE  /\ Moved(g, p, at) \in Generation
           /\ Moved(g, p, at).anchor[p.direction] =
                IF g.anchor[p.direction] = None THEN DataSequence(p) ELSE g.anchor[p.direction]
<1> DEFINE d == p.direction
           end == at + p.len
           dat == DataSequence(p)
           m == Moved(g, p, at)
<1>1. /\ d \in Directions /\ p.sequence \in Int /\ end \in Int /\ dat \in Int
      /\ p.when \in Nat \cup {None} /\ p.rst \in BOOLEAN
  BY GenerationFields, GenerationsAssumption DEF Segment
<1> DEFINE last == IF p.when = None THEN g.last ELSE Larger(g.last, p.when)
           syn == IF p.syn THEN [g.syn EXCEPT ![d] = p.sequence] ELSE g.syn
           anchor == IF g.anchor[d] = None THEN [g.anchor EXCEPT ![d] = dat] ELSE g.anchor
           low == IF at < g.low[d] THEN [g.low EXCEPT ![d] = at] ELSE g.low
           high == IF end > g.high[d] THEN [g.high EXCEPT ![d] = end] ELSE g.high
           fin == IF p.fin /\ g.fin[d] = None THEN [g.fin EXCEPT ![d] = end] ELSE g.fin
           reset == g.reset \/ p.rst
<1>2. m = [g EXCEPT !.last = last, !.syn = syn, !.anchor = anchor, !.low = low, !.high = high,
                    !.fin = fin, !.reset = reset]
  BY DEF Moved
<1>3. /\ last \in Nat \cup {None} /\ syn \in [Directions -> Int \cup {None}]
      /\ anchor \in [Directions -> Int \cup {None}] /\ low \in [Directions -> Int]
      /\ high \in [Directions -> Int] /\ fin \in [Directions -> Int \cup {None}]
      /\ reset \in BOOLEAN
  BY <1>1 DEF Generation, Larger
<1>4. anchor[d] = IF g.anchor[d] = None THEN dat ELSE g.anchor[d]
  BY <1>1 DEF Generation
<1> HIDE DEF last, syn, anchor, low, high, fin, reset, m
<1>5. m \in Generation /\ m.anchor = anchor
  BY <1>2, <1>3 DEF Generation
<1> QED BY <1>4, <1>5 DEF m

\* The placements of a segment that makes no generation are offsets in one of
\* the tuple's; Candidates without the bare SYN.
LEMMA ObservedPlacement ==
    ASSUME NEW gs, NEW p, NEW c \in Observed(gs, p)
    PROVE  /\ c.g \in DOMAIN gs /\ c.at \in Offsets(gs[c.g], p)
           /\ c = Candidate(c.g, c.at)
<1>1. PICK i \in DOMAIN gs : c \in { Candidate(i, at) : at \in Offsets(gs[i], p) }
  BY DEF Observed
<1>2. PICK at \in Offsets(gs[i], p) : c = Candidate(i, at)
  BY <1>1
<1> QED BY <1>2 DEF Candidate

\* Every placement is an offset in a generation that the tuple has or now gets.
LEMMA PlacementTyped ==
    ASSUME NEW gs \in Seq(Generation), NEW p \in Segment, NEW c \in Candidates(gs, p)
    PROVE  /\ c.at \in Int
           /\ c.g \in IF Creates(gs, p) THEN {Len(gs) + 1} ELSE DOMAIN gs
<1>1. CASE Creates(gs, p)
  BY <1>1 DEF Candidates, Candidate
<1>2. CASE ~Creates(gs, p) /\ ~(p.syn /\ ~p.ack)
  <2>1. c \in Observed(gs, p)
    BY <1>2 DEF Candidates
  <2>2. c.g \in DOMAIN gs /\ c.at \in Offsets(gs[c.g], p)
    BY <2>1, ObservedPlacement
  <2>3. gs[c.g] \in Generation
    BY <2>2
  <2> QED BY <1>2, <2>2, <2>3, OffsetsAgree
<1>3. CASE ~Creates(gs, p) /\ (p.syn /\ ~p.ack) /\ SameSyn(gs, p) # {}
  BY <1>3 DEF Candidates, Candidate, SameSyn
<1>4. CASE ~Creates(gs, p) /\ (p.syn /\ ~p.ack) /\ SameSyn(gs, p) = {}
  <2>1. gs # << >>
    BY <1>4 DEF Creates
  <2>2. Len(gs) \in DOMAIN gs
    BY <2>1
  <2> QED BY <1>4, <2>2 DEF Candidates, Candidate
<1> QED BY <1>1, <1>2, <1>3, <1>4

\* The generations an ingest works on.
All(gs, p, f) == IF Creates(gs, p) THEN Append(gs, NewGeneration(p, f, Len(gs))) ELSE gs

\* They are generations, and every placement is in one of them.
LEMMA AllTyped ==
    ASSUME NEW gs \in Seq(Generation), NEW p \in Segment, NEW f \in Nat
    PROVE  /\ All(gs, p, f) \in Seq(Generation)
           /\ \A c \in Candidates(gs, p) : c.at \in Int /\ c.g \in DOMAIN All(gs, p, f)
<1>1. Len(gs) \in Nat
  OBVIOUS
<1>2. NewGeneration(p, f, Len(gs)) \in Generation
  BY <1>1, NewTyped
<1>3. All(gs, p, f) \in Seq(Generation)
  BY <1>2 DEF All
<1>4. DOMAIN All(gs, p, f) = IF Creates(gs, p) THEN 1 .. (Len(gs) + 1) ELSE DOMAIN gs
  BY <1>2 DEF All
<1>5. ASSUME NEW c \in Candidates(gs, p) PROVE c.at \in Int /\ c.g \in DOMAIN All(gs, p, f)
  <2>1. c.at \in Int /\ c.g \in IF Creates(gs, p) THEN {Len(gs) + 1} ELSE DOMAIN gs
    BY PlacementTyped
  <2> QED BY <1>1, <1>4, <2>1
<1> QED BY <1>3, <1>5

\* At most one placement is selected: a strict minimum is unique.
LEMMA SelectedUnique ==
    ASSUME NEW gs \in Seq(Generation), NEW cs, NEW d \in Directions,
           \A c \in cs : c.at \in Int /\ c.g \in DOMAIN gs,
           NEW a \in Selected(gs, cs, d), NEW b \in Selected(gs, cs, d)
    PROVE  a = b
<1> DEFINE far(c) == Distance(c.at, gs[c.g].high[d])
<1>1. \A c \in cs : far(c) \in Int
  <2> SUFFICES ASSUME NEW c \in cs PROVE far(c) \in Int
    OBVIOUS
  <2>1. c.at \in Int /\ gs[c.g] \in Generation
    OBVIOUS
  <2>2. gs[c.g].high[d] \in Int
    BY <2>1 DEF Generation
  <2> QED BY <2>1, <2>2 DEF Distance
<1>2. a \in cs /\ b \in cs
  BY DEF Selected
<1>3. a # b => far(a) < far(b) /\ far(b) < far(a)
  BY <1>2 DEF Selected
<1> HIDE DEF far
<1> QED BY <1>1, <1>2, <1>3

\* What TupleState::ingest leaves: generations again, with the selected one moved.
LEMMA IngestMoves ==
    ASSUME NEW gs \in Seq(Generation), NEW p \in Segment, NEW f \in Nat,
           NEW c \in Selected(All(gs, p, f), Candidates(gs, p), p.direction)
    PROVE  /\ c \in Candidates(gs, p) /\ c.g \in DOMAIN All(gs, p, f) /\ c.at \in Int
           /\ Ingest(gs, p, f).generations =
                [All(gs, p, f) EXCEPT ![c.g] = Moved(All(gs, p, f)[c.g], p, c.at)]
<1> DEFINE all == All(gs, p, f)
           cs == Candidates(gs, p)
           chosen == Selected(all, cs, p.direction)
<1>1. all \in Seq(Generation) /\ \A x \in cs : x.at \in Int /\ x.g \in DOMAIN all
  BY AllTyped
<1>2. p.direction \in Directions
  BY DEF Segment
<1>3. \A x \in chosen : x = c
  <2> SUFFICES ASSUME NEW x \in chosen PROVE x = c
    OBVIOUS
  <2>1. x \in Selected(all, cs, p.direction) /\ c \in Selected(all, cs, p.direction)
    OBVIOUS
  <2> HIDE DEF all, cs, chosen
  <2> QED BY <1>1, <1>2, <2>1, SelectedUnique
<1>4. c \in cs
  BY DEF Selected
<1>5. Ingest(gs, p, f).generations =
        IF chosen = {} THEN all
        ELSE [all EXCEPT ![(CHOOSE x \in chosen : TRUE).g] =
                             Moved(all[(CHOOSE x \in chosen : TRUE).g], p, (CHOOSE x \in chosen : TRUE).at)]
  BY DEF Ingest, All
<1>6. chosen # {} /\ (CHOOSE x \in chosen : TRUE) = c
  BY <1>3
<1> QED BY <1>1, <1>4, <1>5, <1>6

\* An ingest of typed generations leaves typed generations.
LEMMA IngestTyped ==
    ASSUME NEW gs \in Seq(Generation), NEW p \in Segment, NEW f \in Nat
    PROVE  Ingest(gs, p, f).generations \in Seq(Generation)
<1> DEFINE all == All(gs, p, f)
           chosen == Selected(all, Candidates(gs, p), p.direction)
<1>1. all \in Seq(Generation)
  BY AllTyped
<1>2. CASE chosen = {}
  BY <1>1, <1>2 DEF Ingest, All
<1>3. CASE chosen # {}
  <2>1. PICK c \in chosen : TRUE
    BY <1>3
  <2>2. c.g \in DOMAIN all /\ c.at \in Int
        /\ Ingest(gs, p, f).generations = [all EXCEPT ![c.g] = Moved(all[c.g], p, c.at)]
    BY <2>1, IngestMoves
  <2> HIDE DEF all
  <2>3. Moved(all[c.g], p, c.at) \in Generation
    BY <1>1, <2>2, MovedTyped
  <2> QED BY <1>1, <2>2, <2>3
<1> QED BY <1>2, <1>3

\* The placements of an ingest are its candidates, marked by the selection.
LEMMA IngestPlacements ==
    ASSUME NEW gs, NEW p, NEW f
    PROVE  /\ \A y \in Ingest(gs, p, f).placements : \E c \in Candidates(gs, p) :
                 /\ y.g = c.g /\ y.at = c.at
                 /\ y.selected => c \in Selected(All(gs, p, f), Candidates(gs, p), p.direction)
           /\ \A c \in Candidates(gs, p) : \E y \in Ingest(gs, p, f).placements :
                 y.g = c.g /\ y.at = c.at
<1> DEFINE chosen == Selected(All(gs, p, f), Candidates(gs, p), p.direction)
           mark(x) == [g |-> x.g, at |-> x.at, selected |-> x \in chosen]
<1>1. Ingest(gs, p, f).placements = { mark(x) : x \in Candidates(gs, p) }
  BY DEF Ingest, All
<1>2. \A x : mark(x).g = x.g /\ mark(x).at = x.at /\ (mark(x).selected => x \in chosen)
  OBVIOUS
<1> HIDE DEF mark, chosen
<1> QED BY <1>1, <1>2 DEF chosen

\* No alternative is dropped and none is made up.
LEMMA IngestAlternatives ==
    ASSUME NEW gs \in Seq(Generation), NEW p \in Segment, NEW f \in Nat, ~p.syn,
           NEW i \in DOMAIN gs, gs[i].anchor[p.direction] # None
    PROVE  { x.at : x \in { y \in Ingest(gs, p, f).placements : y.g = i } } =
             { at \in Low(gs[i], p.direction) .. High(gs[i], p.direction) :
                 (at - (p.sequence - gs[i].anchor[p.direction])) % Modulus = 0 }
<1>1. ~Creates(gs, p) /\ Candidates(gs, p) = Observed(gs, p)
  BY DEF Creates, Candidates
<1>2. gs[i] \in Generation
  OBVIOUS
<1>3. Offsets(gs[i], p) = EpochOffsets(gs[i], p)
  BY DEF Offsets, Foreign
<1>4. DataSequence(p) = p.sequence
  <2>1. p.sequence \in 0 .. (Modulus - 1) /\ Modulus \in Nat \ {0}
    BY GenerationsAssumption DEF Segment
  <2>2. p.sequence % Modulus = p.sequence
    BY <2>1, SmallMod
  <2> QED BY <2>1, <2>2 DEF DataSequence
<1>5. { x.at : x \in { y \in Ingest(gs, p, f).placements : y.g = i } } = Offsets(gs[i], p)
  <2>1. ASSUME NEW y \in Ingest(gs, p, f).placements, y.g = i
        PROVE  y.at \in Offsets(gs[i], p)
    <3>1. PICK c \in Observed(gs, p) : y.g = c.g /\ y.at = c.at
      BY <1>1, IngestPlacements
    <3> QED BY <2>1, <3>1, ObservedPlacement
  <2>2. ASSUME NEW at \in Offsets(gs[i], p)
        PROVE  \E y \in Ingest(gs, p, f).placements : y.g = i /\ y.at = at
    <3>1. Candidate(i, at) \in Candidates(gs, p)
      BY <1>1 DEF Observed
    <3>2. Candidate(i, at).g = i /\ Candidate(i, at).at = at
      BY DEF Candidate
    <3> QED BY <3>1, <3>2, IngestPlacements
  <2> QED BY <2>1, <2>2
<1> QED BY ZenonT(60), <1>2, <1>3, <1>4, <1>5, EpochOffsetsExact

\* What is selected agrees with the anchor that its generation has afterwards.
LEMMA IngestCoordinates ==
    ASSUME NEW gs \in Seq(Generation), NEW p \in Segment, NEW f \in Nat, ~(p.syn /\ ~p.ack),
           NEW x \in Ingest(gs, p, f).placements, x.selected
    PROVE  (x.at - (DataSequence(p) - Ingest(gs, p, f).generations[x.g].anchor[p.direction])) % Modulus = 0
<1> DEFINE all == All(gs, p, f)
           chosen == Selected(all, Candidates(gs, p), p.direction)
           d == p.direction
           dat == DataSequence(p)
<1>1. PICK c \in chosen : x.g = c.g /\ x.at = c.at
  <2>1. \E y \in Candidates(gs, p) : x.g = y.g /\ x.at = y.at /\ (x.selected => y \in chosen)
    BY IngestPlacements
  <2> QED BY <2>1
<1>2. /\ c \in Candidates(gs, p) /\ c.g \in DOMAIN all /\ c.at \in Int
      /\ Ingest(gs, p, f).generations = [all EXCEPT ![c.g] = Moved(all[c.g], p, c.at)]
  BY <1>1, IngestMoves
<1>3. all \in Seq(Generation)
  BY AllTyped
<1>4. all[c.g] \in Generation
  BY <1>2, <1>3
<1>5. Ingest(gs, p, f).generations[c.g] = Moved(all[c.g], p, c.at)
  <2> HIDE DEF all
  <2> QED BY <1>2
<1>6. Ingest(gs, p, f).generations[c.g].anchor[d] = IF all[c.g].anchor[d] = None THEN dat ELSE all[c.g].anchor[d]
  <2> HIDE DEF all
  <2> QED BY SMTT(60), <1>2, <1>4, <1>5, MovedTyped
<1>7. dat \in Int /\ d \in Directions /\ Modulus \in Nat \ {0}
  BY <1>4, GenerationFields, GenerationsAssumption
<1>8. /\ all[c.g].anchor[d] # None => (c.at - (dat - all[c.g].anchor[d])) % Modulus = 0
      /\ all[c.g].anchor[d] = None => c.at = 0
  <2>1. CASE Creates(gs, p)
    <3>1. c = Candidate(Len(gs) + 1, 0)
      BY <1>2, <2>1 DEF Candidates
    <3>2. all = Append(gs, NewGeneration(p, f, Len(gs))) /\ c.g = Len(gs) + 1 /\ c.at = 0
      BY <2>1, <3>1 DEF All, Candidate
    <3>3. all[c.g] = NewGeneration(p, f, Len(gs))
      BY <3>2
    <3>4. all[c.g].anchor[d] = None
      BY <1>7, <3>3 DEF NewGeneration, Both
    <3> QED BY <3>2, <3>4
  <2>2. CASE ~Creates(gs, p)
    <3>1. all = gs /\ c \in Observed(gs, p)
      BY <1>2, <2>2 DEF All, Candidates
    <3>2. c.at \in Offsets(all[c.g], p)
      BY <3>1, ObservedPlacement
    <3> HIDE DEF all
    <3> QED BY <1>4, <3>2, OffsetsAgree
  <2> QED BY <2>1, <2>2
<1> HIDE DEF all, dat, d
<1>9. (0 - (dat - dat)) % Modulus = 0
  BY <1>7, MultipleMod
<1> QED BY <1>1, <1>6, <1>8, <1>9 DEF dat, d

-------------------------------------------------------------------------------
\* The generations of every tuple are generations.
GenInv == frame \in Nat /\ \A k \in Keys : Map[k] \in Seq(Generation)

\* Reach is the same in the store and in the map.
LEMMA SameBounds ==
    ASSUME NEW g, NEW d
    PROVE  Abstract!Low(g, d) = Low(g, d) /\ Abstract!High(g, d) = High(g, d)
BY SameClosed DEF Abstract!Low, Low, Abstract!High, High

\* What one segment does to the map.
LEMMA MapIngest ==
    ASSUME GenInv, NEW k \in Keys, NEW p \in Segments[k], Abstract!IngestSegment(k, p)
    PROVE  GenInv' /\ Abstract!AllAlternatives /\ Abstract!OneCoordinateSystem
<1> DEFINE gs == Map[k]
           r == Ingest(gs, p, frame + 1)
<1>1. gs \in Seq(Generation) /\ p \in Segment /\ frame + 1 \in Nat
  BY StoreAssumption DEF GenInv
<1>3. /\ Map' = [Map EXCEPT ![k] = r.generations]
      /\ frame' = frame + 1
      /\ decision' = [key |-> k, segment |-> p, placements |-> r.placements, assumption |-> r.assumption]
  BY SameIngest DEF Abstract!IngestSegment, Map
<1>4. DOMAIN Map = Keys
  BY DEF Map
<1>5. r.generations \in Seq(Generation)
  BY <1>1, IngestTyped
<1>6. Map'[k] = r.generations
  <2> HIDE DEF r
  <2> QED BY <1>3, <1>4
<1>7. GenInv'
  <2> HIDE DEF r, gs
  <2>1. \A x \in Keys : Map'[x] \in Seq(Generation)
    BY <1>3, <1>4, <1>5 DEF GenInv
  <2> QED BY <1>1, <1>3, <2>1 DEF GenInv
<1>8. Abstract!AllAlternatives
  <2> SUFFICES ASSUME ~p.syn, NEW i \in DOMAIN gs, gs[i].anchor[p.direction] # None
               PROVE  { x.at : x \in { y \in r.placements : y.g = i } } =
                        { at \in Low(gs[i], p.direction) .. High(gs[i], p.direction) :
                            (at - (p.sequence - gs[i].anchor[p.direction])) % Modulus = 0 }
    <3> HIDE DEF r
    <3>1. decision'.key = k /\ decision'.segment = p /\ decision'.placements = r.placements
      BY <1>3
    <3>2. ASSUME NEW l \in Keys, NEW q \in Segments[l],
                 decision'.key = l, decision'.segment = q, ~q.syn,
                 NEW i \in DOMAIN Map[l], Map[l][i].anchor[q.direction] # None
          PROVE  { x.at : x \in { y \in decision'.placements : y.g = i } }
                 = { at \in Abstract!Low(Map[l][i], q.direction)
                            .. Abstract!High(Map[l][i], q.direction) :
                       (at - (q.sequence - Map[l][i].anchor[q.direction])) % Modulus = 0 }
      <4>1. l = k /\ q = p
        BY <3>1, <3>2
      <4>2. /\ Abstract!Low(Map[l][i], q.direction) = Low(gs[i], p.direction)
            /\ Abstract!High(Map[l][i], q.direction) = High(gs[i], p.direction)
        BY <4>1, SameBounds
      <4>3. { x.at : x \in { y \in r.placements : y.g = i } } =
              { at \in Low(gs[i], p.direction) .. High(gs[i], p.direction) :
                  (at - (p.sequence - gs[i].anchor[p.direction])) % Modulus = 0 }
        BY <3>2, <4>1
      <4> HIDE DEF Map
      <4> QED BY <3>1, <4>1, <4>2, <4>3
    <3> QED BY <3>2, Zenon DEF Abstract!AllAlternatives, Map
  <2> HIDE DEF gs
  <2> QED BY <1>1, IngestAlternatives
<1>9. Abstract!OneCoordinateSystem
  <2> SUFFICES ASSUME NEW x \in r.placements, x.selected, ~(p.syn /\ ~p.ack)
               PROVE  (x.at - (DataSequence(p) - r.generations[x.g].anchor[p.direction])) % Modulus = 0
    <3> HIDE DEF r
    <3> QED BY SMTT(60), <1>3, <1>6, SameReach DEF Abstract!OneCoordinateSystem, Map
  <2> HIDE DEF gs
  <2> QED BY <1>1, IngestCoordinates
<1> QED BY <1>7, <1>8, <1>9

\* No alternative is dropped, none is made up, and what is selected agrees with
\* the anchor of its generation: TupleState::ingest and epoch_candidates, through
\* every eviction of Store::ingest, for every modulus, horizon and sequence number.
THEOREM PlacementsExactThm == Spec => PlacementsExact
<1>1. Init => Clocked /\ GenInv
  BY DEF Init, Clocked, GenInv, Map, StateOf
<1>2. Clocked /\ GenInv /\ [Next]_vars =>
        /\ Clocked' /\ GenInv'
        /\ [frame' # frame => Abstract!AllAlternatives /\ Abstract!OneCoordinateSystem]_(Abstract!mapVars)
  <2> SUFFICES ASSUME Clocked, GenInv, [Next]_vars
               PROVE  GenInv' /\ (UNCHANGED Abstract!mapVars \/
                        (frame' # frame => Abstract!AllAlternatives /\ Abstract!OneCoordinateSystem))
    BY NextStep
  <2>1. [Abstract!MapNext]_(Abstract!mapVars)
    BY NextStep
  <2>2. CASE \E k \in Keys : \E p \in Segments[k] : Abstract!IngestSegment(k, p)
    BY <2>2, MapIngest
  <2>3. CASE Abstract!FailStore
    BY <2>3 DEF Abstract!FailStore, GenInv, Map
  <2>4. CASE UNCHANGED Abstract!mapVars
    BY <2>4 DEF Abstract!mapVars, GenInv, Map
  <2> QED BY <2>1, <2>2, <2>3, <2>4 DEF Abstract!MapNext
<1> QED BY <1>1, <1>2, PTL DEF Spec, PlacementsExact, Abstract!PlacementsExact
===============================================================================
