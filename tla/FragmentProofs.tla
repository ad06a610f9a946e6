--------------------------- MODULE FragmentProofs ---------------------------
(***************************************************************************)
(* Proofs about the fragment reassembler, for any keys, limits and inputs. *)
(***************************************************************************)
EXTENDS FragmentReassembler, WellFoundedInduction, TLAPS

(***************************************************************************)
(* Typed: the sets are assemblies.  Indexed: the deadline index names      *)
(* exactly the live sets, each at its own deadline.                        *)
(***************************************************************************)
Typed(rr) ==
    /\ DOMAIN rr.sets \subseteq Keys
    /\ \A k \in DOMAIN rr.sets : rr.sets[k] \in Assembly

Indexed(rr) ==
    /\ rr.deadlines \subseteq Nat \X Keys
    /\ \A d \in Nat, k \in Keys :
          <<d, k>> \in rr.deadlines <=>
              k \in DOMAIN rr.sets /\ d \in DeadlineOf(rr.sets[k].first_frame)

LEMMA RemoveIndexed ==
    ASSUME NEW rr, NEW ks, Typed(rr), Indexed(rr), ks \subseteq DOMAIN rr.sets
    PROVE  Typed(RemoveSets(rr, ks)) /\ Indexed(RemoveSets(rr, ks))
<1> DEFINE q == RemoveSets(rr, ks)
           gone == UNION {DeadlineOf(rr.sets[k].first_frame) \X {k} : k \in ks}
<1>1. /\ q.sets = [k \in DOMAIN rr.sets \ ks |-> rr.sets[k]]
      /\ q.deadlines = rr.deadlines \ gone
  BY DEF RemoveSets
<1>2. \A d \in Nat, k \in Keys :
          <<d, k>> \in gone <=> k \in ks /\ d \in DeadlineOf(rr.sets[k].first_frame)
  OBVIOUS
<1> HIDE DEF q, gone
<1>3. Typed(q) /\ Indexed(q)
  BY <1>1, <1>2 DEF Typed, Indexed
<1> QED BY <1>3 DEF q

LEMMA StoreIndexed ==
    ASSUME NEW rr, NEW d \in Input, NEW fr \in Nat, NEW set \in Assembly,
           Typed(rr), Indexed(rr),
           set.first_frame = SetOf(rr, d, fr).first_frame
    PROVE  /\ Typed(Store(rr, d, fr, set))
           /\ Indexed(Store(rr, d, fr, set))
<1> DEFINE q == Store(rr, d, fr, set)
           added == IF d.key \in DOMAIN rr.sets THEN {} ELSE DeadlineOf(fr) \X {d.key}
<1>1. /\ q.sets = [k \in DOMAIN rr.sets \cup {d.key} |->
                      IF k = d.key THEN set ELSE rr.sets[k]]
      /\ q.deadlines = rr.deadlines \cup added
  BY DEF Store
<1>2. \A e \in Nat, k \in Keys :
          <<e, k>> \in added <=>
              d.key \notin DOMAIN rr.sets /\ k = d.key /\ e \in DeadlineOf(fr)
  OBVIOUS
<1>3. d.key \in Keys
  BY DEF Input
<1>4. added \subseteq Nat \X Keys
  BY <1>3, FragmentLimits DEF DeadlineOf
<1>5. /\ d.key \notin DOMAIN rr.sets => set.first_frame = fr
      /\ d.key \in DOMAIN rr.sets => set.first_frame = rr.sets[d.key].first_frame
  BY DEF SetOf, Fresh
<1> HIDE DEF q, added
<1>6. Typed(q)
  BY <1>1, <1>3 DEF Typed
<1>7. Indexed(q)
  BY <1>1, <1>2, <1>3, <1>4, <1>5 DEF Indexed
<1> QED BY <1>6, <1>7 DEF q

\* Recording a fragment keeps the assembly typed and its first frame fixed.
LEMMA NotedTyped ==
    ASSUME NEW set \in Assembly, NEW d \in Input, NEW fr \in Nat
    PROVE  /\ Noted(set, d, fr, OnePacket(fr)) \in Assembly
           /\ Noted(set, d, fr, OnePacket(fr)).first_frame = set.first_frame
           /\ Noted(set, d, fr, OnePacket(fr)).parts = set.parts
           /\ Noted(set, d, fr, OnePacket(fr)).poisoned = set.poisoned
<1>1. NewEnd(set, d) \in Nat \cup {NoEnd}
  BY DEF NewEnd, Assembly, Input
<1> QED BY <1>1 DEF Noted, OnePacket, Assembly, Input

LEMMA SetOfTyped ==
    ASSUME NEW rr, NEW d \in Input, NEW fr \in Nat, Typed(rr)
    PROVE  SetOf(rr, d, fr) \in Assembly
BY DEF SetOf, Fresh, Assembly, Typed, Input

LEMMA PartOfTyped ==
    ASSUME NEW d \in Input, NEW fr \in Nat
    PROVE  PartOf(d, fr) \in Part
BY DEF PartOf, Part, Input

LEMMA OverlapSymmetric ==
    ASSUME NEW p \in Part, NEW q \in Part
    PROVE  /\ Overlap(p, q) = Overlap(q, p)
           /\ Disagree(p, q) <=> Disagree(q, p)
<1>1. Len(p.data) \in Nat /\ Len(q.data) \in Nat /\ p.start \in Nat /\ q.start \in Nat
  BY DEF Part
<1>2. Overlap(p, q) = Overlap(q, p)
  BY <1>1 DEF Overlap, Covers, PartEnd
<1>3. Disagree(p, q) <=> Disagree(q, p)
  BY <1>2 DEF Disagree
<1> QED BY <1>2, <1>3

\* A fragment that does not contradict a consistent set leaves it consistent.
LEMMA KeptConsistent ==
    ASSUME NEW set \in Assembly, NEW d \in Input, NEW fr \in Nat,
           Consistent(d.key, set), ~set.poisoned, ~Contradicts(set, d, fr)
    PROVE  Consistent(d.key, [Noted(set, d, fr, OnePacket(fr)) EXCEPT
                                 !.parts = Noted(set, d, fr, OnePacket(fr)).parts \cup {PartOf(d, fr)}])
<1> DEFINE n == PartOf(d, fr)
           kept == [Noted(set, d, fr, OnePacket(fr)) EXCEPT !.parts = Noted(set, d, fr, OnePacket(fr)).parts \cup {n}]
<1>1. /\ kept.parts = set.parts \cup {n}
      /\ kept.end = NewEnd(set, d)
  <2>1. Noted(set, d, fr, OnePacket(fr)).end = NewEnd(set, d)
    BY DEF Noted, OnePacket, Assembly
  <2> QED BY <2>1, NotedTyped DEF Assembly
<1>2. n \in Part /\ set.parts \subseteq Part
  BY PartOfTyped DEF Assembly
<1> HIDE DEF n, kept
<1>3. kept.end # NoEnd => \A p \in kept.parts : ~PastEnd(p, kept.end)
  BY <1>1 DEF Contradicts, OutsideEnd, n
<1>4. \A p \in set.parts :
          IF d.key \in Ipv6Keys THEN Overlap(p, n) = {} ELSE ~Disagree(p, n)
  BY DEF Contradicts, n
<1>5. \A p \in set.parts :
          IF d.key \in Ipv6Keys THEN Overlap(n, p) = {} ELSE ~Disagree(n, p)
  BY <1>2, <1>4, OverlapSymmetric
<1>6. \A p, q \in kept.parts : p # q =>
          IF d.key \in Ipv6Keys THEN Overlap(p, q) = {} ELSE ~Disagree(p, q)
  BY <1>1, <1>4, <1>5 DEF Consistent
<1>7. Consistent(d.key, kept)
  BY <1>3, <1>6 DEF Consistent
<1> QED BY <1>7 DEF kept, n

\* Push changes at most the pushed key's set, to a typed and consistent one
\* with the same first frame, or removes it once it is whole.
Placed(rr, d, fr, q, set) ==
    /\ set \in Assembly
    /\ set.first_frame = SetOf(rr, d, fr).first_frame
    /\ Consistent(d.key, set)
    /\ q.sets = Store(rr, d, fr, set).sets
    /\ q.deadlines = Store(rr, d, fr, set).deadlines

LEMMA PushShape ==
    ASSUME NEW rr, NEW d \in Input, NEW fr \in Nat, Typed(rr),
           \A k \in DOMAIN rr.sets : Consistent(k, rr.sets[k])
    PROVE  LET p == Push(rr, d, fr, OnePacket(fr)).r
           IN  \/ p = rr
               \/ \E set : Placed(rr, d, fr, p, set)
               \/ \E q, set : Placed(rr, d, fr, q, set) /\ p = RemoveSets(q, {d.key})
<1> DEFINE p == Push(rr, d, fr, OnePacket(fr)).r
           old == SetOf(rr, d, fr)
           noted == Noted(old, d, fr, OnePacket(fr))
           parts == noted.parts \cup {PartOf(d, fr)}
           kept == [noted EXCEPT !.parts = parts]
           quar(s) == Store(rr, d, fr, [s EXCEPT !.poisoned = TRUE])
           size == NewSize(rr, d, fr)
           stored == [Store(rr, d, fr, kept) EXCEPT !.retained = size]
<1>1. old \in Assembly /\ noted \in Assembly /\ noted.first_frame = old.first_frame
  BY SetOfTyped, NotedTyped
<1>2. /\ kept \in Assembly /\ kept.first_frame = old.first_frame
      /\ kept.poisoned = noted.poisoned
  BY <1>1, PartOfTyped DEF Assembly
<1>3. \A s \in Assembly :
          /\ [s EXCEPT !.poisoned = TRUE] \in Assembly
          /\ [s EXCEPT !.poisoned = TRUE].first_frame = s.first_frame
          /\ Consistent(d.key, [s EXCEPT !.poisoned = TRUE])
  BY DEF Assembly, Consistent
<1>4. Consistent(d.key, old)
  BY DEF SetOf, Fresh, Consistent
<1>5. /\ stored.sets = Store(rr, d, fr, kept).sets
      /\ stored.deadlines = Store(rr, d, fr, kept).deadlines
      /\ [quar(kept) EXCEPT !.retained = size].sets = quar(kept).sets
      /\ [quar(kept) EXCEPT !.retained = size].deadlines = quar(kept).deadlines
  BY DEF Store
<1>6. CASE InvalidRange(d) \/ OverLimit(rr, d, fr, OnePacket(fr))
  BY <1>6 DEF Push, Outcome
<1>7. CASE ~(InvalidRange(d) \/ OverLimit(rr, d, fr, OnePacket(fr)))
  <2>0. p = PushAdmitted(rr, d, fr, OnePacket(fr)).r
    BY <1>7 DEF Push
  <2>1. CASE old.poisoned
    <3>1. p = Store(rr, d, fr, noted)
      BY <2>0, <2>1 DEF PushAdmitted, Quarantined, Outcome
    <3>2. Consistent(d.key, noted)
      BY <1>1, <2>1, NotedTyped DEF Consistent
    <3> QED BY <3>1, <3>2, <1>1 DEF Placed
  <2>2. CASE ~old.poisoned /\ Contradicts(old, d, fr)
    <3>1. p = quar(noted)
      BY <2>0, <2>2 DEF PushAdmitted, Quarantined, Outcome
    <3> QED BY <3>1, <1>1, <1>3 DEF Placed
  <2>3. CASE ~old.poisoned /\ ~Contradicts(old, d, fr)
    <3>1. Consistent(d.key, kept)
      BY <2>3, <1>1, <1>4, KeptConsistent
    <3>2. Placed(rr, d, fr, stored, kept)
      BY <3>1, <1>2, <1>5 DEF Placed
    <3>3. \/ p = stored
          \/ p = [quar(kept) EXCEPT !.retained = size]
          \/ p = RemoveSets(stored, {d.key})
      BY <2>0, <2>3 DEF PushAdmitted, Quarantined, Outcome
    <3>4. Placed(rr, d, fr, [quar(kept) EXCEPT !.retained = size],
                 [kept EXCEPT !.poisoned = TRUE])
      BY <1>2, <1>3, <1>5 DEF Placed
    <3> QED BY <3>2, <3>3, <3>4
  <2> QED BY <2>1, <2>2, <2>3
<1> QED BY <1>6, <1>7

LEMMA PlacedKeeps ==
    ASSUME NEW rr, NEW d \in Input, NEW fr \in Nat, NEW q, NEW set,
           Typed(rr), Indexed(rr), Placed(rr, d, fr, q, set)
    PROVE  Typed(q) /\ Indexed(q) /\ d.key \in DOMAIN q.sets
<1>1. /\ Typed(Store(rr, d, fr, set)) /\ Indexed(Store(rr, d, fr, set))
      /\ d.key \in DOMAIN Store(rr, d, fr, set).sets
  BY StoreIndexed DEF Placed, Store
<1> QED BY <1>1 DEF Placed, Typed, Indexed

LEMMA PlacedConsistent ==
    ASSUME NEW rr, NEW d \in Input, NEW fr \in Nat, NEW q, NEW set,
           \A k \in DOMAIN rr.sets : Consistent(k, rr.sets[k]),
           Placed(rr, d, fr, q, set)
    PROVE  \A k \in DOMAIN q.sets : Consistent(k, q.sets[k])
BY DEF Placed, Store

LEMMA PushKeeps ==
    ASSUME NEW rr, NEW d \in Input, NEW fr \in Nat, Typed(rr), Indexed(rr),
           \A k \in DOMAIN rr.sets : Consistent(k, rr.sets[k])
    PROVE  LET p == Push(rr, d, fr, OnePacket(fr)).r
           IN  Typed(p) /\ Indexed(p) /\ \A k \in DOMAIN p.sets : Consistent(k, p.sets[k])
<1> DEFINE p == Push(rr, d, fr, OnePacket(fr)).r
<1>1. CASE \E set : Placed(rr, d, fr, p, set)
  BY <1>1, PlacedKeeps, PlacedConsistent
<1>2. CASE \E q, set : Placed(rr, d, fr, q, set) /\ p = RemoveSets(q, {d.key})
  <2>1. PICK q, set : Placed(rr, d, fr, q, set) /\ p = RemoveSets(q, {d.key})
    BY <1>2
  <2>2. Typed(p) /\ Indexed(p)
    BY <2>1, PlacedKeeps, RemoveIndexed
  <2>3. \A k \in DOMAIN q.sets : Consistent(k, q.sets[k])
    BY <2>1, PlacedConsistent
  <2>4. \A k \in DOMAIN p.sets : Consistent(k, p.sets[k])
    BY <2>1, <2>3 DEF RemoveSets
  <2> QED BY <2>2, <2>4
<1> QED BY <1>1, <1>2, PushShape

\* Expiry removes exactly the sets whose deadline has come.
LEMMA ExpireExact ==
    ASSUME NEW rr, NEW fr \in Nat, Typed(rr), Indexed(rr)
    PROVE  LET x == Expire(rr, fr).r
           IN  /\ Typed(x) /\ Indexed(x)
               /\ \A k \in DOMAIN x.sets : x.sets[k] = rr.sets[k]
               /\ DOMAIN x.sets \subseteq DOMAIN rr.sets
               /\ \A k \in DOMAIN rr.sets :
                     k \notin DOMAIN x.sets <=>
                        \E e \in DeadlineOf(rr.sets[k].first_frame) : e <= fr
<1> DEFINE due == {e \in rr.deadlines : e[1] <= fr}
           ks == {e[2] : e \in due} \cap DOMAIN rr.sets
           after == RemoveSets(rr, ks)
           x == Expire(rr, fr).r
<1>1. x = [after EXCEPT !.deadlines = @ \ due]
  BY DEF Expire
<1>2. /\ after.sets = [k \in DOMAIN rr.sets \ ks |-> rr.sets[k]]
      /\ x.sets = after.sets /\ x.deadlines = after.deadlines \ due
  BY <1>1 DEF RemoveSets
<1>3. Typed(after) /\ Indexed(after)
  BY RemoveIndexed
<1>4. \A k \in DOMAIN rr.sets :
          k \in ks <=> \E e \in DeadlineOf(rr.sets[k].first_frame) : e <= fr
  <2> TAKE k \in DOMAIN rr.sets
  <2>1. k \in Keys /\ rr.sets[k].first_frame \in Nat
    BY DEF Typed, Assembly
  <2>2. DeadlineOf(rr.sets[k].first_frame) \subseteq Nat
    BY <2>1, FragmentLimits DEF DeadlineOf
  <2>3. ASSUME k \in ks PROVE \E e \in DeadlineOf(rr.sets[k].first_frame) : e <= fr
    <3>1. PICK e \in rr.deadlines : e[1] <= fr /\ e[2] = k
      BY <2>3
    <3>2. e[1] \in Nat /\ e = <<e[1], k>>
      BY <3>1 DEF Indexed
    <3> QED BY <3>1, <3>2, <2>1 DEF Indexed
  <2>4. ASSUME NEW e \in DeadlineOf(rr.sets[k].first_frame), e <= fr PROVE k \in ks
    <3>1. <<e, k>> \in rr.deadlines
      BY <2>1, <2>2, <2>4 DEF Indexed
    <3>2. <<e, k>> \in due
      BY <3>1, <2>4
    <3> QED BY <3>2
  <2> QED BY <2>3, <2>4
<1>5. \A d \in Nat, k \in Keys : <<d, k>> \in after.deadlines => <<d, k>> \notin due
  BY <1>2, <1>3, <1>4 DEF Indexed
<1> HIDE DEF due, ks, after, x
<1>6. Typed(x)
  BY <1>2, <1>3 DEF Typed
<1>7. Indexed(x)
  BY <1>2, <1>3, <1>5 DEF Indexed
<1> QED BY <1>2, <1>4, <1>6, <1>7 DEF x

(***************************************************************************)
(* Completed datagrams.  `log` remembers what was admitted to a live set;  *)
(* Explains says what the set itself still knows of that: all packets, and *)
(* unless it is quarantined all parts, the sticky checksum flag and the    *)
(* packet whose header the datagram will carry.                            *)
(***************************************************************************)
Entry == [d : Input, frame : Nat]

PartsOf(entries) == {PartOf(e.d, e.frame) : e \in entries}

Explains(set, entries) ==
    /\ set.packets = {e.frame : e \in entries}
    /\ ~set.poisoned =>
          /\ set.parts = PartsOf(entries)
          /\ set.bad <=> \E e \in entries : e.d.bad
          /\ (\E e \in entries : e.d.offset = 0)
                => \E e \in entries : e.d.offset = 0 /\ e.frame = set.owner

\* Entries of distinct frames, all before fr.
Earlier(entries, fr) ==
    /\ entries \subseteq Entry
    /\ \A e \in entries : e.frame < fr
    /\ \A e, f \in entries : e.frame = f.frame => e = f

\* A nonempty set of numbers has a least one.
LEMMA LeastNat ==
    ASSUME NEW T, T \subseteq Nat, T # {}
    PROVE  \E u \in T : \A v \in T : u <= v
<1> DEFINE R == OpToRel(<, Nat)
<1>1. \E u \in T : \A v \in T : ~ (<<v, u>> \in R)
  <2> HIDE DEF R
  <2> QED BY NatLessThanWellFounded, WFMin DEF R
<1>2. PICK u \in T : \A v \in T : ~ (v < u)
  BY <1>1 DEF OpToRel
<1> QED BY <1>2

\* Each part has a packet of its own, and no two of them contradict each other.
Named(parts) == \A p, q \in parts : p.packet = q.packet => p = q
Agreeing(k, parts) ==
    \A p, q \in parts : p # q =>
        IF k \in Ipv6Keys THEN Overlap(p, q) = {} ELSE ~Disagree(p, q)

\* Of the parts that reach a byte one comes first in (start, arrival) order.
LEMMA SupplierFound ==
    ASSUME NEW parts, parts \subseteq Part, NEW x \in Nat,
           Named(parts), \E p \in parts : Covers(p, x)
    PROVE  Supplier(parts, x) \in parts /\ Covers(Supplier(parts, x), x)
<1> DEFINE C == {p \in parts : Covers(p, x)}
           S == {p.start : p \in C}
<1>0. \A p \in C : p \in parts /\ p.start \in Nat /\ p.packet \in Nat
  BY DEF Part
<1>1. S \subseteq Nat /\ S # {}
  BY <1>0
<1>2. PICK u \in S : \A v \in S : u <= v
  <2> HIDE DEF S
  <2> QED BY <1>1, LeastNat
<1> DEFINE A == {p.packet : p \in {q \in C : q.start = u}}
<1>3. A \subseteq Nat /\ A # {}
  BY <1>0, <1>2
<1>4. PICK a \in A : \A b \in A : a <= b
  <2> HIDE DEF A
  <2> QED BY <1>3, LeastNat
<1>5. PICK p \in C : p.start = u /\ p.packet = a
  BY <1>4
<1>6. ASSUME NEW q \in parts, Covers(q, x) PROVE p = q \/ Precedes(p, q)
  <2>1. q \in C /\ q.start \in S /\ u <= q.start
    BY <1>6, <1>2
  <2>2. q.start = u => a <= q.packet
    BY <1>4, <2>1
  <2>3. a = q.packet => p = q
    BY <1>5 DEF Named
  <2> QED BY <1>0, <1>5, <2>1, <2>2, <2>3 DEF Precedes
<1> QED BY <1>5, <1>6 DEF Supplier

\* Joining consistent parts that are ready explains every one of them.
LEMMA JoinedFaithful ==
    ASSUME NEW k, NEW parts, parts \subseteq Part, NEW total \in Nat,
           Named(parts), Agreeing(k, parts),
           \A p \in parts : ~PastEnd(p, total), Ready(parts, total)
    PROVE  /\ \A p \in parts : \A x \in p.start .. (PartEnd(p) - 1) :
                 x \in DOMAIN Joined(parts, total) /\ Joined(parts, total)[x] = ByteAt(p, x)
           /\ \A x \in DOMAIN Joined(parts, total) : \E p \in parts : Covers(p, x)
<1>1. ASSUME NEW p \in parts, NEW x \in p.start .. (PartEnd(p) - 1)
      PROVE  x \in DOMAIN Joined(parts, total) /\ Joined(parts, total)[x] = ByteAt(p, x)
  <2>1. p.start \in Nat /\ Len(p.data) \in Nat
    BY DEF Part
  <2>2. x \in 0 .. (total - 1) /\ x \in Nat /\ Covers(p, x)
    BY <1>1, <2>1 DEF PastEnd, PartEnd, Covers
  <2> DEFINE s == Supplier(parts, x)
  <2>3. s \in parts /\ Covers(s, x)
    BY <2>2, SupplierFound
  <2>4. s.start \in Nat /\ Len(s.data) \in Nat
    BY <2>3 DEF Part
  <2> HIDE DEF s
  <2>5. x \in Overlap(p, s)
    BY <2>1, <2>2, <2>3, <2>4 DEF Overlap, Covers, PartEnd
  <2>6. ByteAt(s, x) = ByteAt(p, x)
    BY <2>3, <2>5 DEF Disagree, Agreeing
  <2> QED BY <2>2, <2>6 DEF Joined, s
<1> QED BY <1>1 DEF Joined, Ready

\* What a set knows once a fragment that does not contradict it has joined it.
LEMMA KeptExplains ==
    ASSUME NEW rr, NEW d \in Input, NEW fr \in Nat, Typed(rr), NEW es, Earlier(es, fr),
           IF d.key \in DOMAIN rr.sets THEN Explains(rr.sets[d.key], es) ELSE es = {},
           NEW old, old = SetOf(rr, d, fr),
           NEW kept, kept = [Noted(old, d, fr, OnePacket(fr)) EXCEPT !.parts = @ \cup {PartOf(d, fr)}],
           ~old.poisoned
    PROVE  Explains(kept, es \cup {[d |-> d, frame |-> fr]})
<1> DEFINE new == [d |-> d, frame |-> fr]
           seen == es \cup {new}
<1>1. old \in Assembly
  BY SetOfTyped
<1>2. /\ kept.packets = old.packets \cup {fr}
      /\ kept.parts = old.parts \cup {PartOf(d, fr)}
      /\ kept.bad = (old.bad \/ d.bad)
      /\ kept.owner = IF d.offset = 0 THEN fr ELSE old.owner
  BY <1>1 DEF Noted, OnePacket, Assembly
<1>3. new.d = d /\ new.frame = fr /\ d.bad \in BOOLEAN
  BY DEF Input
<1> HIDE DEF new
<1>4. CASE d.key \in DOMAIN rr.sets
  <2>1. Explains(old, es)
    BY <1>4 DEF SetOf
  <2>2. kept.packets = {e.frame : e \in seen}
    BY <1>2, <1>3, <2>1 DEF Explains
  <2>3. kept.parts = PartsOf(seen)
    <3>1. old.parts = PartsOf(es)
      BY <2>1 DEF Explains
    <3>2. kept.parts = old.parts \cup {PartOf(new.d, new.frame)}
      BY <1>2, <1>3
    <3> QED BY <3>1, <3>2 DEF PartsOf
  <2>4. kept.bad <=> \E e \in seen : e.d.bad
    BY <1>2, <1>3, <2>1 DEF Explains
  <2>5. (\E e \in seen : e.d.offset = 0)
           => \E e \in seen : e.d.offset = 0 /\ e.frame = kept.owner
    BY <1>2, <1>3, <2>1 DEF Explains
  <2> QED BY <2>2, <2>3, <2>4, <2>5 DEF Explains, new
<1>5. CASE d.key \notin DOMAIN rr.sets
  <2>1. old.packets = {} /\ old.parts = {} /\ old.bad = d.bad /\ es = {}
    BY <1>5 DEF SetOf, Fresh
  <2>2. kept.parts = {PartOf(new.d, new.frame)} /\ seen = {new}
    BY <1>2, <1>3, <2>1
  <2>3. kept.parts = PartsOf(seen)
    BY <2>2 DEF PartsOf
  <2>4. kept.packets = {e.frame : e \in seen}
    BY <1>2, <1>3, <2>1, <2>2
  <2>5. kept.bad <=> \E e \in seen : e.d.bad
    BY <1>2, <1>3, <2>1, <2>2
  <2>6. (\E e \in seen : e.d.offset = 0)
           => \E e \in seen : e.d.offset = 0 /\ e.frame = kept.owner
    BY <1>2, <1>3, <2>2
  <2> QED BY <2>3, <2>4, <2>5, <2>6 DEF Explains, new
<1> QED BY <1>4, <1>5

\* Distinct entries carry distinct packets.
LEMMA PartsNamed ==
    ASSUME NEW es, NEW fr, Earlier(es, fr)
    PROVE  PartsOf(es) \subseteq Part /\ Named(PartsOf(es))
<1>1. \A e \in es : e.d \in Input /\ e.frame \in Nat
  BY DEF Earlier, Entry
<1>2. \A e, f \in es : e.frame = f.frame => e = f
  BY DEF Earlier
<1>3. \A e \in es : PartOf(e.d, e.frame).packet = e.frame
  BY DEF PartOf
<1> QED BY <1>1, <1>2, <1>3, PartOfTyped DEF Named, PartsOf

\* The entry of the frame that is being pushed.
LEMMA EarlierGrows ==
    ASSUME NEW es, NEW fr \in Nat, Earlier(es, fr), NEW d \in Input
    PROVE  Earlier(es \cup {[d |-> d, frame |-> fr]}, fr + 1)
<1> DEFINE new == [d |-> d, frame |-> fr]
<1>1. new \in Entry /\ new.frame = fr
  BY DEF Entry
<1>2. \A e \in es : e.frame \in Nat
  BY DEF Earlier, Entry
<1> HIDE DEF new
<1>3. Earlier(es \cup {new}, fr + 1)
  BY <1>1, <1>2 DEF Earlier
<1> QED BY <1>3 DEF new

\* The fragments a completed datagram was made of, and what it says of them.
Faithful(datagram, packets, entries) ==
    /\ \A p \in PartsOf(entries) : \A x \in p.start .. (PartEnd(p) - 1) :
          x \in DOMAIN datagram.data /\ datagram.data[x] = ByteAt(p, x)
    /\ \A x \in DOMAIN datagram.data : \E p \in PartsOf(entries) : Covers(p, x)
    /\ \E e \in entries : e.frame = datagram.owner /\ e.d.offset = 0
    /\ datagram.bad <=> \E e \in entries : e.d.bad
    /\ packets = {e.frame : e \in entries}

\* A push that completes a set hands on a datagram that explains every fragment.
LEMMA ReadyFaithful ==
    ASSUME NEW rr, NEW d \in Input, NEW fr \in Nat, Typed(rr), NEW es, Earlier(es, fr),
           IF d.key \in DOMAIN rr.sets THEN Explains(rr.sets[d.key], es) ELSE es = {},
           NEW old, old = SetOf(rr, d, fr),
           NEW kept, kept = [Noted(old, d, fr, OnePacket(fr)) EXCEPT !.parts = @ \cup {PartOf(d, fr)}],
           ~old.poisoned, Consistent(d.key, kept), d.data # <<>>,
           Ready(kept.parts, kept.end)
    PROVE  Faithful(Reassembled(rr, d, fr, OnePacket(fr)), kept.packets, es \cup {[d |-> d, frame |-> fr]})
<1> DEFINE new == [d |-> d, frame |-> fr]
           seen == es \cup {new}
           parts == PartsOf(seen)
           g == Reassembled(rr, d, fr, OnePacket(fr))
<1>1. Explains(kept, seen)
  BY KeptExplains
<1>2. old \in Assembly /\ Noted(old, d, fr, OnePacket(fr)) \in Assembly /\ ~Noted(old, d, fr, OnePacket(fr)).poisoned
  BY SetOfTyped, NotedTyped
<1>3. /\ ~kept.poisoned /\ kept.end = Noted(old, d, fr, OnePacket(fr)).end
      /\ kept.bad = Noted(old, d, fr, OnePacket(fr)).bad /\ kept.owner = Noted(old, d, fr, OnePacket(fr)).owner
      /\ kept.end \in Nat \cup {NoEnd}
      /\ kept.parts = Noted(old, d, fr, OnePacket(fr)).parts \cup {PartOf(d, fr)}
  BY <1>2 DEF Assembly
<1>4. kept.parts = parts /\ kept.packets = {e.frame : e \in seen}
  BY <1>1, <1>3 DEF Explains
<1>5. g.data = Joined(parts, kept.end) /\ g.owner = kept.owner /\ g.bad = kept.bad
  <2> HIDE DEF parts
  <2> QED BY <1>3, <1>4 DEF Reassembled
<1>6. kept.end \in Nat
  BY <1>3 DEF Ready
<1>7. parts \subseteq Part /\ Named(parts)
  <2>1. Earlier(seen, fr + 1)
    BY EarlierGrows
  <2> HIDE DEF seen
  <2> QED BY <2>1, PartsNamed
<1>8. Agreeing(d.key, parts) /\ \A p \in parts : ~PastEnd(p, kept.end)
  <2> HIDE DEF parts
  <2> QED BY <1>3, <1>4, <1>6 DEF Consistent, NoEnd, Agreeing
<1>9. /\ \A p \in parts : \A x \in p.start .. (PartEnd(p) - 1) :
            x \in DOMAIN g.data /\ g.data[x] = ByteAt(p, x)
      /\ \A x \in DOMAIN g.data : \E p \in parts : Covers(p, x)
  <2>1. Ready(parts, kept.end)
    BY <1>4
  <2> HIDE DEF parts, g
  <2>2. /\ \A p \in parts : \A x \in p.start .. (PartEnd(p) - 1) :
              /\ x \in DOMAIN Joined(parts, kept.end)
              /\ Joined(parts, kept.end)[x] = ByteAt(p, x)
        /\ \A x \in DOMAIN Joined(parts, kept.end) : \E p \in parts : Covers(p, x)
    BY <1>6, <1>7, <1>8, <2>1, JoinedFaithful
  <2> QED BY <1>5, <2>2
<1>10. \E e \in seen : e.frame = g.owner /\ e.d.offset = 0
  <2>1. new \in seen /\ PartOf(d, fr) \in parts
    <3>1. new.d = d /\ new.frame = fr
      OBVIOUS
    <3> HIDE DEF new
    <3> QED BY <3>1 DEF PartsOf
  <2>2. d.data \in Seq(Byte) /\ Len(d.data) > 0 /\ d.offset \in Nat
    BY DEF Input
  <2>3. kept.end > 0
    <3>1. ~PastEnd(PartOf(d, fr), kept.end)
      BY <1>8, <2>1
    <3> QED BY <1>6, <2>2, <3>1 DEF PastEnd, PartEnd, PartOf
  <2>4. PICK p \in parts : Covers(p, 0)
    <3>1. Ready(parts, kept.end)
      BY <1>4
    <3> HIDE DEF parts
    <3> QED BY <1>6, <2>3, <3>1 DEF Ready
  <2>5. PICK e \in seen : p = PartOf(e.d, e.frame)
    BY DEF PartsOf
  <2>6. e.d.offset = 0
    <3>1. p.start \in Nat /\ p.start <= 0
      BY <1>7, <2>4 DEF Covers, Part
    <3>2. p.start = e.d.offset
      BY <2>5 DEF PartOf
    <3> QED BY <3>1, <3>2
  <2> QED BY <1>1, <1>3, <1>5, <2>5, <2>6 DEF Explains
<1>11. g.bad <=> \E e \in seen : e.d.bad
  BY <1>1, <1>3, <1>5 DEF Explains
<1> HIDE DEF g
<1> QED BY <1>4, <1>9, <1>10, <1>11 DEF Faithful, g

\* push, as the log sees it: the fragment joins its set, or the set is complete
\* and gone, and nothing is forgotten.
Recorded(rr, d, fr, out, seen) ==
    \/ /\ out.tag \in {"Rejected", "Pending"}
       /\ \E set : out.r.sets = Store(rr, d, fr, set).sets /\ Explains(set, seen)
    \/ /\ out.tag = "Complete"
       /\ out.r.sets = [k \in DOMAIN rr.sets \ {d.key} |-> rr.sets[k]]
       /\ Faithful(Reassembled(rr, d, fr, OnePacket(fr)), out.packets, seen)

LEMMA PushExplains ==
    ASSUME NEW rr, NEW d \in Input, NEW fr \in Nat, Typed(rr), NEW es, Earlier(es, fr),
           IF d.key \in DOMAIN rr.sets THEN Explains(rr.sets[d.key], es) ELSE es = {},
           \A k \in DOMAIN rr.sets : Consistent(k, rr.sets[k]),
           ~InvalidRange(d), ~OverLimit(rr, d, fr, OnePacket(fr))
    PROVE  Recorded(rr, d, fr, Push(rr, d, fr, OnePacket(fr)), es \cup {[d |-> d, frame |-> fr]})
<1> DEFINE out == Push(rr, d, fr, OnePacket(fr))
           new == [d |-> d, frame |-> fr]
           seen == es \cup {new}
           old == SetOf(rr, d, fr)
           noted == Noted(old, d, fr, OnePacket(fr))
           parts == noted.parts \cup {PartOf(d, fr)}
           kept == [noted EXCEPT !.parts = parts]
           size == NewSize(rr, d, fr)
           stored == [Store(rr, d, fr, kept) EXCEPT !.retained = size]
<1>1. out = PushAdmitted(rr, d, fr, OnePacket(fr))
  BY DEF Push
<1>2. /\ old \in Assembly /\ noted \in Assembly /\ noted.poisoned = old.poisoned
      /\ kept \in Assembly /\ kept.poisoned = old.poisoned
      /\ kept.parts = parts /\ kept.end = noted.end /\ kept.packets = noted.packets
  BY SetOfTyped, NotedTyped, PartOfTyped DEF Assembly
<1>3. noted.packets = {e.frame : e \in seen}
  <2>1. noted.packets = old.packets \cup {fr}
    BY <1>2 DEF Noted, OnePacket, Assembly
  <2>2. old.packets = {e.frame : e \in es}
    BY DEF SetOf, Fresh, Explains
  <2>3. new.frame = fr
    OBVIOUS
  <2> HIDE DEF new, noted, old
  <2> QED BY <2>1, <2>2, <2>3
<1>4. \A s \in Assembly :
        /\ Quarantined(s).poisoned /\ Quarantined(s).packets = s.packets
        /\ s.packets = noted.packets /\ s.poisoned => Explains(s, seen)
  BY <1>3 DEF Quarantined, Assembly, Explains
<1>5. \A s \in Assembly : Quarantined(s) \in Assembly
  BY DEF Quarantined, Assembly
<1>6. CASE old.poisoned
  <2>1. out.tag = "Rejected" /\ out.r.sets = Store(rr, d, fr, noted).sets
    BY <1>1, <1>6 DEF PushAdmitted, Outcome
  <2>2. Explains(noted, seen)
    <3> HIDE DEF noted, seen
    <3> QED BY <1>2, <1>4, <1>6
  <2>3. Recorded(rr, d, fr, out, seen)
    <3> HIDE DEF noted, out, seen
    <3> QED BY <2>1, <2>2 DEF Recorded
  <2> QED BY <2>3
<1>7. CASE ~old.poisoned /\ Contradicts(old, d, fr)
  <2>1. out.tag = "Rejected" /\ out.r.sets = Store(rr, d, fr, Quarantined(noted)).sets
    BY <1>1, <1>7 DEF PushAdmitted, Outcome
  <2>2. Explains(Quarantined(noted), seen)
    <3> HIDE DEF noted, seen
    <3> QED BY <1>2, <1>4, <1>5
  <2>3. Recorded(rr, d, fr, out, seen)
    <3> HIDE DEF noted, out, seen
    <3> QED BY <2>1, <2>2 DEF Recorded
  <2> QED BY <2>3
<1>8. CASE ~old.poisoned /\ ~Contradicts(old, d, fr) /\ ~Ready(parts, noted.end)
  <2>1. out = Outcome("Pending", stored, {})
    BY <1>1, <1>8 DEF PushAdmitted
  <2>2. stored.sets = Store(rr, d, fr, kept).sets
    BY DEF Store
  <2>3. Explains(kept, seen)
    BY <1>8, KeptExplains
  <2>4. Recorded(rr, d, fr, out, seen)
    <3> HIDE DEF stored, kept, out, seen
    <3>1. out.tag = "Pending" /\ out.r.sets = Store(rr, d, fr, kept).sets
      BY <2>1, <2>2 DEF Outcome
    <3> QED BY <2>3, <3>1 DEF Recorded
  <2> QED BY <2>4
<1>9. CASE /\ ~old.poisoned /\ ~Contradicts(old, d, fr) /\ Ready(parts, noted.end)
           /\ noted.end + Overhead(noted, d.key) > MaxDatagram
  <2> DEFINE spoiled == [Store(rr, d, fr, Quarantined(kept)) EXCEPT !.retained = size]
  <2>1. out.tag = "Rejected" /\ out.r = spoiled
    BY <1>1, <1>9 DEF PushAdmitted, Outcome
  <2>2. spoiled.sets = Store(rr, d, fr, Quarantined(kept)).sets
    BY DEF Store
  <2>3. Explains(Quarantined(kept), seen)
    <3> HIDE DEF kept, noted, seen
    <3> QED BY <1>2, <1>4, <1>5
  <2>4. Recorded(rr, d, fr, out, seen)
    <3> HIDE DEF spoiled, kept, out, seen
    <3>1. out.r.sets = Store(rr, d, fr, Quarantined(kept)).sets
      BY <2>1, <2>2
    <3> QED BY <2>1, <2>3, <3>1 DEF Recorded
  <2> QED BY <2>4
<1>10. CASE /\ ~old.poisoned /\ ~Contradicts(old, d, fr) /\ Ready(parts, noted.end)
            /\ ~(noted.end + Overhead(noted, d.key) > MaxDatagram)
  <2>1. /\ out.tag = "Complete" /\ out.r = RemoveSets(stored, {d.key})
        /\ out.packets = noted.packets
    BY <1>1, <1>10 DEF PushAdmitted, Outcome
  <2>2. out.r.sets = [k \in DOMAIN rr.sets \ {d.key} |-> rr.sets[k]]
    BY <2>1 DEF RemoveSets, Store
  <2>3. Consistent(d.key, old)
    BY DEF SetOf, Fresh, Consistent
  <2>4. Consistent(d.key, kept)
    BY <1>2, <1>10, <2>3, KeptConsistent
  <2>5. Faithful(Reassembled(rr, d, fr, OnePacket(fr)), kept.packets, seen)
    BY <1>2, <1>10, <2>4, ReadyFaithful DEF InvalidRange
  <2>6. Recorded(rr, d, fr, out, seen)
    <3> HIDE DEF kept, noted, out, seen
    <3> QED BY <1>2, <2>1, <2>2, <2>5 DEF Recorded
  <2> QED BY <2>6
<1> QED BY <1>6, <1>7, <1>8, <1>9, <1>10

(***************************************************************************)
(* The inductive invariant.  PartsConsistent alone is not inductive only   *)
(* for want of types; LifetimeExact needs the index to be exact, since a   *)
(* stale entry would expire a later set that reuses the key; and           *)
(* CompleteFaithful needs every live set to be explained by the fragments  *)
(* admitted to it, whose frames are distinct since push runs once a frame. *)
(***************************************************************************)
NextFrame == IF phase = "ready" THEN frame ELSE frame + 1

Logged(rr, lg, fr) ==
    /\ DOMAIN lg = DOMAIN rr.sets
    /\ \A k \in DOMAIN lg : Earlier(lg[k], fr) /\ Explains(rr.sets[k], lg[k])

FragInv ==
    /\ TypeOK
    /\ frame \in Nat /\ Typed(r) /\ Indexed(r)
    /\ PartsConsistent
    /\ Logged(r, log, NextFrame)
    /\ CompleteFaithful

LEMMA EarlierStays ==
    ASSUME NEW es, NEW fr \in Nat, Earlier(es, fr)
    PROVE  Earlier(es, fr + 1)
<1>1. \A e \in es : e.frame \in Nat
  BY DEF Earlier, Entry
<1> QED BY <1>1 DEF Earlier

\* The log once a fragment of key k has been admitted.
Relogged(q, k, seen, lg) == [x \in DOMAIN q.sets |-> IF x = k THEN seen ELSE lg[x]]

\* A push that succeeds keeps the log in step with the sets.
LEMMA PushLogged ==
    ASSUME NEW rr, NEW d \in Input, NEW fr \in Nat, Typed(rr),
           \A k \in DOMAIN rr.sets : Consistent(k, rr.sets[k]),
           NEW lg, Logged(rr, lg, fr), ~InvalidRange(d), ~OverLimit(rr, d, fr, OnePacket(fr)),
           NEW seen, seen = (IF d.key \in DOMAIN lg THEN lg[d.key] ELSE {})
                               \cup {[d |-> d, frame |-> fr]},
           NEW out, out = Push(rr, d, fr, OnePacket(fr))
    PROVE  /\ Logged(out.r, Relogged(out.r, d.key, seen, lg), fr + 1)
           /\ out.tag = "Complete" => Faithful(Reassembled(rr, d, fr, OnePacket(fr)), out.packets, seen)
           /\ out.tag # "Err"
<1> DEFINE es == IF d.key \in DOMAIN lg THEN lg[d.key] ELSE {}
           lgx == Relogged(out.r, d.key, seen, lg)
<1>1. Earlier(es, fr)
  BY DEF Logged, Earlier
<1>2. IF d.key \in DOMAIN rr.sets THEN Explains(rr.sets[d.key], es) ELSE es = {}
  BY DEF Logged
<1>3. Recorded(rr, d, fr, out, seen) /\ Earlier(seen, fr + 1)
  <2>1. seen = es \cup {[d |-> d, frame |-> fr]}
    OBVIOUS
  <2> HIDE DEF es
  <2> QED BY <1>1, <1>2, <2>1, PushExplains, EarlierGrows
<1>4. \A k \in DOMAIN lg : Earlier(lg[k], fr + 1) /\ Explains(rr.sets[k], lg[k])
  BY EarlierStays DEF Logged
<1>5. DOMAIN lg = DOMAIN rr.sets
  BY DEF Logged
<1> HIDE DEF es
<1>6. CASE out.tag = "Complete"
  <2>1. /\ out.r.sets = [k \in DOMAIN rr.sets \ {d.key} |-> rr.sets[k]]
        /\ Faithful(Reassembled(rr, d, fr, OnePacket(fr)), out.packets, seen)
    BY <1>3, <1>6 DEF Recorded
  <2>2. Logged(out.r, lgx, fr + 1)
    BY <1>4, <1>5, <2>1 DEF Logged, Relogged
  <2> QED BY <1>6, <2>1, <2>2
<1>7. CASE out.tag # "Complete"
  <2>1. PICK set : out.r.sets = Store(rr, d, fr, set).sets /\ Explains(set, seen)
    BY <1>3, <1>7 DEF Recorded
  <2>2. out.r.sets = [k \in DOMAIN rr.sets \cup {d.key} |->
                        IF k = d.key THEN set ELSE rr.sets[k]]
    BY <2>1 DEF Store
  <2>3. Logged(out.r, lgx, fr + 1)
    BY <1>3, <1>4, <1>5, <2>1, <2>2 DEF Logged, Relogged
  <2>4. out.tag # "Err"
    BY <1>3 DEF Recorded
  <2> QED BY <1>7, <2>3, <2>4
<1> QED BY <1>6, <1>7

LEMMA NewInv ==
    /\ Typed(New) /\ Indexed(New)
    /\ \A k \in DOMAIN New.sets : Consistent(k, New.sets[k])
BY DEF New, Typed, Indexed

\* TypeOK is Typed, the type part of Indexed, and the bounds of the counters.
LEMMA TypeParts ==
    ASSUME Typed(r), Indexed(r), frame \in 0 .. FrameBound,
           phase \in {"ready", "pushed", "ended"}
    PROVE  TypeOK
BY DEF Typed, Indexed, TypeOK

LEMMA InitInv == Init => FragInv
<1> SUFFICES ASSUME Init PROVE FragInv
  OBVIOUS
<1>1. Typed(r) /\ Indexed(r) /\ PartsConsistent
  BY NewInv DEF Init, PartsConsistent
<1>2. TypeOK
  BY <1>1, TypeParts, FragmentFrames DEF Init
<1>3. Logged(r, log, NextFrame)
  BY DEF Init, New, Logged
<1>4. CompleteFaithful
  BY DEF Init, NoResult, CompleteFaithful
<1> QED BY <1>1, <1>2, <1>3, <1>4 DEF Init, FragInv

LEMMA StepInv == FragInv /\ [Next]_vars => FragInv'
<1> SUFFICES ASSUME FragInv, [Next]_vars PROVE FragInv'
  OBVIOUS
<1>1. CASE Advance
  <2>1. frame' = frame + 1 /\ r' = Expire(r, frame + 1).r
    BY <1>1 DEF Advance
  <2>2. Typed(r') /\ Indexed(r')
    BY <2>1, ExpireExact DEF FragInv
  <2>3. \A k \in DOMAIN r'.sets : Consistent(k, r'.sets[k])
    BY <2>1, ExpireExact DEF FragInv, PartsConsistent
  <2>4. TypeOK'
    BY <1>1, <2>1, <2>2, FragmentFrames DEF FragInv, Advance, TypeOK, Typed, Indexed
  <2>5. Logged(r, log, NextFrame)' /\ CompleteFaithful'
    <3>1. phase' = "ready" /\ log' = Restricted(log, DOMAIN r'.sets) /\ last'.tag = "Expired"
      BY <1>1 DEF Advance
    <3>2. \A k \in DOMAIN log : Earlier(log[k], frame + 1) /\ Explains(r.sets[k], log[k])
      BY EarlierStays DEF FragInv, Logged, NextFrame
    <3>3. /\ DOMAIN r'.sets \subseteq DOMAIN r.sets
          /\ \A k \in DOMAIN r'.sets : r'.sets[k] = r.sets[k]
      BY <2>1, ExpireExact DEF FragInv
    <3>4. DOMAIN log = DOMAIN r.sets
      BY DEF FragInv, Logged
    <3>5. Logged(r', log', frame + 1)
      BY <3>1, <3>2, <3>3, <3>4 DEF Logged, Restricted
    <3> QED BY <2>1, <3>1, <3>5 DEF NextFrame, CompleteFaithful
  <2>6. PartsConsistent' /\ frame' \in Nat
    BY <2>1, <2>3 DEF PartsConsistent, FragInv
  <2> QED BY <2>2, <2>4, <2>5, <2>6 DEF FragInv
<1>2. ASSUME NEW d \in Inputs, PushFragment(d) PROVE FragInv'
  <2>1. frame' = frame /\ r' = Push(r, d, frame, OnePacket(frame)).r /\ d \in Input
    BY <1>2, FragmentInputs DEF PushFragment
  <2>2. /\ Typed(r') /\ Indexed(r')
        /\ \A k \in DOMAIN r'.sets : Consistent(k, r'.sets[k])
    BY <2>1, PushKeeps DEF FragInv, PartsConsistent
  <2>3. TypeOK'
    BY <1>2, <2>1, <2>2 DEF FragInv, PushFragment, TypeOK, Typed, Indexed
  <2> DEFINE out == Push(r, d, frame, OnePacket(frame))
             seen == (IF d.key \in DOMAIN log THEN log[d.key] ELSE {})
                        \cup {[d |-> d, frame |-> frame]}
  <2>4. Logged(r, log, frame)
    BY <1>2 DEF FragInv, NextFrame, PushFragment
  <2>5. Logged(r, log, NextFrame)' /\ CompleteFaithful'
    <3>1. CASE InvalidRange(d) \/ OverLimit(r, d, frame, OnePacket(frame))
      <4>1. out.r = r /\ out.tag # "Complete" /\ (InvalidRange(d) \/ out.tag = "Err")
        BY <3>1 DEF Push, Outcome
      <4>2. r' = r /\ log' = log /\ phase' # "ready" /\ last'.tag # "Complete"
        BY <1>2, <4>1 DEF PushFragment
      <4>3. Logged(r, log, frame + 1)
        BY <2>4, EarlierStays DEF FragInv, Logged
      <4> QED BY <2>1, <4>2, <4>3 DEF NextFrame, CompleteFaithful
    <3>2. CASE ~InvalidRange(d) /\ ~OverLimit(r, d, frame, OnePacket(frame))
      <4>1. /\ Logged(out.r, Relogged(out.r, d.key, seen, log), frame + 1)
            /\ out.tag = "Complete" => Faithful(Reassembled(r, d, frame, OnePacket(frame)), out.packets, seen)
            /\ out.tag # "Err"
        <5>1. /\ Typed(r) /\ frame \in Nat
              /\ \A k \in DOMAIN r.sets : Consistent(k, r.sets[k])
          BY DEF FragInv, PartsConsistent
        <5> QED BY <2>1, <2>4, <3>2, <5>1, PushLogged
      <4>2. /\ r' = out.r /\ phase' # "ready"
            /\ log' = Relogged(out.r, d.key, seen, log)
        BY <1>2, <3>2, <4>1 DEF PushFragment, Relogged
      <4>3. last'.tag = "Complete" =>
              /\ out.tag = "Complete" /\ last'.datagram = Reassembled(r, d, frame, OnePacket(frame))
              /\ last'.packets = out.packets /\ last'.seen = seen
        BY <1>2 DEF PushFragment
      <4> HIDE DEF out, seen
      <4>4. Logged(r', log', frame + 1)
        BY <4>1, <4>2
      <4>5. last'.tag = "Complete" => Faithful(last'.datagram, last'.packets, last'.seen)
        BY <4>1, <4>3
      <4>6. CompleteFaithful'
        BY <4>5 DEF CompleteFaithful, Faithful, PartsOf
      <4> QED BY <2>1, <4>2, <4>4, <4>6 DEF NextFrame
    <3> QED BY <3>1, <3>2
  <2> QED BY <2>1, <2>2, <2>3, <2>5 DEF FragInv, PartsConsistent, Typed, Indexed
<1>3. CASE Drain
  <2>1. Logged(r, log, NextFrame)' /\ CompleteFaithful'
    BY <1>3 DEF Drain, New, Logged, CompleteFaithful
  <2> QED BY <1>3, <2>1, NewInv DEF Drain, FragInv, PartsConsistent, TypeOK, Typed, Indexed
<1>4. CASE UNCHANGED vars
  <2>1. Logged(r, log, NextFrame)' /\ CompleteFaithful'
    BY <1>4 DEF FragInv, NextFrame, Logged, CompleteFaithful, vars
  <2> QED BY <1>4, <2>1 DEF FragInv, PartsConsistent, TypeOK, Typed, Indexed, vars
<1> QED BY <1>1, <1>2, <1>3, <1>4 DEF Next

\* Every operation of the reassembler leaves well-formed sets and deadlines,
\* for any keys, inputs and limits.
THEOREM TypeCorrect == Spec => []TypeOK
<1>1. FragInv => TypeOK
  BY DEF FragInv
<1> QED BY InitInv, StepInv, <1>1, PTL DEF Spec

\* push never lets a set that is not quarantined hold parts that contradict one
\* another or the terminal length, and the datagram of a completed set explains
\* every fragment admitted to it, for any keys, inputs and limits.
THEOREM FragmentsSoundThm == Spec => []FragmentsSound
<1>1. FragInv => FragmentsSound
  BY DEF FragInv, FragmentsSound
<1> QED BY InitInv, StepInv, <1>1, PTL DEF Spec

\* expire removes exactly the sets whose lifetime of frames is over, for any
\* lifetime, frame counter limit and sequence of calls.
THEOREM LifetimeExactThm == Spec => LifetimeExact
<1>1. FragInv /\ Advance =>
        \A k \in DOMAIN r.sets :
            (k \notin DOMAIN r'.sets) <=>
                /\ DeadlineOf(r.sets[k].first_frame) # {}
                /\ frame' > r.sets[k].first_frame + Lifetime
  <2> SUFFICES ASSUME FragInv, Advance, NEW k \in DOMAIN r.sets
               PROVE  (k \notin DOMAIN r'.sets) <=>
                        /\ DeadlineOf(r.sets[k].first_frame) # {}
                        /\ frame' > r.sets[k].first_frame + Lifetime
    OBVIOUS
  <2>1. frame' = frame + 1 /\ r' = Expire(r, frame + 1).r /\ frame \in Nat
    BY DEF Advance, FragInv
  <2>2. k \notin DOMAIN r'.sets <=>
            \E e \in DeadlineOf(r.sets[k].first_frame) : e <= frame + 1
    BY <2>1, ExpireExact DEF FragInv
  <2>3. r.sets[k].first_frame \in Nat /\ Lifetime \in Nat
    BY FragmentLimits DEF FragInv, Typed, Assembly
  <2> QED BY <2>1, <2>2, <2>3 DEF DeadlineOf
<1> QED BY InitInv, StepInv, <1>1, PTL DEF Spec, LifetimeExact
=============================================================================
