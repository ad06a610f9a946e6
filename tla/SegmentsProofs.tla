---------------------------- MODULE SegmentsProofs ----------------------------
(***************************************************************************)
(* Proofs about messages put together from numbered segments, for any      *)
(* limits, scopes and segments.                                            *)
(***************************************************************************)
EXTENDS Segments, FiniteSetTheorems, TLAPS

(***************************************************************************)
(* The inductive invariant.  Sound is about one chain, what was offered to *)
(* it and what it gave.  The parts of a chain that is not poisoned are all *)
(* that was offered, and only the last of them may be final: with that a   *)
(* segment contradicts something offered before exactly when it            *)
(* contradicts a part.  Counted is the state of a COTP chain: never ended, *)
(* and without a hole.                                                     *)
(***************************************************************************)
ChainFields == {"parts", "conflicts", "last", "first", "poisoned", "frame"}

\* The segments a session can make of the pieces.
Possible(s) == s \in Segment /\ \E p \in Pieces : s.text = p.text /\ s.len = p.len

Shaped(c) ==
    /\ DOMAIN c = ChainFields
    /\ IsFiniteSet(DOMAIN c.parts) /\ DOMAIN c.parts \subseteq Nat
    /\ \A o \in DOMAIN c.parts : Possible(c.parts[o]) /\ c.parts[o].ordinal = o
    /\ c.last \in Nat \cup {NoLast}
    /\ c.first \in BOOLEAN /\ c.poisoned \in BOOLEAN

Ended(c) ==
    /\ c.last # NoLast => /\ c.last \in DOMAIN c.parts /\ c.parts[c.last].final
                          /\ \A o \in DOMAIN c.parts : o <= c.last
    /\ \A o \in DOMAIN c.parts : c.parts[o].final => o = c.last

FromOffered(given, off) ==
    \A i \in DOMAIN given : \A n \in DOMAIN given[i] :
        \E s \in off : s.ordinal = n - 1 /\ s.text = given[i][n]

Sound(c, off, given) ==
    /\ Shaped(c)
    /\ \A s \in off : Possible(s)
    /\ Len(given) \in {0, 1} /\ FromOffered(given, off)
    /\ ~c.poisoned => /\ off = Range(c.parts) /\ Ended(c)
                      /\ given = IF Complete(c) THEN <<Assembled(c)>> ELSE <<>>
    /\ c.poisoned => \E s, t \in off : Contradict(s, t)

Counted(c, n) ==
    /\ n \in Nat \ {0} /\ DOMAIN c.parts = 0 .. (n - 1)
    /\ ~c.poisoned /\ c.first /\ c.last = NoLast

ChainsSound ==
    /\ DOMAIN chains = DOMAIN offered /\ DOMAIN done \subseteq DOMAIN chains
    /\ \A k \in DOMAIN chains : Sound(chains[k], offered[k], Given(k))

CountersSound ==
    session = "cotp" =>
        /\ DOMAIN ordinals = DOMAIN chains
        /\ \A k \in DOMAIN chains : Counted(chains[k], ordinals[k])

SegInv == ChainsSound /\ CountersSound

-----------------------------------------------------------------------------
\* A complete chain has every number up to the last.
LEMMA CompleteParts ==
    ASSUME NEW c, Shaped(c), Ended(c), Complete(c)
    PROVE  DOMAIN c.parts = 0 .. c.last /\ c.last \in Nat
<1>1. c.last \in Nat /\ c.last + 1 = Cardinality(DOMAIN c.parts)
  BY DEF Complete, Shaped
<1>2. DOMAIN c.parts \subseteq 0 .. c.last
  BY <1>1 DEF Shaped, Ended, NoLast
<1>3. IsFiniteSet(0 .. c.last) /\ Cardinality(0 .. c.last) = c.last + 1
  BY <1>1, FS_Interval
<1> QED BY <1>1, <1>2, <1>3, FS_Subset

\* Its message is made of its parts.
LEMMA AssembledOffered ==
    ASSUME NEW c, Shaped(c), Ended(c), Complete(c), NEW off, Range(c.parts) \subseteq off
    PROVE  FromOffered(<<Assembled(c)>>, off)
<1>1. DOMAIN c.parts = 0 .. c.last /\ c.last \in Nat
  BY CompleteParts
<1> SUFFICES ASSUME NEW n \in DOMAIN Assembled(c)
             PROVE  \E s \in off : s.ordinal = n - 1 /\ s.text = Assembled(c)[n]
  BY DEF FromOffered
<1>2. n \in 1 .. c.last + 1 /\ n - 1 \in DOMAIN c.parts
  BY <1>1 DEF Assembled
<1>3. c.parts[n - 1] \in off /\ c.parts[n - 1].ordinal = n - 1
  BY <1>2 DEF Range, Shaped
<1>4. Assembled(c)[n] = c.parts[n - 1].text
  BY <1>2 DEF Assembled
<1> QED BY <1>3, <1>4

\* Equal octets under one number are one segment.
LEMMA SameIsEqual ==
    ASSUME NEW s, NEW t, Possible(s), Possible(t), s.ordinal = t.ordinal, Same(s, t)
    PROVE  s = t
<1>1. s.len = t.len
  BY SegmentPieces DEF Possible, Same
<1> QED BY <1>1 DEF Possible, Same, Segment

\* The parts of a chain that is not poisoned do not contradict each other.
LEMMA EndedAgrees ==
    ASSUME NEW c, Shaped(c), Ended(c)
    PROVE  ~ \E s, t \in Range(c.parts) : Contradict(s, t)
<1> SUFFICES ASSUME NEW o \in DOMAIN c.parts, NEW x \in DOMAIN c.parts,
                    Contradict(c.parts[o], c.parts[x])
             PROVE  FALSE
  BY DEF Range
<1>1. c.parts[o].ordinal = o /\ c.parts[x].ordinal = x /\ o \in Nat /\ x \in Nat
  BY DEF Shaped
<1>2. c.parts[x].final /\ o > x
  BY <1>1 DEF Contradict, Same
<1>3. x = c.last /\ c.last # NoLast
  BY <1>1, <1>2 DEF Ended, NoLast
<1> QED BY <1>1, <1>2, <1>3 DEF Ended

\* A chain that was just begun.
LEMMA NewSound == Sound(NewChain, {}, <<>>)
<1>1. NewChain.parts = << >> /\ DOMAIN NewChain.parts = {}
  BY DEF NewChain, Nothing
<1>2. Shaped(NewChain)
  BY <1>1, FS_EmptySet DEF NewChain, Shaped, ChainFields
<1>3. Ended(NewChain) /\ Range(NewChain.parts) = {}
  BY <1>1 DEF Ended, NewChain, Range
<1>4. ~Complete(NewChain) /\ ~NewChain.poisoned
  BY DEF Complete, NewChain
<1> QED BY <1>2, <1>3, <1>4 DEF Sound, FromOffered

(***************************************************************************)
(* One segment.                                                            *)
(***************************************************************************)
\* A chain with a part it did not have.
LEMMA WithPartShape ==
    ASSUME NEW c, Shaped(c), NEW s, Possible(s), NEW next, next = WithPart(c, s)
    PROVE  /\ Shaped(next)
           /\ next.parts = Put(c.parts, s.ordinal, s)
           /\ next.last = IF s.final THEN s.ordinal ELSE c.last
           /\ next.first = (c.first \/ s.first)
           /\ next.poisoned <=>
                 \/ next.last # NoLast /\ \E o \in DOMAIN c.parts \cup {s.ordinal} : o > next.last
                 \/ s.final /\ c.last \notin {NoLast, s.ordinal}
<1>1. /\ s.ordinal \in Nat /\ s.first \in BOOLEAN /\ s.final \in BOOLEAN
      /\ DOMAIN c = ChainFields
  BY DEF Possible, Segment, Shaped
<1>2. /\ DOMAIN next = ChainFields
      /\ next.parts = Put(c.parts, s.ordinal, s)
      /\ next.last = IF s.final THEN s.ordinal ELSE c.last
      /\ next.first = (c.first \/ s.first)
  BY <1>1 DEF WithPart, ChainFields
<1>3. next.poisoned = \/ next.last # NoLast
                         /\ \E o \in DOMAIN c.parts \cup {s.ordinal} : o > next.last
                      \/ s.final /\ c.last \notin {NoLast, s.ordinal}
  BY <1>1, <1>2 DEF WithPart, ChainFields
<1>4. /\ DOMAIN next.parts = DOMAIN c.parts \cup {s.ordinal}
      /\ \A o \in DOMAIN next.parts : Possible(next.parts[o]) /\ next.parts[o].ordinal = o
  BY <1>2 DEF Put, Shaped
<1>5. IsFiniteSet(DOMAIN next.parts)
  BY <1>4, FS_AddElement DEF Shaped
<1>6. Shaped(next)
  BY <1>1, <1>2, <1>3, <1>4, <1>5 DEF Shaped
<1> QED BY <1>2, <1>3, <1>6

\* It is poisoned exactly when the new part contradicts an older one.
LEMMA WithPartSound ==
    ASSUME NEW c, NEW off, NEW given, Sound(c, off, given), ~c.poisoned,
           NEW s, Possible(s), s.ordinal \notin DOMAIN c.parts,
           NEW next, next = WithPart(c, s),
           NEW gave, gave = IF ~next.poisoned /\ Complete(next)
                            THEN Append(given, Assembled(next)) ELSE given
    PROVE  Sound(next, off \cup {s}, gave)
<1>1. /\ Shaped(c) /\ Ended(c) /\ off = Range(c.parts)
      /\ ~Complete(c) => given = <<>>
  BY DEF Sound
<1>2. /\ Shaped(next) /\ next.parts = Put(c.parts, s.ordinal, s)
      /\ next.last = IF s.final THEN s.ordinal ELSE c.last
      /\ next.poisoned <=>
            \/ next.last # NoLast /\ \E o \in DOMAIN c.parts \cup {s.ordinal} : o > next.last
            \/ s.final /\ c.last \notin {NoLast, s.ordinal}
  BY <1>1, WithPartShape
<1>3. /\ s.ordinal \in Nat /\ s.final \in BOOLEAN /\ c.last \in Nat \cup {NoLast}
      /\ DOMAIN c.parts \subseteq Nat
      /\ \A o \in DOMAIN c.parts : c.parts[o].ordinal = o /\ c.parts[o] \in off
  BY <1>1 DEF Possible, Segment, Shaped, Range
<1>4. Range(next.parts) = off \cup {s}
  BY <1>1, <1>2 DEF Range, Put
<1>5. \A t \in off \cup {s} : Possible(t)
  BY DEF Sound
<1>6. CASE next.poisoned
  <2>1. \E t, u \in off \cup {s} : Contradict(t, u)
    <3>1. CASE s.final /\ c.last \notin {NoLast, s.ordinal}
      <4>1. c.last \in Nat /\ c.last \in DOMAIN c.parts /\ c.parts[c.last].final
        BY <1>1, <1>3, <3>1 DEF Ended
      <4>2. c.last > s.ordinal => Contradict(c.parts[c.last], s)
        BY <1>3, <3>1, <4>1 DEF Contradict
      <4>3. s.ordinal > c.last => Contradict(s, c.parts[c.last])
        BY <1>3, <3>1, <4>1 DEF Contradict
      <4>4. c.parts[c.last] \in off \cup {s} /\ s \in off \cup {s}
        BY <1>3, <4>1
      <4>5. c.last > s.ordinal \/ s.ordinal > c.last
        BY <1>3, <3>1, <4>1
      <4> QED BY <4>2, <4>3, <4>4, <4>5
    <3>2. ASSUME next.last # NoLast, NEW o \in DOMAIN c.parts \cup {s.ordinal}, o > next.last
          PROVE  \E t, u \in off \cup {s} : Contradict(t, u)
      <4>1. CASE s.final
        <5>1. o \in DOMAIN c.parts /\ c.parts[o].ordinal > s.ordinal
          BY <1>2, <1>3, <3>2, <4>1
        <5>2. Contradict(c.parts[o], s)
          BY <4>1, <5>1 DEF Contradict
        <5> QED BY <1>3, <5>1, <5>2
      <4>2. CASE ~s.final
        <5>1. /\ next.last = c.last /\ c.last \in DOMAIN c.parts /\ c.parts[c.last].final
              /\ \A x \in DOMAIN c.parts : x <= c.last
          BY <1>1, <1>2, <3>2, <4>2 DEF Ended
        <5>2. o = s.ordinal
          BY <1>3, <3>2, <5>1
        <5>3. Contradict(s, c.parts[c.last])
          BY <1>3, <3>2, <5>1, <5>2 DEF Contradict
        <5> QED BY <1>3, <5>1, <5>3
      <4> QED BY <1>3, <4>1, <4>2
    <3> QED BY <1>2, <1>6, <3>1, <3>2
  <2>2. Len(gave) \in {0, 1} /\ FromOffered(gave, off \cup {s})
    BY <1>6 DEF Sound, FromOffered
  <2> QED BY <1>2, <1>5, <1>6, <2>1, <2>2 DEF Sound
<1>7. CASE ~next.poisoned
  <2>0. ~Complete(c)
    <3> SUFFICES ASSUME Complete(c) PROVE FALSE
      OBVIOUS
    <3>1. DOMAIN c.parts = 0 .. c.last /\ c.last \in Nat
      BY <1>1, CompleteParts
    <3>2. s.ordinal > c.last
      BY <1>3, <3>1
    <3> QED BY <1>2, <1>3, <1>7, <3>1, <3>2 DEF NoLast
  <2>1. Ended(next)
    <3>1. /\ DOMAIN next.parts = DOMAIN c.parts \cup {s.ordinal} /\ next.parts[s.ordinal] = s
          /\ \A o \in DOMAIN c.parts : next.parts[o] = c.parts[o]
      BY <1>2 DEF Put
    <3>2. CASE s.final
      <4>1. next.last = s.ordinal /\ \A o \in DOMAIN next.parts : o <= next.last
        BY <1>2, <1>3, <1>7, <3>1, <3>2 DEF NoLast
      <4>2. c.last = NoLast
        BY <1>1, <1>2, <1>7, <3>2 DEF Ended
      <4>3. \A o \in DOMAIN c.parts : ~c.parts[o].final
        BY <1>1, <1>3, <4>2 DEF Ended, NoLast
      <4> QED BY <3>1, <3>2, <4>1, <4>3 DEF Ended
    <3>3. CASE ~s.final
      <4>1. next.last = c.last
        BY <1>2, <3>3
      <4>2. next.last # NoLast => \A o \in DOMAIN next.parts : o <= next.last
        BY <1>2, <1>3, <1>7, <3>1, <4>1
      <4> QED BY <1>1, <3>1, <3>3, <4>1, <4>2 DEF Ended
    <3> QED BY <1>3, <3>2, <3>3
  <2>2. CASE Complete(next)
    <3>1. gave = <<Assembled(next)>>
      BY <1>1, <1>7, <2>0, <2>2
    <3>2. FromOffered(<<Assembled(next)>>, off \cup {s})
      BY <1>2, <1>4, <2>1, <2>2, AssembledOffered
    <3>3. Len(gave) = 1
      <4>1. \A x : Len(<<x>>) = 1
        OBVIOUS
      <4> QED BY <3>1, <4>1
    <3>4. FromOffered(gave, off \cup {s})
      BY <3>1, <3>2
    <3>5. gave = IF Complete(next) THEN <<Assembled(next)>> ELSE <<>>
      BY <2>2, <3>1
    <3> QED BY <1>2, <1>4, <1>5, <1>7, <2>1, <3>3, <3>4, <3>5 DEF Sound
  <2>3. CASE ~Complete(next)
    <3>1. gave = <<>>
      BY <1>1, <2>0, <2>3
    <3> QED BY <1>2, <1>4, <1>5, <1>7, <2>1, <2>3, <3>1 DEF Sound, FromOffered
  <2> QED BY <2>2, <2>3
<1> QED BY <1>6, <1>7

ChainOf(scope) == IF scope \in DOMAIN chains THEN chains[scope] ELSE NewChain
OfferedTo(scope) == IF scope \in DOMAIN offered THEN offered[scope] ELSE {}

\* The ways push can end, unless it refuses.
Spoiled(c, r) == r.reason = "poisoned" /\ c.poisoned
Repeated(c, s, r) ==
    /\ r.reason = "duplicate" /\ ~c.poisoned
    /\ s.ordinal \in DOMAIN c.parts /\ Same(s, c.parts[s.ordinal])
Conflicting(c, s, r) ==
    /\ r.reason = "conflict" /\ ~c.poisoned
    /\ s.ordinal \in DOMAIN c.parts /\ ~Same(s, c.parts[s.ordinal])
    /\ r.chain = [c EXCEPT !.conflicts = Append(@, s), !.poisoned = TRUE]
Extended(c, s, r) ==
    /\ r.reason \in {"contradiction", "complete", "waiting"} /\ ~c.poisoned
    /\ s.ordinal \notin DOMAIN c.parts /\ r.chain = WithPart(c, s)
    /\ r.reason = "complete" <=> ~r.chain.poisoned /\ Complete(r.chain)

LEMMA PushCases ==
    ASSUME NEW scope, NEW s, NEW c, c = ChainOf(scope), c.poisoned \in BOOLEAN,
           NEW r, r = Push(scope, s), r.reason # "refused"
    PROVE  Spoiled(c, r) \/ Repeated(c, s, r) \/ Conflicting(c, s, r) \/ Extended(c, s, r)
BY DEF Push, ChainOf, Spoiled, Repeated, Conflicting, Extended

\* What push leaves is sound, whatever the order in which segments came.
LEMMA PushSound ==
    ASSUME NEW scope, NEW s, Possible(s), NEW c, c = ChainOf(scope),
           NEW off, NEW given, Sound(c, off, given),
           NEW r, r = Push(scope, s), r.reason # "refused"
    PROVE  /\ r.reason \in {"poisoned", "duplicate"} =>
                  scope \in DOMAIN chains /\ Sound(c, off \cup {s}, given)
           /\ r.reason \notin {"poisoned", "duplicate"} =>
                  Sound(r.chain, off \cup {s},
                        IF r.reason = "complete" THEN Append(given, Assembled(r.chain)) ELSE given)
<1>1. Shaped(c) /\ c.poisoned \in BOOLEAN /\ \A t \in off \cup {s} : Possible(t)
  BY DEF Sound, Shaped
<1>2. FromOffered(given, off \cup {s}) /\ Len(given) \in {0, 1}
  BY DEF Sound, FromOffered
<1>3. CASE Spoiled(c, r)
  <2>1. scope \in DOMAIN chains
    BY <1>3 DEF Spoiled, ChainOf, NewChain
  <2>2. Sound(c, off \cup {s}, given)
    BY <1>1, <1>2, <1>3 DEF Sound, Spoiled
  <2> QED BY <1>3, <2>1, <2>2 DEF Spoiled
<1>4. CASE Repeated(c, s, r)
  <2>1. scope \in DOMAIN chains
    BY <1>4 DEF Repeated, ChainOf, NewChain, Nothing
  <2>2. s = c.parts[s.ordinal]
    BY <1>1, <1>4, SameIsEqual DEF Shaped, Repeated
  <2>3. off \cup {s} = off
    BY <1>4, <2>2 DEF Sound, Range, Repeated
  <2> QED BY <1>4, <2>1, <2>3 DEF Repeated
<1>5. CASE Conflicting(c, s, r)
  <2>1. /\ DOMAIN r.chain = ChainFields /\ r.chain.parts = c.parts
        /\ r.chain.last = c.last /\ r.chain.first = c.first /\ r.chain.poisoned
    BY <1>1, <1>5 DEF Shaped, ChainFields, Conflicting
  <2>2. Shaped(r.chain)
    BY <1>1, <2>1 DEF Shaped
  <2>3. c.parts[s.ordinal] \in off /\ Contradict(s, c.parts[s.ordinal])
    BY <1>1, <1>5 DEF Sound, Range, Contradict, Shaped, Conflicting
  <2>4. \E t, u \in off \cup {s} : Contradict(t, u)
    BY <2>3
  <2>5. Sound(r.chain, off \cup {s}, given)
    BY <1>1, <1>2, <2>1, <2>2, <2>4 DEF Sound
  <2> QED BY <1>5, <2>5 DEF Conflicting
<1>6. CASE Extended(c, s, r)
  <2> DEFINE gave == IF r.reason = "complete" THEN Append(given, Assembled(r.chain)) ELSE given
  <2>1. gave = IF ~r.chain.poisoned /\ Complete(r.chain)
               THEN Append(given, Assembled(r.chain)) ELSE given
    BY <1>6 DEF Extended
  <2> HIDE DEF gave
  <2>2. Sound(r.chain, off \cup {s}, gave)
    BY <1>6, <2>1, WithPartSound DEF Extended
  <2> QED BY <1>6, <2>2 DEF gave, Extended
<1> QED BY <1>1, <1>3, <1>4, <1>5, <1>6, PushCases

(***************************************************************************)
(* The steps.                                                              *)
(***************************************************************************)
LEMMA ChainOfSound ==
    ASSUME ChainsSound, NEW scope
    PROVE  Sound(ChainOf(scope), OfferedTo(scope), Given(scope))
BY NewSound DEF ChainsSound, ChainOf, OfferedTo, Given

LEMMA KeptSound ==
    ASSUME ChainsSound, NEW scope, NEW s, Possible(s), NEW r, r = Push(scope, s),
           r.reason # "refused", Kept(scope, s, r)
    PROVE  ChainsSound'
<1> DEFINE off == OfferedTo(scope) \cup {s}
           gave == IF r.reason = "complete" THEN Append(Given(scope), Assembled(r.chain))
                   ELSE Given(scope)
<1>1. offered' = Put(offered, scope, off)
  BY DEF Kept, Offer, OfferedTo
<1>2. /\ r.reason \in {"poisoned", "duplicate"} =>
            scope \in DOMAIN chains /\ Sound(ChainOf(scope), off, Given(scope))
      /\ r.reason \notin {"poisoned", "duplicate"} => Sound(r.chain, off, gave)
  BY ChainOfSound, PushSound
<1>3. Given(scope)' = gave /\ \A k : k # scope => Given(k)' = Given(k)
  BY DEF Kept, Given, Put
<1>4. DOMAIN done' \subseteq DOMAIN done \cup {scope}
  BY DEF Kept, Put
<1>5. \A k \in DOMAIN chains : k # scope => Sound(chains[k], offered[k], Given(k))
  BY DEF ChainsSound
<1>6. DOMAIN chains = DOMAIN offered /\ DOMAIN done \subseteq DOMAIN chains
  BY DEF ChainsSound
<1> HIDE DEF off
<1>7. CASE r.reason \in {"poisoned", "duplicate"}
  <2>1. chains' = chains /\ scope \in DOMAIN chains /\ gave = Given(scope)
    BY <1>2, <1>7 DEF Kept
  <2>2. chains[scope] = ChainOf(scope)
    BY <2>1 DEF ChainOf
  <2> HIDE DEF gave
  <2>3. \A k \in DOMAIN chains' : Sound(chains'[k], offered'[k], Given(k)')
    BY <1>1, <1>2, <1>3, <1>5, <1>6, <1>7, <2>1, <2>2 DEF Put
  <2> QED BY <1>1, <1>4, <1>6, <2>1, <2>3 DEF ChainsSound, Put
<1>8. CASE r.reason \notin {"poisoned", "duplicate"}
  <2>1. chains' = Put(chains, scope, r.chain)
    BY <1>8 DEF Kept
  <2> HIDE DEF gave
  <2>2. \A k \in DOMAIN chains' : Sound(chains'[k], offered'[k], Given(k)')
    BY <1>1, <1>2, <1>3, <1>5, <1>6, <1>8, <2>1 DEF Put
  <2> QED BY <1>1, <1>4, <1>6, <2>1, <2>2 DEF ChainsSound, Put
<1> QED BY <1>7, <1>8

LEMMA ForgottenSound ==
    ASSUME ChainsSound, NEW ks, Forgotten(ks)
    PROVE  /\ ChainsSound'
           /\ DOMAIN chains' = DOMAIN chains \ ks
           /\ \A k \in DOMAIN chains' : chains'[k] = chains[k]
<1>1. /\ DOMAIN chains' = DOMAIN chains \ ks /\ DOMAIN offered' = DOMAIN offered \ ks
      /\ DOMAIN done' = DOMAIN done \ ks
      /\ \A k \in DOMAIN chains' : chains'[k] = chains[k]
      /\ \A k \in DOMAIN offered' : offered'[k] = offered[k]
      /\ \A k \in DOMAIN done' : done'[k] = done[k]
  BY DEF Forgotten, Discard, Restrict
<1>2. \A k \in DOMAIN chains' : Given(k)' = Given(k)
  BY <1>1 DEF Given
<1>3. ChainsSound'
  BY <1>1, <1>2 DEF ChainsSound
<1> QED BY <1>1, <1>3

\* A COTP session numbers its pieces so that they never meet.
LEMMA CotpStep ==
    ASSUME SegInv, session = "cotp", NEW scope, NEW p \in Pieces,
           NEW s, s = Numbered(scope, p), CotpPushed(scope, s, Push(scope, s)),
           session' = session
    PROVE  SegInv'
<1> DEFINE r == Push(scope, s)
           c == ChainOf(scope)
           n == IF scope \in DOMAIN ordinals THEN ordinals[scope] ELSE 0
<1>1. n \in Nat /\ DOMAIN ordinals = DOMAIN chains
  BY DEF SegInv, CountersSound, Counted
<1>2. /\ Possible(s) /\ s.ordinal = n /\ s.first = (n = 0)
  BY <1>1, SegmentPieces DEF Numbered, Possible, Segment
<1>3. /\ DOMAIN c.parts = 0 .. (n - 1) /\ ~c.poisoned /\ c.last = NoLast
      /\ n # 0 => c.first
  BY <1>1 DEF SegInv, CountersSound, Counted, ChainOf, NewChain, Nothing
<1>4. Shaped(c)
  BY ChainOfSound DEF SegInv, Sound
<1> HIDE DEF r, c, n
<1>5. CASE r.reason = "refused"
  <2>1. UNCHANGED <<chains, ordinals, offered, done>>
    BY <1>5 DEF CotpPushed, r
  <2> QED BY <2>1 DEF SegInv, ChainsSound, CountersSound, Given
<1>6. CASE r.reason = "complete"
  <2>1. Forgotten({scope}) /\ ordinals' = Discard(ordinals, {scope})
    BY <1>6 DEF CotpPushed, r
  <2>2. /\ ChainsSound' /\ DOMAIN chains' = DOMAIN chains \ {scope}
        /\ \A k \in DOMAIN chains' : chains'[k] = chains[k]
    BY <2>1, ForgottenSound DEF SegInv
  <2>3. /\ DOMAIN ordinals' = DOMAIN ordinals \ {scope}
        /\ \A k \in DOMAIN ordinals' : ordinals'[k] = ordinals[k]
    BY <2>1 DEF Discard, Restrict
  <2> QED BY <2>2, <2>3 DEF SegInv, CountersSound
<1>7. CASE r.reason \notin {"refused", "complete"}
  <2>1. Kept(scope, s, r) /\ ordinals' = Put(ordinals, scope, n + 1)
    BY <1>2, <1>7 DEF CotpPushed, r
  <2>2. ChainsSound'
    BY <1>2, <1>7, <2>1, KeptSound DEF SegInv, r
  <2>3. s.ordinal \notin DOMAIN c.parts
    BY <1>1, <1>2, <1>3
  <2>4. c.poisoned \in BOOLEAN /\ c = ChainOf(scope) /\ r = Push(scope, s)
    BY <1>4 DEF Shaped, r, c
  <2>5. Extended(c, s, r)
    <3>1. Spoiled(c, r) \/ Repeated(c, s, r) \/ Conflicting(c, s, r) \/ Extended(c, s, r)
      BY <1>7, <2>4, PushCases
    <3> QED BY <1>3, <2>3, <3>1 DEF Spoiled, Repeated, Conflicting
  <2>6. chains' = Put(chains, scope, r.chain)
    BY <2>1, <2>5 DEF Kept, Extended
  <2>7. /\ Shaped(r.chain) /\ r.chain.parts = Put(c.parts, n, s)
        /\ r.chain.last = (IF s.final THEN n ELSE NoLast) /\ r.chain.first = (c.first \/ s.first)
        /\ r.chain.poisoned <=>
              \/ r.chain.last # NoLast /\ \E o \in DOMAIN c.parts \cup {n} : o > r.chain.last
              \/ s.final /\ c.last \notin {NoLast, n}
    <3> DEFINE next == r.chain
    <3>1. next = WithPart(c, s)
      BY <2>5 DEF Extended
    <3> HIDE DEF next
    <3>2. /\ Shaped(next) /\ next.parts = Put(c.parts, s.ordinal, s)
          /\ next.last = (IF s.final THEN s.ordinal ELSE c.last) /\ next.first = (c.first \/ s.first)
          /\ next.poisoned <=>
                \/ next.last # NoLast /\ \E o \in DOMAIN c.parts \cup {s.ordinal} : o > next.last
                \/ s.final /\ c.last \notin {NoLast, s.ordinal}
      BY <1>2, <1>4, <3>1, WithPartShape
    <3> QED BY <1>2, <1>3, <3>2 DEF next
  <2>8. DOMAIN r.chain.parts = 0 .. n /\ ~r.chain.poisoned
    <3>1. DOMAIN r.chain.parts = 0 .. n
      BY <1>1, <1>3, <2>7 DEF Put
    <3>2. \A o \in DOMAIN c.parts \cup {n} : ~(o > n)
      BY <1>1, <1>3
    <3> QED BY <1>3, <2>7, <3>1, <3>2
  <2>9. r.chain.first
    BY <1>2, <1>3, <2>7
  <2>10. r.chain.last = NoLast
    <3> SUFFICES ASSUME r.chain.last # NoLast PROVE FALSE
      OBVIOUS
    <3>1. r.chain.last = n
      BY <2>7
    <3>2. Cardinality(DOMAIN r.chain.parts) = n + 1
      BY <1>1, <2>8, FS_Interval
    <3>3. Complete(r.chain)
      BY <2>8, <2>9, <3>1, <3>2 DEF Complete
    <3> QED BY <1>7, <2>5, <2>8, <3>3 DEF Extended
  <2>11. Counted(r.chain, n + 1)
    BY <1>1, <2>8, <2>9, <2>10 DEF Counted
  <2>12. CountersSound'
    BY <1>1, <2>1, <2>6, <2>11 DEF SegInv, CountersSound, Put
  <2> QED BY <2>2, <2>12 DEF SegInv
<1> QED BY <1>5, <1>6, <1>7

LEMMA SegInit == SegmentsInit => SegInv
BY DEF SegmentsInit, SegInv, ChainsSound, CountersSound, Nothing

LEMMA SegStep == SegInv /\ [SegmentsNext]_segmentVars => SegInv'
<1> SUFFICES ASSUME SegInv, [SegmentsNext]_segmentVars PROVE SegInv'
  OBVIOUS
<1>1. ASSUME NEW scope \in Scopes, NEW s \in Pieces, BacnetPush(scope, s) PROVE SegInv'
  <2>1. session = "bacnet" /\ session' = "bacnet" /\ BacnetPushed(scope, s, Push(scope, s))
    BY <1>1 DEF BacnetPush
  <2>2. Possible(s)
    BY SegmentPieces DEF Possible
  <2>3. ChainsSound'
    <3>1. CASE Push(scope, s).reason = "refused"
      BY <2>1, <3>1 DEF BacnetPushed, SegInv, ChainsSound, Given
    <3>2. CASE Push(scope, s).reason # "refused"
      <4>1. Kept(scope, s, Push(scope, s))
        BY <2>1, <3>2 DEF BacnetPushed
      <4> QED BY <2>2, <3>2, <4>1, KeptSound DEF SegInv
    <3> QED BY <3>1, <3>2
  <2> QED BY <2>1, <2>3 DEF SegInv, CountersSound
<1>2. ASSUME NEW scope \in Scopes, NEW s \in Pieces, CotpPush(scope, s) PROVE SegInv'
  BY <1>2, CotpStep DEF CotpPush
<1>3. ASSUME NEW scope \in Scopes, CutScope(scope) PROVE SegInv'
  <2>1. /\ ChainsSound' /\ DOMAIN chains' = DOMAIN chains \ {scope}
        /\ \A k \in DOMAIN chains' : chains'[k] = chains[k]
    BY <1>3, ForgottenSound DEF CutScope, SegInv
  <2>2. /\ DOMAIN ordinals' = DOMAIN ordinals \ {scope} /\ session' = session
        /\ \A k \in DOMAIN ordinals' : ordinals'[k] = ordinals[k]
    BY <1>3 DEF CutScope, Discard, Restrict
  <2> QED BY <2>1, <2>2 DEF SegInv, CountersSound
<1>4. CASE Expire
  <2>1. ChainsSound'
    BY <1>4, ForgottenSound DEF Expire, SegInv
  <2>2. session' = "bacnet"
    BY <1>4 DEF Expire
  <2> QED BY <2>1, <2>2 DEF SegInv, CountersSound
<1>5. CASE UNCHANGED segmentVars
  BY <1>5 DEF SegInv, ChainsSound, CountersSound, Given, segmentVars
<1> QED BY <1>1, <1>2, <1>3, <1>4, <1>5 DEF SegmentsNext

\* Whatever the order, number and limits of the segments pushed: a chain is
\* poisoned exactly when two of its segments contradict each other, a message
\* is given once and is every number up to the last, and a COTP session never
\* meets a contradiction.
THEOREM SegmentsSoundThm == SegmentsSpec => []SegmentsSound
<1>1. SegInv => SegmentsSound
  <2> SUFFICES ASSUME SegInv PROVE SegmentsSound
    OBVIOUS
  <2>1. ASSUME NEW k \in DOMAIN chains
        PROVE  /\ chains[k].poisoned <=> \E s, t \in offered[k] : Contradict(s, t)
               /\ ~chains[k].poisoned => offered[k] = Range(chains[k].parts)
               /\ Complete(chains[k]) => Given(k) = <<Assembled(chains[k])>>
               /\ Len(Given(k)) <= 1
               /\ FromOffered(Given(k), offered[k])
    <3>1. Sound(chains[k], offered[k], Given(k))
      BY DEF SegInv, ChainsSound
    <3>2. ~chains[k].poisoned => ~ \E s, t \in offered[k] : Contradict(s, t)
      BY <3>1, EndedAgrees DEF Sound
    <3>3. Len(Given(k)) <= 1
      <4>1. Len(Given(k)) = 0 \/ Len(Given(k)) = 1
        BY <3>1 DEF Sound
      <4> QED BY <4>1
    <3>4. Complete(chains[k]) => ~chains[k].poisoned
      BY DEF Complete
    <3> QED BY <3>1, <3>2, <3>3, <3>4 DEF Sound
  <2>2. session = "cotp" =>
          /\ DOMAIN ordinals = DOMAIN chains
          /\ \A k \in DOMAIN chains :
                ~chains[k].poisoned /\ DOMAIN chains[k].parts = 0 .. ordinals[k] - 1
    BY DEF SegInv, CountersSound, Counted
  <2>3. DOMAIN chains = DOMAIN offered
    BY DEF SegInv, ChainsSound
  <2> QED BY <2>1, <2>2, <2>3 DEF SegmentsSound, FromOffered
<1> QED BY SegInit, SegStep, <1>1, PTL DEF SegmentsSpec
===============================================================================
