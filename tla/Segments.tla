------------------------------ MODULE Segments ------------------------------
(***************************************************************************)
(* Messages put together from numbered segments (Segments of               *)
(* reassembly.rs), and the two sessions that number them: BACnet takes the *)
(* number from the segment, in any order; COTP counts the ordered pieces   *)
(* of a scope itself.                                                      *)
(*                                                                         *)
(* The variables offered and done are not the code's: what was offered to  *)
(* a chain since it began and not refused, and the messages it gave.       *)
(***************************************************************************)
EXTENDS Integers, Sequences, FiniteSets, FiniteSetsExt, Functions

CONSTANTS
    InputBytes, Elements, Spans, Active, Retained,   \* Limits
    Scopes, Pieces,  \* what may come
    MaxIdle,         \* frames without a new segment that a chain survives
    MaxFrame         \* how many segments come

\* text stands for the octets, of which there are len.
Segment == [ordinal : Nat, first : BOOLEAN, final : BOOLEAN, text : Nat, len : Nat]

ASSUME SegmentPieces ==
    /\ Pieces \subseteq Segment
    /\ \A s, t \in Pieces : s.text = t.text => s.len = t.len

VARIABLES
    session,         \* "bacnet" or "cotp"
    chains, retained,
    ordinals,        \* the counters of a COTP session
    frame, offered, done

segmentVars == <<session, chains, retained, ordinals, frame, offered, done>>

Nothing == << >>
NoLast == -1
Discard(f, keys) == Restrict(f, DOMAIN f \ keys)
Put(f, k, v) == [x \in DOMAIN f \cup {k} |-> IF x = k THEN v ELSE f[x]]

NewChain ==
    [parts |-> Nothing, conflicts |-> <<>>, last |-> NoLast, first |-> FALSE, poisoned |-> FALSE,
     frame |-> 0]

\* Chain::bytes.
Bytes(c) ==
    MapThenSumSet(LAMBDA o : c.parts[o].len, DOMAIN c.parts)
    + MapThenSumSet(LAMBDA i : c.conflicts[i].len, DOMAIN c.conflicts)

Same(s, t) == s.text = t.text /\ s.first = t.first /\ s.final = t.final

\* Mutant of WithPart: a new last number is not compared with the parts that
\* are there already.
WithPartAhead(c, s) ==
    LET last == IF s.final THEN s.ordinal ELSE c.last
    IN  [c EXCEPT !.parts = Put(@, s.ordinal, s),
                  !.last = last,
                  !.poisoned = (last # NoLast /\ s.ordinal > last)
                                   \/ (s.final /\ c.last \notin {NoLast, s.ordinal}),
                  !.first = @ \/ s.first,
                  !.frame = IF frame > @ THEN frame ELSE @]

\* A chain with one more part, before it is known whether that completes it.
WithPart(c, s) ==
    LET last == IF s.final THEN s.ordinal ELSE c.last
        beyond == last # NoLast /\ \E o \in DOMAIN c.parts \cup {s.ordinal} : o > last
    IN  [c EXCEPT !.parts = Put(@, s.ordinal, s),
                  !.last = last,
                  !.poisoned = beyond \/ (s.final /\ c.last \notin {NoLast, s.ordinal}),
                  !.first = @ \/ s.first,
                  !.frame = IF frame > @ THEN frame ELSE @]

Complete(c) == ~c.poisoned /\ c.first /\ c.last # NoLast /\ c.last + 1 = Cardinality(DOMAIN c.parts)
Assembled(c) == [i \in 1 .. c.last + 1 |-> c.parts[i - 1].text]

\* Segments::push: what it returns, and the chain and the bytes it leaves.
Push(scope, s) ==
    LET known == scope \in DOMAIN chains
        c == IF known THEN chains[scope] ELSE NewChain
        held == s.ordinal \in DOMAIN c.parts
        again == held /\ Same(s, c.parts[s.ordinal])
        conflict == ~c.poisoned /\ held /\ ~again
        next == WithPart(c, s)
        total == retained + s.len
        refused ==
            \/ s.len > InputBytes \/ s.ordinal >= Elements
            \/ s.first /\ s.ordinal # 0
            \/ ~known /\ Cardinality(DOMAIN chains) >= Active
            \/ conflict /\ (total > Retained \/ Len(c.conflicts) >= Elements)
            \/ ~c.poisoned /\ ~held /\ (\/ total > Retained
                                        \/ Bytes(c) + s.len > InputBytes
                                        \/ Cardinality(DOMAIN c.parts) >= Elements
                                        \/ Complete(next) /\ Cardinality(DOMAIN next.parts) > Spans)
        result(reason, chain, bytes) == [reason |-> reason, chain |-> chain, retained |-> bytes]
    IN  CASE refused -> result("refused", c, retained)
          [] ~refused /\ c.poisoned -> result("poisoned", c, retained)
          [] ~refused /\ ~c.poisoned /\ again -> result("duplicate", c, retained)
          [] ~refused /\ conflict ->
                result("conflict", [c EXCEPT !.conflicts = Append(@, s), !.poisoned = TRUE], total)
          [] OTHER ->
                result(IF next.poisoned THEN "contradiction"
                       ELSE IF Complete(next) THEN "complete" ELSE "waiting", next, total)

Offer(scope, s) == IF scope \in DOMAIN offered THEN offered[scope] \cup {s} ELSE {s}
Given(scope) == IF scope \in DOMAIN done THEN done[scope] ELSE <<>>

\* A segment was pushed and the chain stays.
Kept(scope, s, r) ==
    /\ chains' = IF r.reason \in {"poisoned", "duplicate"} THEN chains
                 ELSE Put(chains, scope, r.chain)
    /\ retained' = r.retained
    /\ offered' = Put(offered, scope, Offer(scope, s))
    /\ done' = IF r.reason = "complete"
               THEN Put(done, scope, Append(Given(scope), Assembled(r.chain))) ELSE done

Forgotten(scopes) ==
    /\ chains' = Discard(chains, scopes)
    /\ retained' = retained - MapThenSumSet(LAMBDA k : Bytes(chains[k]), scopes \cap DOMAIN chains)
    /\ offered' = Discard(offered, scopes)
    /\ done' = Discard(done, scopes)

\* bacnet::Session::push.
BacnetPushed(scope, s, r) ==
    IF r.reason = "refused" THEN UNCHANGED <<chains, retained, offered, done>>
    ELSE Kept(scope, s, r)

BacnetPush(scope, s) ==
    /\ session = "bacnet"
    /\ frame < MaxFrame
    /\ BacnetPushed(scope, s, Push(scope, s))
    /\ frame' = frame + 1
    /\ UNCHANGED <<session, ordinals>>

\* CotpSession::push after Segments answered: a complete message is cut at
\* once, and only an admitted piece moves the counter.
CotpPushed(scope, s, r) ==
    \/ /\ r.reason = "refused"
       /\ UNCHANGED <<chains, retained, ordinals, offered, done>>
    \/ /\ r.reason = "complete"
       /\ ordinals' = Discard(ordinals, {scope})
       /\ Forgotten({scope})
    \/ /\ r.reason \notin {"refused", "complete"}
       /\ ordinals' = Put(ordinals, scope, s.ordinal + 1)
       /\ Kept(scope, s, r)

Numbered(scope, s) ==
    LET n == IF scope \in DOMAIN ordinals THEN ordinals[scope] ELSE 0
    IN  [s EXCEPT !.ordinal = n, !.first = n = 0]

CotpPush(scope, s) ==
    /\ session = "cotp"
    /\ frame < MaxFrame
    /\ CotpPushed(scope, Numbered(scope, s), Push(scope, Numbered(scope, s)))
    /\ frame' = frame + 1
    /\ UNCHANGED session

\* Segments::cut for BACnet, gap for COTP.
CutScope(scope) ==
    /\ scope \in DOMAIN chains
    /\ Forgotten({scope})
    /\ ordinals' = Discard(ordinals, {scope})
    /\ UNCHANGED <<session, frame>>

\* Segments::expire.
Expire ==
    LET expired == {k \in DOMAIN chains : frame - chains[k].frame > MaxIdle}
    IN  /\ session = "bacnet"
        /\ expired # {}
        /\ Forgotten(expired)
        /\ UNCHANGED <<session, frame, ordinals>>

SegmentsInit ==
    /\ session \in {"bacnet", "cotp"}
    /\ chains = Nothing /\ retained = 0 /\ ordinals = Nothing
    /\ frame = 0 /\ offered = Nothing /\ done = Nothing

SegmentsNext ==
    \/ \E scope \in Scopes, s \in Pieces : BacnetPush(scope, s) \/ CotpPush(scope, s)
    \/ \E scope \in Scopes : CutScope(scope)
    \/ Expire

SegmentsSpec == SegmentsInit /\ [][SegmentsNext]_segmentVars

(***************************************************************************)
(* Properties.                                                             *)
(***************************************************************************)
\* Two segments that cannot belong to one message.
Contradict(s, t) ==
    \/ s.ordinal = t.ordinal /\ ~Same(s, t)
    \/ t.final /\ s.ordinal > t.ordinal

\* A chain is poisoned exactly when two of the segments it was offered
\* contradict each other, in whichever order they came, so that which message
\* comes out does not depend on the order of segments.  A chain gives at most
\* one message; that is made of every number up to the last one, of segments
\* that were offered, and none of them contradicted the others when it was
\* given.  A COTP session counts exactly the pieces its chain has, and never
\* runs into a contradiction.
SegmentsSound ==
    /\ DOMAIN chains = DOMAIN offered
    /\ \A k \in DOMAIN chains :
          /\ chains[k].poisoned <=> \E s, t \in offered[k] : Contradict(s, t)
          /\ ~chains[k].poisoned => offered[k] = Range(chains[k].parts)
          /\ Complete(chains[k]) => Given(k) = <<Assembled(chains[k])>>
          /\ Len(Given(k)) <= 1
          /\ \A i \in DOMAIN Given(k) : \A n \in DOMAIN Given(k)[i] :
                \E s \in offered[k] : s.ordinal = n - 1 /\ s.text = Given(k)[i][n]
    /\ session = "cotp" =>
          /\ DOMAIN ordinals = DOMAIN chains
          /\ \A k \in DOMAIN chains :
                /\ ~chains[k].poisoned
                /\ DOMAIN chains[k].parts = 0 .. ordinals[k] - 1

\* The bytes charged are those of the chains, within the limit.
BytesCharged ==
    /\ retained = MapThenSumSet(LAMBDA k : Bytes(chains[k]), DOMAIN chains)
    /\ retained <= Retained
=============================================================================
