------------------------------- MODULE TupleMap -------------------------------
(* What the tuple store of history/src/state.rs promises: every tuple has its *)
(* generations, and a segment changes those of its own tuple as               *)
(* TupleState::ingest says.  There is no cache, no file and no quota.  A      *)
(* store that has failed holds nothing and answers nothing any more.          *)
EXTENDS Generations

CONSTANTS
    Keys,
    Segments,   \* the segments each tuple may see
    StepBound   \* model bound on the number of segments

VARIABLES
    map,      \* the generations of every tuple
    failed,   \* Store.failed
    frame,    \* number of segments taken in
    decision  \* the last segment with its Decision

mapVars == << map, failed, frame, decision >>

NoDecision == [key |-> None, segment |-> None, placements |-> {}, assumption |-> FALSE]

MapInit ==
    /\ map = [k \in Keys |-> << >>]
    /\ failed = FALSE
    /\ frame = 0
    /\ decision = NoDecision

IngestSegment(k, p) ==
    LET r == Ingest(map[k], p, frame + 1)
    IN  /\ ~failed /\ frame < StepBound
        /\ ~OverLimit(map[k], p)
        /\ map' = [map EXCEPT ![k] = r.generations]
        /\ frame' = frame + 1
        /\ decision' = [key |-> k, segment |-> p, placements |-> r.placements,
                        assumption |-> r.assumption]
        /\ UNCHANGED failed

FailStore ==
    /\ ~failed
    /\ failed' = TRUE
    /\ map' = [k \in Keys |-> << >>]
    /\ decision' = NoDecision
    /\ UNCHANGED frame

MapNext ==
    \/ \E k \in Keys : \E p \in Segments[k] : IngestSegment(k, p)
    \/ FailStore

MapSpec == MapInit /\ [][MapNext]_mapVars

------------------------------------------------------------------------------
AllAlternatives ==
    \A k \in Keys : \A p \in Segments[k] :
        decision'.key = k /\ decision'.segment = p /\ ~p.syn =>
            \A i \in DOMAIN map[k] : map[k][i].anchor[p.direction] # None =>
                LET g == map[k][i]
                    d == p.direction
                IN  { x.at : x \in { y \in decision'.placements : y.g = i } }
                    = { at \in Low(g, d) .. High(g, d) :
                          (at - (p.sequence - g.anchor[d])) % Modulus = 0 }

OneCoordinateSystem ==
    LET k == decision'.key
        p == decision'.segment
    IN  \A x \in decision'.placements :
          (x.selected /\ ~(p.syn /\ ~p.ack)) =>
             (x.at - (DataSequence(p) - map'[k][x.g].anchor[p.direction])) % Modulus = 0

(* No alternative is dropped and none is made up: in a direction that a       *)
(* generation has anchored, the placements of a segment without SYN are all   *)
(* the offsets within reach that agree with its sequence number modulo 2^32.  *)
(* And the offsets of a generation are one coordinate system: what is         *)
(* selected agrees with the anchor, save a bare SYN, which is put at zero.    *)
PlacementsExact == [][frame' # frame => AllAlternatives /\ OneCoordinateSystem]_mapVars
===============================================================================
