----------------------------- MODULE Generations -----------------------------
(* TupleState of history/src/state.rs: the connection generations that the    *)
(* segments of one address tuple may belong to, and where in the 64-bit       *)
(* offset space of each a segment may lie.  Pure operators; the reason        *)
(* strings and state hashes of a Decision are left out.                       *)
EXTENDS Integers, Sequences, FiniteSets

CONSTANTS
    None,            \* the absent value of an Option
    Modulus,         \* 2^32, the size of the sequence space
    Horizon,         \* config.sequence_horizon
    MaxGenerations,  \* config.max_generations
    MaxEpochs,       \* config.max_epoch_candidates
    NearestFrontier  \* config.epoch_policy: TRUE for NearestFrontier

ASSUME GenerationsAssumption ==
    /\ Modulus \in Nat \ {0, 1}
    /\ Horizon \in 1 .. (Modulus \div 2 - 1)
    /\ MaxGenerations \in Nat \ {0}
    /\ MaxEpochs \in Nat \ {0}
    /\ NearestFrontier \in BOOLEAN
    /\ None \notin Int

Directions == 0 .. 1
Both(x) == [d \in Directions |-> x]

(* What of a TcpInput ingest looks at. *)
Segment == [direction : Directions, sequence : 0 .. (Modulus - 1), len : Nat,
            acknowledgement : 0 .. (Modulus - 1), when : Nat \cup {None},
            syn : BOOLEAN, ack : BOOLEAN, fin : BOOLEAN, rst : BOOLEAN]

Closed(g) == g.reset \/ \A d \in Directions : g.fin[d] # None

DataSequence(p) == (p.sequence + (IF p.syn THEN 1 ELSE 0)) % Modulus

(* A generation born of segment p, the n-th of its tuple. *)
NewGeneration(p, frame, n) ==
    [id |-> << frame, n >>, syn |-> Both(None), anchor |-> Both(None),
     low |-> Both(0), high |-> Both(0), fin |-> Both(None), reset |-> FALSE,
     midstream |-> ~p.syn \/ p.ack, last |-> None]

(* Mutant of Epochs: the first multiple is rounded up once too often. *)
EpochsRoundedUp(sequence, anchor, low, high) ==
    LET residue == (sequence - anchor) % Modulus
    IN  << (low - residue + Modulus) \div Modulus, (high - residue) \div Modulus >>

(* epoch_candidates: the first and the last multiple of the modulus that puts *)
(* the sequence number between low and high.                                  *)
Epochs(sequence, anchor, low, high) ==
    LET residue == (sequence - anchor) % Modulus
    IN  << (low - residue + Modulus - 1) \div Modulus, (high - residue) \div Modulus >>

(* Where the segment may lie in a generation anchored in its direction. *)
Low(g, d) == IF g.syn[d] # None THEN 0 ELSE g.low[d] - Horizon
High(g, d) == IF Closed(g) THEN g.high[d] ELSE g.high[d] + Horizon

Reach(g, p) ==
    Epochs(DataSequence(p), g.anchor[p.direction], Low(g, p.direction), High(g, p.direction))

EpochOffsets(g, p) ==
    LET residue == (DataSequence(p) - g.anchor[p.direction]) % Modulus
    IN  { residue + e * Modulus : e \in Reach(g, p)[1] .. Reach(g, p)[2] }

(* A segment with SYN that contradicts what the generation has observed. *)
Foreign(g, p) ==
    LET d == p.direction
    IN  /\ p.syn
        /\ \/ Closed(g)
           \/ g.syn[d] # None /\ g.syn[d] # p.sequence
           \/ /\ g.syn[1 - d] # None
              /\ ~p.ack \/ p.acknowledgement # (g.syn[1 - d] + 1) % Modulus

(* The offsets of the segment in one generation. *)
Offsets(g, p) ==
    IF Foreign(g, p) THEN {}
    ELSE IF g.anchor[p.direction] # None THEN EpochOffsets(g, p)
    ELSE IF ~Closed(g) THEN {0}
    ELSE {}

Candidate(i, at) == [g |-> i, at |-> at]

(* A SYN from the other side of an opening that has seen no data. *)
Simultaneous(g, p) ==
    /\ ~Closed(g) /\ ~g.midstream
    /\ g.syn[p.direction] = None /\ g.syn[1 - p.direction] # None
    /\ g.high = Both(0)

Observed(gs, p) == UNION { { Candidate(i, at) : at \in Offsets(gs[i], p) } : i \in DOMAIN gs }

(* The open generations whose SYN in this direction p repeats. *)
SameSyn(gs, p) == { i \in DOMAIN gs : ~Closed(gs[i]) /\ gs[i].syn[p.direction] = p.sequence }

(* Whether a new generation has to be made for p. *)
Creates(gs, p) ==
    IF p.syn /\ ~p.ack
    THEN SameSyn(gs, p) = {} /\ ~(gs # << >> /\ Simultaneous(gs[Len(gs)], p))
    ELSE gs = << >> \/ (Observed(gs, p) = {} /\ p.syn)

(* Every placement of p among the generations gs; that in a new generation    *)
(* is the only one.                                                           *)
Candidates(gs, p) ==
    IF Creates(gs, p) THEN { Candidate(Len(gs) + 1, 0) }
    ELSE IF ~(p.syn /\ ~p.ack) THEN Observed(gs, p)
    ELSE IF SameSyn(gs, p) # {} THEN { Candidate(i, 0) : i \in SameSyn(gs, p) }
    ELSE { Candidate(Len(gs), 0) }

(* A limit that makes ingest fail and leave the state alone. *)
OverLimit(gs, p) ==
    \/ Creates(gs, p) /\ Len(gs) >= MaxGenerations
    \/ /\ ~(p.syn /\ ~p.ack)
       /\ \E i \in DOMAIN gs :
             /\ ~Foreign(gs[i], p) /\ gs[i].anchor[p.direction] # None
             /\ Reach(gs[i], p)[2] - Reach(gs[i], p)[1] + 1 > MaxEpochs

Distance(a, b) == IF a > b THEN a - b ELSE b - a

(* The selected placement, if there is one: the only one, or the one nearest  *)
(* to the frontier of the one generation they are all in.                     *)
Selected(gs, cs, d) ==
    LET far(c) == Distance(c.at, gs[c.g].high[d])
    IN  { c \in cs : \/ cs = {c}
                     \/ /\ NearestFrontier
                        /\ \A x \in cs : x.g = c.g
                        /\ \A x \in cs : x # c => far(c) < far(x) }

Larger(a, b) == IF a = None \/ b > a THEN b ELSE a

(* The selected generation takes note of the segment at its offset. *)
Moved(g, p, at) ==
    LET d == p.direction
        end == at + p.len
        set(f, v) == [f EXCEPT ![d] = v]
    IN  [g EXCEPT !.last = IF p.when = None THEN @ ELSE Larger(@, p.when),
                  !.syn = IF p.syn THEN set(@, p.sequence) ELSE @,
                  !.anchor = IF @[d] = None THEN set(@, DataSequence(p)) ELSE @,
                  !.low = IF at < @[d] THEN set(@, at) ELSE @,
                  !.high = IF end > @[d] THEN set(@, end) ELSE @,
                  !.fin = IF p.fin /\ @[d] = None THEN set(@, end) ELSE @,
                  !.reset = @ \/ p.rst]

(* TupleState::ingest where no limit is exceeded: the generations after it    *)
(* and the placements of the decision.                                        *)
Ingest(gs, p, frame) ==
    LET cs == Candidates(gs, p)
        all == IF Creates(gs, p) THEN Append(gs, NewGeneration(p, frame, Len(gs))) ELSE gs
        chosen == Selected(all, cs, p.direction)
        c == CHOOSE x \in chosen : TRUE
    IN  [generations |-> IF chosen = {} THEN all ELSE [all EXCEPT ![c.g] = Moved(@, p, c.at)],
         placements |-> { [g |-> x.g, at |-> x.at, selected |-> x \in chosen] : x \in cs },
         assumption |-> chosen # {} /\ cs # chosen]
==============================================================================
