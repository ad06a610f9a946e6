------------------------------ MODULE Fragment ------------------------------
(***************************************************************************)
(* The bounded IP fragment reassembler (src/src/fragment.rs).              *)
(*                                                                         *)
(* A reassembler is a record [sets, deadlines, retained].  Its three       *)
(* operations are operators from a reassembler to its next value and the   *)
(* outcome the caller sees, so that the snapshot engine, the streaming     *)
(* runner and the history pipeline can all be composed from them.          *)
(*                                                                         *)
(* Payload bytes are members of a small set, one unit of length each.      *)
(* Notice codes are dropped: callers treat every rejection alike.          *)
(***************************************************************************)
EXTENDS Integers, Sequences, FiniteSets, FiniteSetsExt

CONSTANTS
    Keys,           \* fragment.rs Key: scope, endpoints, protocol, id
    Ipv6Keys,       \* the keys with ipv6 = true
    Byte,           \* payload byte values
    MaxDatagram,    \* stands for 65_535
    V6Base,         \* stands for the 48 octets an IPv6 template always carries
    Lifetime,       \* limits.fragment_frame_lifetime
    U64Max,         \* the largest frame number
    MaxSets,        \* limits.max_fragment_sets
    MaxPerSet,      \* limits.max_fragments_per_set
    MaxRetained     \* limits.max_retained_payload

ASSUME FragmentKeys == Ipv6Keys \subseteq Keys
ASSUME FragmentLimits ==
    /\ MaxDatagram \in Nat /\ V6Base \in Nat
    /\ {Lifetime, MaxSets, MaxPerSet, MaxRetained} \subseteq Nat \ {0}
    /\ U64Max \in Nat

NoEnd == -1

Part == [start : Nat, more : BOOLEAN, data : Seq(Byte), packet : Nat]

Assembly ==
    [parts : SUBSET Part, end : Nat \cup {NoEnd}, first_frame : Nat, packets : SUBSET Nat,
     poisoned : BOOLEAN, owner : Nat, hdr : Nat, bad : BOOLEAN]

Input == [key : Keys, offset : Nat, data : Seq(Byte), more : BOOLEAN, hdr : Nat, bad : BOOLEAN]

(***************************************************************************)
(* Parts and byte ranges.  Callers push once per frame, so the frame of    *)
(* the call names the part.  `ids` are the packets of the payload's source *)
(* spans: the one captured in that frame (OnePacket), or several when the  *)
(* fragment was itself inside a reassembled datagram.                      *)
(***************************************************************************)
PartEnd(p) == p.start + Len(p.data)
Covers(p, x) == p.start <= x /\ x < PartEnd(p)
ByteAt(p, x) == p.data[x - p.start + 1]
PartOf(d, frame) == [start |-> d.offset, more |-> d.more, data |-> d.data, packet |-> frame]
OnePacket(frame) == {frame}
PartBytes(parts) == MapThenSumSet(LAMBDA p : Len(p.data), parts)
HeldBytes(r, ks) == MapThenSumSet(LAMBDA k : PartBytes(r.sets[k].parts), ks)

New == [sets |-> [k \in {} |-> k], deadlines |-> {}, retained |-> 0]

\* The deadline of a set, absent when the checked addition overflows.
DeadlineOf(frame) ==
    IF frame + Lifetime + 1 <= U64Max THEN {frame + Lifetime + 1} ELSE {}

\* Mutant of RemoveSets: the deadline entry of a removed set stays behind.
RemoveKeepingDeadline(r, ks) ==
    [sets |-> [k \in DOMAIN r.sets \ ks |-> r.sets[k]],
     deadlines |-> r.deadlines,
     retained |-> r.retained - HeldBytes(r, ks)]

RemoveSets(r, ks) ==
    [sets |-> [k \in DOMAIN r.sets \ ks |-> r.sets[k]],
     deadlines |-> r.deadlines
        \ UNION {DeadlineOf(r.sets[k].first_frame) \X {k} : k \in ks},
     retained |-> r.retained - HeldBytes(r, ks)]

\* The loop of expire: every due entry is popped, every set it names removed.
Expire(r, frame) ==
    LET due   == {e \in r.deadlines : e[1] <= frame}
        ks    == {e[2] : e \in due} \cap DOMAIN r.sets
        after == RemoveSets(r, ks)
    IN  [r |-> [after EXCEPT !.deadlines = @ \ due],
         notices |-> {r.sets[k].packets : k \in ks}]

(***************************************************************************)
(* push: admission.  A set is created empty before the fragment joins it.  *)
(***************************************************************************)
Fresh(d, frame) ==
    [parts |-> {}, end |-> NoEnd, first_frame |-> frame, packets |-> {},
     poisoned |-> FALSE, owner |-> frame, hdr |-> d.hdr, bad |-> d.bad]

SetOf(r, d, frame) ==
    IF d.key \in DOMAIN r.sets THEN r.sets[d.key] ELSE Fresh(d, frame)

InvalidRange(d) == d.offset + Len(d.data) > MaxDatagram \/ d.data = <<>>

\* The bytes retained if the fragment is kept; a quarantined set keeps none.
NewSize(r, d, frame) ==
    r.retained + IF SetOf(r, d, frame).poisoned THEN 0 ELSE Len(d.data)

OverLimit(r, d, frame, ids) ==
    LET set == SetOf(r, d, frame)
    IN  \/ Cardinality(set.packets \cup ids) > MaxPerSet
        \/ Cardinality(set.parts) >= MaxPerSet
        \/ NewSize(r, d, frame) > MaxRetained
        \/ d.key \notin DOMAIN r.sets /\ Cardinality(DOMAIN r.sets) >= MaxSets

(***************************************************************************)
(* push: contradictions.  A fragment that contradicts the terminal length  *)
(* or the bytes of an earlier part quarantines the whole set.              *)
(***************************************************************************)
NewEnd(set, d) == IF d.more THEN set.end ELSE d.offset + Len(d.data)

TerminalConflict(set, d) ==
    ~d.more /\ set.end # NoEnd /\ set.end # d.offset + Len(d.data)

PastEnd(p, total) == PartEnd(p) > total \/ (p.more /\ PartEnd(p) >= total)

OutsideEnd(set, d, frame) ==
    LET total == NewEnd(set, d)
    IN  /\ total # NoEnd
        /\ \E p \in set.parts \cup {PartOf(d, frame)} : PastEnd(p, total)

Overlap(p, q) == {x \in p.start .. (PartEnd(p) - 1) : Covers(q, x)}
Disagree(p, q) == \E x \in Overlap(p, q) : ByteAt(p, x) # ByteAt(q, x)

\* Mutant of Contradicts: IPv4 parts may disagree on a byte.
ContradictsIgnoringBytes(set, d, frame) ==
    TerminalConflict(set, d) \/ OutsideEnd(set, d, frame)

Contradicts(set, d, frame) ==
    \/ TerminalConflict(set, d)
    \/ OutsideEnd(set, d, frame)
    \/ \E p \in set.parts :
          IF d.key \in Ipv6Keys
          THEN Overlap(p, PartOf(d, frame)) # {}
          ELSE Disagree(p, PartOf(d, frame))

(***************************************************************************)
(* push: completion.  cursor = total says that the parts, sorted by start, *)
(* cover every byte below total and not total itself; the join takes each  *)
(* byte from the first part in (start, arrival) order that reaches it.     *)
(***************************************************************************)
Ready(parts, total) ==
    /\ total # NoEnd
    /\ \A x \in 0 .. (total - 1) : \E p \in parts : Covers(p, x)
    /\ ~ \E p \in parts : Covers(p, total)

Precedes(p, q) == p.start < q.start \/ (p.start = q.start /\ p.packet < q.packet)

Supplier(parts, x) ==
    CHOOSE p \in parts :
        /\ Covers(p, x)
        /\ \A q \in parts : Covers(q, x) => p = q \/ Precedes(p, q)

Joined(parts, total) == [x \in 0 .. (total - 1) |-> ByteAt(Supplier(parts, x), x)]

Overhead(set, key) ==
    IF key \notin Ipv6Keys THEN set.hdr
    ELSE IF set.hdr > V6Base THEN set.hdr - V6Base ELSE 0

(***************************************************************************)
(* push.  Packets, sticky header flags and the terminal length are noted   *)
(* before any contradiction is looked for; a set that is already           *)
(* quarantined only notes the packet.                                      *)
(***************************************************************************)
Noted(set, d, frame, ids) ==
    IF set.poisoned THEN [set EXCEPT !.packets = @ \cup ids]
    ELSE [set EXCEPT !.packets = @ \cup ids, !.end = NewEnd(set, d),
                     !.bad = @ \/ d.bad,
                     !.owner = IF d.offset = 0 THEN frame ELSE @,
                     !.hdr = IF d.offset = 0 THEN d.hdr ELSE @]

Store(r, d, frame, set) ==
    [sets |-> [k \in DOMAIN r.sets \cup {d.key} |->
                 IF k = d.key THEN set ELSE r.sets[k]],
     deadlines |-> IF d.key \in DOMAIN r.sets THEN r.deadlines
                   ELSE r.deadlines \cup (DeadlineOf(frame) \X {d.key}),
     retained |-> r.retained]

Quarantined(set) == [set EXCEPT !.poisoned = TRUE]

Outcome(tag, r, packets) == [tag |-> tag, r |-> r, packets |-> packets]

PushAdmitted(r, d, frame, ids) ==
    LET old    == SetOf(r, d, frame)
        noted  == Noted(old, d, frame, ids)
        parts  == noted.parts \cup {PartOf(d, frame)}
        kept   == [noted EXCEPT !.parts = parts]
        size   == NewSize(r, d, frame)
        quarantine(set) == Store(r, d, frame, Quarantined(set))
        stored == [Store(r, d, frame, kept) EXCEPT !.retained = size]
    IN  IF old.poisoned
        THEN Outcome("Rejected", Store(r, d, frame, noted), noted.packets)
        ELSE IF Contradicts(old, d, frame)
        THEN Outcome("Rejected", quarantine(noted), noted.packets)
        ELSE IF ~Ready(parts, noted.end)
        THEN Outcome("Pending", stored, {})
        ELSE IF noted.end + Overhead(noted, d.key) > MaxDatagram
        THEN Outcome("Rejected", [quarantine(kept) EXCEPT !.retained = size], noted.packets)
        ELSE Outcome("Complete", RemoveSets(stored, {d.key}), noted.packets)

Push(r, d, frame, ids) ==
    IF InvalidRange(d) THEN Outcome("Rejected", r, ids)
    ELSE IF OverLimit(r, d, frame, ids) THEN Outcome("Err", r, ids)
    ELSE PushAdmitted(r, d, frame, ids)

\* The datagram a completing push hands on.
Reassembled(r, d, frame, ids) ==
    LET noted == Noted(SetOf(r, d, frame), d, frame, ids)
        parts == noted.parts \cup {PartOf(d, frame)}
    IN  [data |-> Joined(parts, noted.end), owner |-> noted.owner, bad |-> noted.bad]

Finish(r) == {r.sets[k].packets : k \in DOMAIN r.sets}
=============================================================================
