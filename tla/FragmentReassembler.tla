------------------------ MODULE FragmentReassembler ------------------------
(***************************************************************************)
(* One FragmentReassembler over its life, called the way its callers call  *)
(* it: the frame number rises, expire(frame) runs for every packet, push   *)
(* at most once per frame, a push that fails ends the reassembler (the     *)
(* snapshot engine aborts, the streaming and history paths discard it),    *)
(* and finish drains it at end of file.                                    *)
(*                                                                         *)
(* `log` is a history variable: for each live set, the fragments that were *)
(* admitted to it, with their frames.  `last` is the last call's result.   *)
(***************************************************************************)
EXTENDS Fragment

CONSTANTS
    Inputs,         \* the fragments that may be pushed
    FrameBound      \* model bound on the number of packets

ASSUME FragmentInputs == Inputs \subseteq Input
ASSUME FragmentFrames == FrameBound \in Nat

VARIABLES r, frame, phase, log, last

vars == <<r, frame, phase, log, last>>

NoResult == [tag |-> "None"]
Restricted(f, ks) == [k \in ks |-> f[k]]

Init ==
    /\ r = New
    /\ frame = 0
    /\ phase = "pushed"
    /\ log = [k \in {} |-> {}]
    /\ last = NoResult

\* The next packet: expire(frame) before anything is decoded.
Advance ==
    /\ phase # "ended"
    /\ frame < FrameBound
    /\ frame' = frame + 1
    /\ LET x == Expire(r, frame + 1)
       IN  /\ r' = x.r
           /\ log' = Restricted(log, DOMAIN x.r.sets)
           /\ last' = [tag |-> "Expired", notices |-> x.notices]
    /\ phase' = "ready"

\* The packet decodes to a fragment.
PushFragment(d) ==
    LET out  == Push(r, d, frame, OnePacket(frame))
        seen == (IF d.key \in DOMAIN log THEN log[d.key] ELSE {})
                    \cup {[d |-> d, frame |-> frame]}
    IN  /\ phase = "ready"
        /\ r' = out.r
        /\ phase' = IF out.tag = "Err" THEN "ended" ELSE "pushed"
        /\ last' = IF out.tag = "Complete"
                   THEN [tag |-> "Complete", key |-> d.key, packets |-> out.packets,
                         datagram |-> Reassembled(r, d, frame, OnePacket(frame)), seen |-> seen]
                   ELSE [tag |-> out.tag, packets |-> out.packets]
        /\ log' = IF InvalidRange(d) \/ out.tag = "Err" THEN log
                  ELSE [k \in DOMAIN out.r.sets |-> IF k = d.key THEN seen ELSE log[k]]
        /\ UNCHANGED frame

\* End of file: every set that is still live is reported once.
Drain ==
    /\ phase # "ended"
    /\ phase' = "ended"
    /\ r' = New
    /\ log' = [k \in {} |-> {}]
    /\ last' = [tag |-> "Finished", notices |-> Finish(r)]
    /\ UNCHANGED frame

Next == Advance \/ (\E d \in Inputs : PushFragment(d)) \/ Drain

Spec == Init /\ [][Next]_vars

-----------------------------------------------------------------------------
\* Live sets are assemblies under known keys, deadlines name frames and keys,
\* and the reassembler is between two calls or ended.
TypeOK ==
    /\ DOMAIN r.sets \subseteq Keys
    /\ \A k \in DOMAIN r.sets : r.sets[k] \in Assembly
    /\ r.deadlines \subseteq Nat \X Keys
    /\ frame \in 0 .. FrameBound
    /\ phase \in {"ready", "pushed", "ended"}

\* A set leaves by expiry only after its whole lifetime of frames, and no set
\* is still there later: a deadline left over from an earlier set with the
\* same key never cuts a new set short.
LifetimeExact ==
    [][Advance =>
        \A k \in DOMAIN r.sets :
            (k \notin DOMAIN r'.sets) <=>
                /\ DeadlineOf(r.sets[k].first_frame) # {}
                /\ frame' > r.sets[k].first_frame + Lifetime]_vars

Consistent(k, set) ==
    ~set.poisoned =>
        /\ set.end # NoEnd => \A p \in set.parts : ~PastEnd(p, set.end)
        /\ \A p, q \in set.parts : p # q =>
              IF k \in Ipv6Keys THEN Overlap(p, q) = {} ELSE ~Disagree(p, q)

\* While a set is not quarantined its parts fit the terminal length, never
\* disagree on a byte, and for IPv6 never overlap at all.
PartsConsistent == \A k \in DOMAIN r.sets : Consistent(k, r.sets[k])

\* A completed datagram explains every fragment admitted to its set: each byte
\* of each fragment appears at its place, no byte comes from nowhere, the
\* header is that of an offset-zero fragment and an invalid checksum on any
\* fragment is not lost.
CompleteFaithful ==
    last.tag = "Complete" =>
        LET parts == {PartOf(e.d, e.frame) : e \in last.seen}
            bytes == last.datagram.data
        IN  /\ \A p \in parts : \A x \in p.start .. (PartEnd(p) - 1) :
                  x \in DOMAIN bytes /\ bytes[x] = ByteAt(p, x)
            /\ \A x \in DOMAIN bytes : \E p \in parts : Covers(p, x)
            /\ \E e \in last.seen : e.frame = last.datagram.owner /\ e.d.offset = 0
            /\ last.datagram.bad <=> \E e \in last.seen : e.d.bad
            /\ last.packets = {e.frame : e \in last.seen}

\* What a set holds and what a datagram is made of are both consistent with every
\* fragment that push admitted: no contradiction is kept, and none is resolved by
\* choosing one of the copies.
FragmentsSound == PartsConsistent /\ CompleteFaithful
=============================================================================
