------------------------------- MODULE Engine -------------------------------
(***************************************************************************)
(* The snapshot engine (src/src/engine.rs, analyze): one pass over the     *)
(* packets of a capture that composes the fragment reassembler and the TCP *)
(* tracker and gives every packet a disposition.                           *)
(*                                                                         *)
(* A record is what CaptureIter and wire::decode_packet make of a packet:  *)
(* undecodable, a whole datagram, or a fragment, with a capture time.      *)
(* Decode stands for wire::decode_transport on the bytes of a datagram:    *)
(* an error, a TCP segment, or a UDP datagram that may be DNP3.            *)
(* `evidence` is a history variable: the packets behind every datagram     *)
(* that reached a transport, with what became of it.                       *)
(***************************************************************************)
EXTENDS Fragment, Tcp

CONSTANTS
    Records,        \* the packets that may be captured
    Decode(_),      \* bytes of a datagram to its transport
    RequireValid,   \* checksum_policy = RequireValid
    MaxMessages,    \* limits.max_protocol_messages
    PacketBound     \* model bound on the packets of a capture

VARIABLES packets, frag, tracker, udp, phase, evidence

vars == <<packets, frag, tracker, udp, phase, evidence>>

Init ==
    /\ packets = <<>>
    /\ frag = New
    /\ tracker = TrackerNew
    /\ udp = [count |-> 0, retained |-> 0]
    /\ phase = "reading"
    /\ evidence = <<>>

-----------------------------------------------------------------------------
(***************************************************************************)
(* each_packet and fragment_notice.                                        *)
(***************************************************************************)
Marked(ps, ids, disposition) ==
    [i \in DOMAIN ps |-> IF i \in ids THEN disposition ELSE ps[i]]

Incomplete(ps, ids) == Marked(ps, ids, "FragmentIncomplete")

\* Every packet first expires fragment sets, then is noted as pending.
Frame == Len(packets) + 1
Expired1 == Expire(frag, Frame)
Noticed == Append(Incomplete(packets, UNION Expired1.notices), "Pending")

Abort(ps) ==
    /\ phase' = "failed"
    /\ packets' = ps
    /\ UNCHANGED <<tracker, udp, evidence>>

Settle(ps, disposition) == [ps EXCEPT ![Len(ps)] = disposition]

\* decode_packet failed, or the configured policy refuses the IPv4 checksum.
Undecodable(rec) ==
    /\ phase = "reading"
    /\ rec.kind = "undecodable" \/ (rec.bad /\ RequireValid)
    /\ packets' = Settle(Noticed, "Rejected")
    /\ frag' = Expired1.r
    /\ UNCHANGED <<tracker, udp, phase, evidence>>

-----------------------------------------------------------------------------
(***************************************************************************)
(* A datagram that is whole, with the packets that contributed to it.      *)
(***************************************************************************)
DispositionOf(out) ==
    CASE out.tag = "Assigned" -> "Tcp"
      [] out.tag = "Ambiguous" -> "Ambiguous"
      [] out.tag = "Unassigned" -> "Rejected"

Contributors(ids) == IF ids = {} THEN {Frame} ELSE ids

Evidence(ids, out) == Append(evidence, [packets |-> ids, out |-> out])

Tracked(ids, step) ==
    IF step.out.tag = "Err" THEN Abort(Noticed)
    ELSE /\ tracker' = step.t
         /\ packets' = Marked(Noticed, ids, DispositionOf(step.out))
         /\ evidence' = Evidence(ids, step.out)
         /\ UNCHANGED <<udp, phase>>

Tcp(ids, segment, time) == Tracked(ids, Ingest(tracker, segment, time))

Udp(ids, datagram) ==
    LET dnp3 == datagram.dnp3 /\ datagram.len > 0
    IN  IF dnp3 /\ (udp.count >= MaxMessages \/ udp.retained + datagram.len > MaxRetained)
        THEN Abort(Noticed)
        ELSE /\ packets' = Marked(Noticed, ids, "Udp")
             /\ udp' = IF dnp3 THEN [count |-> udp.count + 1,
                                     retained |-> udp.retained + datagram.len]
                       ELSE udp
             /\ evidence' = Evidence(ids, [tag |-> "Udp"])
             /\ UNCHANGED <<tracker, phase>>

DeliverTo(ids, transport, time) ==
    CASE transport.kind = "error" ->
            /\ packets' = Marked(Noticed, ids, "Rejected")
            /\ UNCHANGED <<tracker, udp, phase, evidence>>
      [] transport.kind = "tcp" -> Tcp(ids, transport.segment, time)
      [] transport.kind = "udp" -> Udp(ids, transport)

Deliver(ids, bytes, time) == DeliverTo(ids, Decode(bytes), time)

Admitted(rec) ==
    phase = "reading" /\ rec.kind # "undecodable" /\ ~(rec.bad /\ RequireValid)

\* An unfragmented datagram passes the reassembler untouched.
Whole(rec) ==
    /\ Admitted(rec)
    /\ rec.kind = "whole"
    /\ Deliver(Contributors({}), rec.bytes, rec.time)
    /\ frag' = Expired1.r

Pushed(rec, out) ==
    /\ CASE out.tag = "Err" -> Abort(Noticed)
         [] out.tag = "Pending" ->
                /\ packets' = Settle(Noticed, "FragmentPending")
                /\ UNCHANGED <<tracker, udp, phase, evidence>>
         [] out.tag = "Rejected" ->
                /\ packets' = Incomplete(Noticed, out.packets)
                /\ UNCHANGED <<tracker, udp, phase, evidence>>
         [] out.tag = "Complete" ->
                Deliver(Contributors(out.packets),
                        Reassembled(Expired1.r, rec.d, Frame, OnePacket(Frame)).data, rec.time)
    /\ frag' = out.r

Fragmented(rec) ==
    /\ Admitted(rec)
    /\ rec.kind = "fragment"
    /\ Pushed(rec, Push(Expired1.r, rec.d, Frame, OnePacket(Frame)))

Nonterminal == {"Pending", "FragmentPending"}

\* End of file: pending sets are reported, then the conservation check runs.
EndOfFile ==
    /\ phase = "reading"
    /\ packets' = Incomplete(packets, UNION Finish(frag))
    /\ phase' = IF \E i \in DOMAIN packets' : packets'[i] \in Nonterminal
                THEN "not_conserved" ELSE "done"
    /\ UNCHANGED <<frag, tracker, udp, evidence>>

ReadRecord ==
    /\ Len(packets) < PacketBound
    /\ \E rec \in Records : Undecodable(rec) \/ Whole(rec) \/ Fragmented(rec)

Next == ReadRecord \/ EndOfFile

Spec == Init /\ [][Next]_vars

-----------------------------------------------------------------------------
Terminal == {"Tcp", "Udp", "Ambiguous", "Rejected", "FragmentIncomplete"}

Waiting == UNION {frag.sets[k].packets : k \in {s \in DOMAIN frag.sets : ~frag.sets[s].poisoned}}

\* The packets that wait are exactly those the reassembler holds in sets that
\* can still complete: none is forgotten when a set expires, is quarantined or
\* completes, and none is held that was already given a final disposition.  At
\* end of file the conservation check of analyze therefore never fails.
PendingExactly ==
    /\ phase = "reading" => {i \in DOMAIN packets : packets[i] = "FragmentPending"} = Waiting
    /\ phase # "not_conserved"

\* A packet is evidence for at most one datagram, and its disposition says what
\* became of that datagram.
EvidenceExclusive ==
    \A m \in DOMAIN evidence :
        /\ evidence[m].packets # {}
        /\ \A n \in DOMAIN evidence : m # n => evidence[m].packets \cap evidence[n].packets = {}
        /\ \A i \in evidence[m].packets :
              packets[i] = IF evidence[m].out.tag = "Udp" THEN "Udp"
                           ELSE DispositionOf(evidence[m].out)

\* Every packet is accounted for once: it waits exactly while it can still become
\* part of a datagram, and afterwards it is evidence of at most one.
EngineAccounts == PendingExactly /\ EvidenceExclusive

-----------------------------------------------------------------------------
(***************************************************************************)
(* One directional StreamAssembler: any pushes and FIN positions, then one *)
(* finish under any overlap policy.  A failing call ends it, as the replay *)
(* in TcpTracker::finish does with the direction it belongs to.            *)
(***************************************************************************)
CONSTANTS
    Syns,           \* the SYN the direction was opened with, or None
    StreamSegments  \* the <<sequence, data>> pairs that may be pushed

VARIABLES asm, stage, policy, result

streamVars == <<asm, stage, policy, result>>

StreamInit ==
    /\ \E syn \in Syns : asm = AsmNew(syn)
    /\ stage = "open"
    /\ policy = None
    /\ result = NoResult

StopStream ==
    /\ stage' = "failed"
    /\ UNCHANGED asm

PushSegment(s, data) ==
    /\ stage = "open"
    /\ \/ CanPush(asm, s, data) /\ asm' = AsmPush(asm, s, data) /\ UNCHANGED stage
       \/ ~CanPush(asm, s, data) /\ StopStream
    /\ UNCHANGED <<policy, result>>

EndAt(s) ==
    /\ stage = "open"
    /\ \/ CanEndAt(asm, s) /\ asm' = AsmEndAt(asm, s) /\ UNCHANGED stage
       \/ ~CanEndAt(asm, s) /\ StopStream
    /\ UNCHANGED <<policy, result>>

FinishStream(p) ==
    /\ stage = "open"
    /\ policy' = p
    /\ \/ /\ CanFinish(asm)
          /\ stage' = "done"
          /\ result' = AsmFinish(asm, p)
          /\ UNCHANGED asm
       \/ ~CanFinish(asm) /\ StopStream /\ UNCHANGED result

StreamNext ==
    \/ \E g \in StreamSegments : PushSegment(g[1], g[2])
    \/ \E g \in StreamSegments : EndAt(WrapAdd(g[1], Len(g[2])))
    \/ \E p \in Policies : FinishStream(p)

Observers(x) ==
    {i \in Indices(asm) : asm.segments[i].start <= x /\ x < SegEnd(asm.segments[i])}
ObservedByte(i, x) == asm.segments[i].data[x - asm.segments[i].start + 1]
Contested(x) == \E i, j \in Observers(x) : ObservedByte(i, x) # ObservedByte(j, x)

Within(ranges, x) == {n \in DOMAIN ranges : ranges[n][1] <= x /\ x < ranges[n][2]}
Chunks(x) ==
    {n \in DOMAIN result.chunks : result.chunks[n].offset <= x
        /\ x < result.chunks[n].offset + Len(result.chunks[n].data)}
ChunkByte(n, x) == result.chunks[n].data[x - result.chunks[n].offset + 1]

Swept == stage = "done" /\ asm.segments # <<>>
FirstByte == IF asm.anchored THEN 0 ELSE Min({asm.segments[i].start : i \in Indices(asm)})
EndByte == IF asm.fin # None THEN asm.fin ELSE Max({SegEnd(asm.segments[i]) : i \in Indices(asm)})
Positions == FirstByte .. (EndByte - 1)
Nearby == (FirstByte - 2) .. (EndByte + 2)

\* Under RejectConflict the byte all observers agree on, otherwise that of the
\* first or of the last segment pushed.
SelectionFaithful ==
    Swept => \A x \in Positions : \A n \in Chunks(x) :
        LET seen == Observers(x) IN
        /\ seen # {}
        /\ CASE policy = "RejectConflict" -> \A i \in seen : ChunkByte(n, x) = ObservedByte(i, x)
             [] policy = "FirstObserved" -> ChunkByte(n, x) = ObservedByte(Min(seen), x)
             [] policy = "LastObserved" -> ChunkByte(n, x) = ObservedByte(Max(seen), x)

\* Nothing captured is lost or invented: the sweep of finish accounts for every
\* position from the SYN, or the first captured byte, to the FIN, or the last
\* captured byte, exactly once, and for no other; a gap is a position nobody
\* observed, or one in a reported conflict that RejectConflict refuses to settle;
\* every position observers disagree on is reported as a conflict; and a
\* reconstructed byte was captured at its position and is the policy's choice.
NothingLost ==
    /\ SelectionFaithful
    /\ Swept => \A x \in Nearby :
        /\ Cardinality(Chunks(x)) + Cardinality(Within(result.gaps, x))
              = IF x \in Positions THEN 1 ELSE 0
        /\ Within(result.gaps, x) # {} =>
              Observers(x) = {} \/ (policy = "RejectConflict" /\ Within(result.conflicts, x) # {})
        /\ Contested(x) => Within(result.conflicts, x) # {}
=============================================================================
