-------------------------------- MODULE Dnp3 --------------------------------
(***************************************************************************)
(* DNP3 from the octets of a stream to its meaning: the decoder of a       *)
(* direction (src/src/dnp3.rs), the pairing of what was decoded            *)
(* (src/src/semantics/dnp3_workflow.rs, src/src/correlate.rs), and the     *)
(* file transfers of a run (product/src/deep/dnp_file.rs).                 *)
(***************************************************************************)
EXTENDS Integers, Sequences, FiniteSets, SequencesExt

(***************************************************************************)
(* The DNP3 decoder (src/src/dnp3.rs): link frames of one direction of a   *)
(* reconstructed stream are joined into application fragments by transport *)
(* sequence numbers, and fragments into messages by application sequence   *)
(* numbers. Both numbers wrap.                                             *)
(*                                                                         *)
(* The stream is a sequence of items. An item of kind "frame" is a link    *)
(* frame whose check sums hold: source, destination, the link control, and *)
(* its user data, a transport header (seq, fir, fin) and a payload, which  *)
(* is empty or one unit of application octets. Any unit can be read as an  *)
(* application header: it is "long" when it has the four octets that the   *)
(* header of a response needs, else it has the two of any other. The other *)
(* kinds are octets that match no frame start ("noise"), a frame whose     *)
(* body check sum fails ("crc") or whose body is not all there ("cut"), a  *)
(* header whose check sum fails ("header") or that is short or has a bad   *)
(* length ("stub"), and the end of a chunk, behind which octets are        *)
(* missing ("gap").                                                        *)
(***************************************************************************)
CONSTANTS
    TransportModulus,      \* 64: the transport header has six sequence bits
    ApplicationModulus,    \* 16: the application control has four
    MaxProtocolMessages,   \* limits.max_protocol_messages
    MaxApplicationUnits,   \* limits.max_application_bytes, in payload units
    MaxStream              \* bound: items of the stream

VARIABLES
    stream,   \* the items read so far
    dnp       \* the decoder: its result and the assemblies of the chunk

dnpVars == <<stream, dnp>>

NoAssemblies == [k \in {} |-> {}]
Without(f, keys) == [k \in DOMAIN f \ keys |-> f[k]]
With(f, k, v) == [x \in DOMAIN f \cup {k} |-> IF x = k THEN v ELSE f[x]]

(***************************************************************************)
(* The link layer.                                                         *)
(***************************************************************************)
AddressKind(a) ==
    CASE a <= 65519 -> "individual"
      [] a \in 65520 .. 65531 -> "reserved"
      [] a = 65532 -> "self_address"
      [] OTHER -> "broadcast"

Individual(a) == AddressKind(a) = "individual"
IsBroadcast(a) == a >= 65533

KnownFunctions(primary) ==
    IF primary THEN {0, 1, 2, 3, 4, 9} ELSE {0, 1, 11, 14, 15}

UserData(f) == f.primary /\ f.function \in {3, 4}

\* Why a frame is outside the declared link subset; "none" when it is inside.
LinkIssue(f) ==
    IF ~f.primary /\ f.reserved THEN "dnp3_secondary_reserved_control_bit"
    ELSE IF f.function \notin (IF f.primary THEN {0, 2, 3, 4, 9} ELSE {0, 1, 11, 15})
    THEN "dnp3_link_function_outside_subset"
    ELSE IF f.primary /\ f.fcv # (f.function \in {2, 3}) THEN "dnp3_link_fcv_function_conflict"
    ELSE IF ~Individual(f.src) THEN "dnp3_non_individual_source_address"
    ELSE IF AddressKind(f.dst) = "reserved" THEN "dnp3_reserved_destination_address"
    ELSE IF AddressKind(f.dst) = "self_address" THEN "dnp3_self_address_not_resolved"
    ELSE IF IsBroadcast(f.dst) /\ (~f.direction \/ ~UserData(f))
    THEN "dnp3_broadcast_direction_or_function_conflict"
    ELSE IF UserData(f) = ~f.user THEN "dnp3_link_function_length_conflict"
    ELSE "none"

HeaderHolds(item) == item.kind \in {"crc", "cut"}

ParseError(item) ==
    CASE item.kind \in {"crc", "header"} -> "dnp3_crc_failure"
      [] OTHER -> "dnp3_invalid_or_truncated_frame"

(***************************************************************************)
(* The result and the assemblies of the decoder.                           *)
(***************************************************************************)
NewDecoder ==
    [transport |-> NoAssemblies, apps |-> NoAssemblies, skipped |-> 0, lost |-> FALSE,
     frames |-> <<>>, fragments |-> <<>>, messages |-> <<>>, issues |-> <<>>,
     rejected |-> <<>>, failed |-> FALSE]

Issue(d, code, at) == [d EXCEPT !.issues = Append(@, [code |-> code, at |-> at])]

EmitApp(d, key, complete) ==
    LET a == d.apps[key]
    IN  [d EXCEPT !.apps = Without(@, {key}),
                  !.messages = Append(@, [src |-> key[1], dst |-> key[2], class |-> key[3],
                                          function |-> a.function, first |-> a.first,
                                          complete |-> complete, fragments |-> a.fragments,
                                          objects |-> a.objects])]

ClassOrder == <<"request", "response", "unsolicited", "confirm", "unknown">>
ClassRank(c) == CHOOSE i \in 1 .. Len(ClassOrder) : ClassOrder[i] = c

KeyBefore(a, b) ==
    \/ a[1] < b[1]
    \/ a[1] = b[1] /\ a[2] < b[2]
    \/ a[1] = b[1] /\ a[2] = b[2] /\ ClassRank(a[3]) < ClassRank(b[3])

EmitPending(d, keys) ==
    FoldLeft(LAMBDA e, k : EmitApp(e, k, FALSE), d, SetToSortSeq(keys, KeyBefore))

\* Every partial transport is dropped with an issue; every pending message is emitted incomplete.
InterruptAll(d, code, at) ==
    LET told == [i \in 1 .. Cardinality(DOMAIN d.transport) |-> [code |-> code, at |-> at]]
    IN  EmitPending([d EXCEPT !.transport = NoAssemblies, !.issues = @ \o told], DOMAIN d.apps)

InterruptApplications(d, key) ==
    EmitPending(d, {k \in DOMAIN d.apps : <<k[1], k[2]>> = key})

\* One address pair loses its assemblies; the other pairs are independent.
Interrupt(d, key, code, at) ==
    InterruptApplications(
        Issue([d EXCEPT !.transport = Without(@, {key})], code, at), key)

(***************************************************************************)
(* Application fragments.                                                  *)
(***************************************************************************)
Class(u) ==
    CASE u.function = 0 -> "confirm"
      [] u.function \in 1 .. 31 /\ ~u.uns -> "request"
      [] u.function = 129 /\ ~u.uns -> "response"
      [] u.function = 130 /\ u.uns -> "unsolicited"
      [] OTHER -> "unknown"

IsResponse(u) == u.function \in {129, 130}

HasApplicationHeader(units) ==
    Len(units) > 0 /\ (IsResponse(units[1]) => units[1].long \/ Len(units) > 1)

AppFragment(units, key, frames) ==
    LET u == units[1]
    IN  [src |-> key[1], dst |-> key[2], class |-> Class(u), function |-> u.function,
         seq |-> u.seq, fir |-> u.fir, fin |-> u.fin, con |-> u.con, uns |-> u.uns,
         frames |-> frames, raw |-> units]

StartApplication(d, g, key, direction) ==
    LET e == IF key \in DOMAIN d.apps THEN EmitApp(d, key, FALSE) ELSE d
    IN  [e EXCEPT !.apps = With(@, key, [direction |-> direction, function |-> g.function,
                                         first |-> g.seq, last |-> g.seq, objects |-> g.raw,
                                         fragments |-> <<Len(d.fragments) + 1>>])]

FollowsFragment(a, g) ==
    g.seq = (a.last + 1) % ApplicationModulus /\ g.function = a.function

ContinueApplication(d, g, key) ==
    [d EXCEPT !.apps[key].last = g.seq,
              !.apps[key].fragments = Append(@, Len(d.fragments) + 1),
              !.apps[key].objects = @ \o g.raw]

JoinFragment(d, g, key, direction, at) ==
    CASE g.fir -> StartApplication(d, g, key, direction)
      [] ~g.fir /\ key \notin DOMAIN d.apps ->
           Issue(d, "orphan_dnp3_application_fragment", at)
      [] ~g.fir /\ key \in DOMAIN d.apps /\ FollowsFragment(d.apps[key], g) ->
           ContinueApplication(d, g, key)
      [] OTHER -> EmitApp(Issue(d, "dnp3_application_sequence_gap_or_conflict", at), key, FALSE)

AddFragment(d, g, direction, at) ==
    LET key == <<g.src, g.dst, g.class>>
        told == IF g.class = "unknown"
                THEN Issue(d, "unsupported_or_inconsistent_dnp3_application_function", at)
                ELSE d
        joined == JoinFragment(told, g, key, direction, at)
        held == [joined EXCEPT !.fragments = Append(@, g)]
    IN  IF g.fin /\ key \in DOMAIN held.apps THEN EmitApp(held, key, TRUE) ELSE held

CompleteTransport(d, key, direction, at) ==
    LET t == d.transport[key]
        e == [d EXCEPT !.transport = Without(@, {key})]
    IN  IF HasApplicationHeader(t.units)
        THEN AddFragment(e, AppFragment(t.units, key, t.frames), direction, at)
        ELSE InterruptApplications(Issue(e, "invalid_dnp3_application_header", at), key)

(***************************************************************************)
(* Transport segments.                                                     *)
(***************************************************************************)
Octets(f) == [seq |-> f.seq, fir |-> f.fir, fin |-> f.fin, payload |-> f.payload]
Expected(t) == (t.last + 1) % TransportModulus

Repeats(t, f) ==
    f.seq # Expected(t) /\ f.seq \in DOMAIN t.seen /\ t.seen[f.seq] = Octets(f)

StartSegment(f, id) ==
    [last |-> f.seq, seen |-> With(NoAssemblies, f.seq, Octets(f)),
     direction |-> f.direction, units |-> f.payload, frames |-> <<id>>]

NextSegment(t, f, id) ==
    [t EXCEPT !.last = f.seq, !.seen = With(@, f.seq, Octets(f)),
              !.units = @ \o f.payload, !.frames = Append(@, id)]

AfterSegment(d, key, f, at) ==
    IF f.fin THEN CompleteTransport(d, key, f.direction, at) ELSE d

\* A segment of a pair that has no partial transport.
FreshSegment(d, key, f, id, at) ==
    IF f.fir
    THEN AfterSegment([d EXCEPT !.transport = With(@, key, StartSegment(f, id))], key, f, at)
    ELSE InterruptApplications(Issue(d, "orphan_dnp3_transport_segment", at), key)

\* A segment of a pair that has one.
FollowingSegment(d, key, f, id, at) ==
    LET t == d.transport[key]
    IN  CASE Repeats(t, f) ->
               Issue([d EXCEPT !.transport[key].frames = Append(@, id)],
                     IF t.last = f.seq THEN "duplicate_dnp3_transport_segment"
                     ELSE "reordered_duplicate_dnp3_transport_segment", at)
          [] ~Repeats(t, f) /\ f.fir ->
               FreshSegment(Interrupt(d, key, "dnp3_transport_restart_before_fin", at),
                            key, f, id, at)
          [] ~f.fir /\ f.seq = Expected(t) ->
               AfterSegment([d EXCEPT !.transport[key] = NextSegment(t, f, id)], key, f, at)
          [] ~Repeats(t, f) /\ ~f.fir /\ f.seq # Expected(t) ->
               Interrupt(d, key,
                         IF f.seq \in DOMAIN t.seen THEN "conflicting_dnp3_transport_duplicate"
                         ELSE "dnp3_transport_sequence_gap_or_conflict", at)

DirectionChanged(d, key, f) ==
    \/ key \in DOMAIN d.transport /\ d.transport[key].direction # f.direction
    \/ \E k \in DOMAIN d.apps : <<k[1], k[2]>> = key /\ d.apps[k].direction # f.direction

Segment(d, key, f, id, at) ==
    LET e == IF DirectionChanged(d, key, f)
             THEN Interrupt(d, key, "dnp3_link_direction_changed_within_assembly", at)
             ELSE d
    IN  IF key \in DOMAIN e.transport THEN FollowingSegment(e, key, f, id, at)
        ELSE FreshSegment(e, key, f, id, at)

(***************************************************************************)
(* The items of a chunk.                                                   *)
(***************************************************************************)
\* Mutant of Resynchronized: the assemblies survive octets nobody framed.
ResynchronizedKeeping(d, at) ==
    IF d.skipped = 0 THEN d
    ELSE Issue([d EXCEPT !.skipped = 0], "dnp3_link_resynchronized", at - d.skipped)

Resynchronized(d, at) ==
    IF d.skipped = 0 THEN d
    ELSE Issue([InterruptAll(d, "transport_interrupted_by_resynchronization", at)
                  EXCEPT !.skipped = 0],
               "dnp3_link_resynchronized", at - d.skipped)

Frame(d, f, at) ==
    LET key == <<f.src, f.dst>>
        id == Len(d.frames) + 1
        warned == IF ~f.primary /\ f.reserved
                  THEN Issue(d, "dnp3_reserved_link_control_bit", at) ELSE d
        named == IF f.function \notin KnownFunctions(f.primary)
                 THEN Issue(warned, "unsupported_dnp3_link_function", at) ELSE warned
        e == [named EXCEPT !.frames = Append(@, [f EXCEPT !.at = at])]
    IN  CASE LinkIssue(f) # "none" -> Interrupt(e, key, LinkIssue(f), at)
          [] LinkIssue(f) = "none" /\ ~f.user -> e
          [] LinkIssue(f) = "none" /\ f.user -> Segment(e, key, f, id, at)

RejectFrame(d, item, at) ==
    LET cut == Issue(InterruptAll(d, "transport_interrupted_by_bad_frame", at),
                     ParseError(item), at)
        e == [cut EXCEPT !.rejected = Append(@, [at |-> at, declared |-> HeaderHolds(item),
                                                 incomplete |-> item.kind \in {"cut", "stub"}])]
    IN  IF HeaderHolds(item)
        THEN [Issue(e, "dnp3_rejected_declared_link_range", at)
                EXCEPT !.skipped = 0, !.lost = item.kind = "cut"]
        ELSE [Issue(e, "dnp3_link_boundary_lost_no_resynchronization", at) EXCEPT !.lost = TRUE]

EndChunk(d, at) ==
    LET trailing == IF d.skipped = 0 THEN d
                    ELSE Issue(d, "trailing_unframed_dnp3_bytes", at - d.skipped)
    IN  [InterruptAll(trailing, "incomplete_dnp3_transport_at_gap_or_eof", at)
           EXCEPT !.skipped = 0, !.lost = FALSE]

\* A list or an assembly at its limit ends the whole decoding with an error.
Exceeds(d) ==
    \/ \E list \in {d.frames, d.fragments, d.messages, d.issues, d.rejected} :
           Len(list) > MaxProtocolMessages
    \/ \E k \in DOMAIN d.transport : Len(d.transport[k].units) > MaxApplicationUnits
    \/ \E k \in DOMAIN d.apps : Len(d.apps[k].objects) > MaxApplicationUnits
    \/ \E i \in 1 .. Len(d.messages) : Len(d.messages[i].objects) > MaxApplicationUnits

Bounded(d) == IF Exceeds(d) THEN [NewDecoder EXCEPT !.failed = TRUE] ELSE d

Decode(d, item, at) ==
    CASE item.kind = "gap" -> EndChunk(d, at)
      [] item.kind # "gap" /\ d.lost -> d
      [] item.kind = "noise" /\ ~d.lost -> [d EXCEPT !.skipped = @ + 1]
      [] item.kind = "frame" /\ ~d.lost -> Frame(Resynchronized(d, at), item, at)
      [] OTHER -> RejectFrame(d, item, at)

DnpInit ==
    /\ stream = <<>>
    /\ dnp = NewDecoder

ReadItem(menu) ==
    \E item \in menu :
        /\ ~dnp.failed
        /\ Len(stream) < MaxStream
        /\ stream' = Append(stream, item)
        /\ dnp' = Bounded(Decode(dnp, item, Len(stream) + 1))

(***************************************************************************)
(* Properties.                                                             *)
(***************************************************************************)
FramesOf(m) == UNION {Range(dnp.fragments[i].frames) : i \in Range(m.fragments)}
Positions(m) == {dnp.frames[i].at : i \in FramesOf(m)}
MessageSpan(m) == {p \in 1 .. Len(stream) :
              (\E q \in Positions(m) : q <= p) /\ (\E q \in Positions(m) : p <= q)}

\* The octets of the frames, each transport number once, in their order.
Selected(ids) ==
    FoldLeft(LAMBDA s, i :
                IF s # <<>> /\ dnp.frames[i].seq # (Last(s).seq + 1) % TransportModulus THEN s
                ELSE Append(s, Octets(dnp.frames[i])),
             <<>>, ids)

\* A complete message was sent as such: over the stretch of the stream that it spans no octet is
\* missing or unframed, every frame of its address pair was accepted with one DIR bit, its
\* fragments are all the fragments of its class there, numbered in sequence, first and last
\* marked, and each is the octets of segments numbered in sequence, of which no repeated number
\* had other octets (src/dnp3.rs decode).
WholeMessages ==
    \A n \in 1 .. Len(dnp.messages) :
        LET m == dnp.messages[n]
            part(i) == dnp.fragments[m.fragments[i]]
            pair(p) == stream[p].kind = "frame" /\ stream[p].src = m.src /\ stream[p].dst = m.dst
        IN  m.complete =>
            /\ \A p \in MessageSpan(m) : stream[p].kind = "frame"
            /\ \A p \in MessageSpan(m) : pair(p) => LinkIssue(stream[p]) = "none"
            /\ \A p, q \in {r \in MessageSpan(m) : pair(r) /\ stream[r].user} :
                   stream[p].direction = stream[q].direction
            /\ \A i \in 1 .. Len(m.fragments) :
                   /\ part(i).seq = (m.first + i - 1) % ApplicationModulus
                   /\ part(i).function = m.function /\ part(i).class = m.class
                   /\ part(i).fir = (i = 1) /\ part(i).fin = (i = Len(m.fragments))
                   /\ LET s == Selected(part(i).frames)
                      IN  /\ FlattenSeq([j \in 1 .. Len(s) |-> s[j].payload]) = part(i).raw
                          /\ \A j \in 1 .. Len(s) : s[j].fir = (j = 1) /\ s[j].fin = (j = Len(s))
                          /\ \A f \in Range(part(i).frames) :
                                 \E j \in 1 .. Len(s) : s[j] = Octets(dnp.frames[f])
            /\ \A g \in 1 .. Len(dnp.fragments) :
                   LET h == dnp.fragments[g]
                   IN  h.src = m.src /\ h.dst = m.dst /\ h.class = m.class
                         /\ (\E i \in Range(h.frames) : dnp.frames[i].at \in MessageSpan(m))
                       => g \in Range(m.fragments)

\* Nothing that was decoded is dropped or told twice: a frame is in one fragment at most, a
\* fragment in one message at most, and whatever is in no message, nor still pending, is covered
\* by an issue at the frame that ended it or at a later item (src/dnp3.rs decode).
Accounted ==
    LET inMessage(g) == {n \in 1 .. Len(dnp.messages) : g \in Range(dnp.messages[n].fragments)}
        inFragment(i) == {g \in 1 .. Len(dnp.fragments) : i \in Range(dnp.fragments[g].frames)}
        toldFrom(p) == \E i \in 1 .. Len(dnp.issues) : dnp.issues[i].at >= p
    IN  ~dnp.failed =>
        /\ \A g \in 1 .. Len(dnp.fragments) :
               LET pending == \E k \in DOMAIN dnp.apps : g \in Range(dnp.apps[k].fragments)
                   p == dnp.frames[Last(dnp.fragments[g].frames)].at
               IN  /\ Cardinality(inMessage(g)) <= 1
                   /\ pending => inMessage(g) = {}
                   /\ inMessage(g) = {} /\ ~pending =>
                          \E i \in 1 .. Len(dnp.issues) : dnp.issues[i].at = p
        /\ \A i \in 1 .. Len(dnp.frames) :
               LET pending == \E k \in DOMAIN dnp.transport : i \in Range(dnp.transport[k].frames)
               IN  /\ Cardinality(inFragment(i)) <= 1
                   /\ pending => inFragment(i) = {}
                   /\ dnp.frames[i].user /\ inFragment(i) = {} /\ ~pending =>
                          toldFrom(dnp.frames[i].at)

(***************************************************************************)
(* Pairing over decoded applications (src/src/semantics/dnp3_workflow.rs,  *)
(* src/src/correlate.rs, src/src/correlate/dnp3_confirmations.rs). The     *)
(* link frames of a DNP3 fragment or message are verified a second time,   *)
(* apart from the decoder; verified requests and responses are grouped by  *)
(* their identifiers, and so are confirmations and the fragments that they *)
(* may confirm. No clock and no order picks a partner.                     *)
(*                                                                         *)
(* An application is [protocol, capture, flow, direction, result, modbus]: *)
(* one direction of a flow with what its decoder made of it. The capture   *)
(* is "mixed" when its octets come from more than one. A Modbus message is *)
(* [role, shape, supported, unit, tx, function, boundary, body], where     *)
(* body stands for the fields that a response repeats.                     *)
(***************************************************************************)
CONSTANT MaxApplications   \* bound: applications of one analysis

VARIABLE applications

(***************************************************************************)
(* The second verification.                                                *)
(***************************************************************************)
\* Why the header of a fragment is outside the workflow subset.
HeaderIssue(raw) ==
    LET u == raw[1]
        bare == ~u.long /\ Len(raw) = 1
    IN  IF u.function \in {129, 130, 131} /\ bare THEN "dnp3_workflow_iin_truncated"
        ELSE IF u.function \in {29, 32, 33, 131} THEN "dnp3_authentication_workflow_opaque"
        ELSE IF u.function \notin (0 .. 31) \cup {129, 130}
        THEN "dnp3_reserved_application_function"
        ELSE IF \/ u.function = 130 /\ ~u.uns
                \/ u.function \notin {0, 130} /\ u.uns
                \/ u.function < 128 /\ u.con
        THEN "dnp3_application_control_function_conflict"
        ELSE IF u.function \in {0, 23, 24} /\ ~(bare /\ u.fir /\ u.fin)
        THEN "dnp3_header_only_workflow_shape"
        ELSE "none"

WitnessClass(function) ==
    CASE function = 0 -> "confirm"
      [] function \in 1 .. 30 -> "request"
      [] function = 129 -> "response"
      [] function = 130 -> "unsolicited"

NoWitness == [holds |-> TRUE, started |-> FALSE, last |-> 0, seen |-> NoAssemblies,
              final |-> FALSE, units |-> <<>>]

\* One more link frame of a fragment: a repetition, the next segment, or a mismatch.
WitnessFrame(w, f) ==
    LET next == (w.last + 1) % TransportModulus
        repeats == /\ ~(w.started /\ f.seq = next)
                   /\ f.seq \in DOMAIN w.seen /\ w.seen[f.seq] = Octets(f)
        inPlace == IF w.started THEN ~f.fir /\ f.seq = next ELSE f.fir
    IN  IF ~w.holds \/ w.final THEN [w EXCEPT !.holds = FALSE]
        ELSE IF repeats THEN w
        ELSE IF ~inPlace THEN [w EXCEPT !.holds = FALSE]
        ELSE [w EXCEPT !.started = TRUE, !.last = f.seq, !.seen = With(@, f.seq, Octets(f)),
                       !.final = f.fin, !.units = @ \o f.payload]

ProvedBy(w, g) == w.holds /\ w.final /\ w.units = g.raw

FramesAgree(d, g) ==
    /\ Cardinality(Range(g.frames)) = Len(g.frames)
    /\ \A i \in Range(g.frames) :
           /\ UserData(d.frames[i]) /\ LinkIssue(d.frames[i]) = "none"
           /\ d.frames[i].src = g.src /\ d.frames[i].dst = g.dst
           /\ d.frames[i].direction = d.frames[g.frames[1]].direction
    /\ ProvedBy(FoldLeft(LAMBDA v, i : WitnessFrame(v, d.frames[i]), NoWitness, g.frames), g)

\* Why a fragment is not a witness; "none" when its own link frames prove it.
FragmentIssue(d, g, capture) ==
    IF HeaderIssue(g.raw) # "none" THEN HeaderIssue(g.raw)
    ELSE IF g.raw[1].function = 31 THEN "dnp3_workflow_outside_subset"
    ELSE IF g.class # WitnessClass(g.function) THEN "dnp3_fragment_witness_mismatch"
    ELSE IF ~Individual(g.src) \/ ~Individual(g.dst)
    THEN "dnp3_confirmation_non_individual_address"
    ELSE IF capture = "mixed" \/ ~FramesAgree(d, g) THEN "dnp3_fragment_witness_mismatch"
    ELSE "none"

LinkDirection(d, g) == d.frames[g.frames[1]].direction

RoleDirection(class) == class \in {"request", "confirm"}

MessageParts(d, m) == [i \in 1 .. Len(m.fragments) |-> d.fragments[m.fragments[i]]]

\* The first fragment that is no witness, or does not fit the message, decides.
PartsIssue(d, m, parts, issues) ==
    LET agrees(i) ==
            /\ parts[i].src = m.src /\ parts[i].dst = m.dst
            /\ parts[i].function = m.function /\ parts[i].class = m.class
            /\ LinkDirection(d, parts[i]) = RoleDirection(m.class)
            /\ parts[i].fir = (i = 1) /\ parts[i].fin = (i = Len(parts))
            /\ parts[i].seq = (m.first + i - 1) % ApplicationModulus
            /\ \A j \in 1 .. i - 1 : Range(parts[i].frames) \cap Range(parts[j].frames) = {}
        bad == {i \in 1 .. Len(parts) : issues[i] # "none" \/ ~agrees(i)}
        first == CHOOSE i \in bad : \A j \in bad : i <= j
    IN  IF bad # {} /\ issues[first] # "none" THEN issues[first]
        ELSE IF bad # {} \/ FlattenSeq([i \in 1 .. Len(parts) |-> parts[i].raw]) # m.objects
        THEN "dnp3_pairing_witness_mismatch"
        ELSE "none"

\* Why a message may not be paired.
MessageIssue(d, m, capture) ==
    LET parts == MessageParts(d, m)
    IN  IF ~m.complete THEN "dnp3_pairing_incomplete_or_direction_unknown"
        ELSE IF ~Individual(m.src) \/ ~Individual(m.dst)
        THEN "dnp3_pairing_non_individual_address"
        ELSE IF m.class = "unknown" THEN "dnp3_pairing_witness_mismatch"
        ELSE PartsIssue(d, m, parts,
                        [i \in 1 .. Len(parts) |-> FragmentIssue(d, parts[i], capture)])

(***************************************************************************)
(* Requests and responses.                                                 *)
(***************************************************************************)
MessagesOf(a) == IF a.protocol = "dnp3" THEN a.result.messages ELSE a.modbus

Indices(apps, listOf(_)) ==
    FlattenSeq([i \in 1 .. Len(apps) |-> [j \in 1 .. Len(listOf(apps[i])) |-> <<i, j>>]])

MessageRefs(apps) == Indices(apps, MessagesOf)
MessageAt(apps, r) == MessagesOf(apps[r[1]])[r[2]]

NoResponse(m) == m.class = "request" /\ m.function \in {6, 8, 10, 12}

\* The status of a DNP3 message that joins no group; "paired" when it does.
DnpFate(a, m) ==
    IF ~m.complete THEN "incomplete"
    ELSE IF MessageIssue(a.result, m, a.capture) # "none" THEN "unclassified"
    ELSE IF NoResponse(m) THEN "no_response_expected"
    ELSE IF m.class = "unsolicited" THEN "unsolicited"
    ELSE IF m.class = "confirm" THEN "confirmation"
    ELSE "paired"

ModbusFate(a, m) ==
    IF m.shape /\ m.supported /\ m.role # "unknown" /\ a.capture # "mixed"
    THEN "paired" ELSE "unclassified"

Fate(a, m) == IF a.protocol = "dnp3" THEN DnpFate(a, m) ELSE ModbusFate(a, m)

IsRequest(a, m) == IF a.protocol = "dnp3" THEN m.class = "request" ELSE m.role = "request"

\* The identifiers of a message, the controller's address first.
DnpKey(a, m) ==
    IF m.class = "request" THEN <<"dnp3", a.capture, a.flow, m.src, m.dst, m.first, 0>>
    ELSE <<"dnp3", a.capture, a.flow, m.dst, m.src, m.first, 0>>

ModbusKey(a, m) == <<"modbus", a.capture, a.flow, m.unit, 0, m.tx, m.function % 128>>

TransactionKey(a, m) == IF a.protocol = "dnp3" THEN DnpKey(a, m) ELSE ModbusKey(a, m)

ResponseMatches(q, s) ==
    q.function \in (1 .. 6) \cup {15, 16} /\ (s.function >= 128 \/ q.body = s.body)

\* The status of a group: its requests, its responses, and whether a boundary is uncertain.
PairStatus(apps, protocol, requests, responses) ==
    LET one == Len(requests) = 1 /\ Len(responses) = 1
        q == MessageAt(apps, requests[1])
        s == MessageAt(apps, responses[1])
    IN  IF Len(requests) = 0 THEN "orphan_response"
        ELSE IF Len(responses) = 0 THEN "unanswered"
        ELSE IF ~one THEN "ambiguous"
        ELSE IF protocol = "dnp3"
        THEN IF apps[requests[1][1]].direction = apps[responses[1][1]].direction
             THEN "ambiguous" ELSE "candidate_pair"
        ELSE IF ~ResponseMatches(q, s) THEN "inconsistent_response"
        ELSE IF ~q.boundary \/ ~s.boundary THEN "candidate_unverified_boundary"
        ELSE "candidate_pair"

\* `fates` and `keys` by message: what becomes of it, and its identifiers.
TransactionRows(apps, refs, fates, keys) ==
    LET asks(r) == IsRequest(apps[r[1]], MessageAt(apps, r))
        row(protocol, flow, qs, ss, status) ==
            [protocol |-> protocol, flow |-> flow, requests |-> Range(qs),
             responses |-> Range(ss), status |-> status]
        single(r) == row(apps[r[1]].protocol, apps[r[1]].flow, IF asks(r) THEN <<r>> ELSE <<>>,
                         IF asks(r) THEN <<>> ELSE <<r>>, fates[r])
        paired == SelectSeq(refs, LAMBDA r : fates[r] = "paired")
        group(k) ==
            LET qs == SelectSeq(paired, LAMBDA r : keys[r] = k /\ asks(r))
                ss == SelectSeq(paired, LAMBDA r : keys[r] = k /\ ~asks(r))
            IN  row(k[1], k[3], qs, ss, PairStatus(apps, k[1], qs, ss))
    IN  IF Len(refs) > MaxProtocolMessages THEN {}
        ELSE {single(r) : r \in Range(refs) \ Range(paired)}
               \cup {group(k) : k \in {keys[r] : r \in Range(paired)}}

Transactions(apps) ==
    LET refs == MessageRefs(apps)
    IN  TransactionRows(apps, refs,
            [r \in Range(refs) |-> Fate(apps[r[1]], MessageAt(apps, r))],
            [r \in Range(refs) |-> TransactionKey(apps[r[1]], MessageAt(apps, r))])

(***************************************************************************)
(* Confirmations.                                                          *)
(***************************************************************************)
FragmentsOf(a) == IF a.protocol = "dnp3" THEN a.result.fragments ELSE <<>>
FragmentRefs(apps) == Indices(apps, FragmentsOf)
FragmentAt(apps, r) == apps[r[1]].result.fragments[r[2]]

Witnessed(apps, r) ==
    FragmentIssue(apps[r[1]].result, FragmentAt(apps, r), apps[r[1]].capture) = "none"

\* The identifiers of a confirmation, or of what it would confirm.
ConfirmationKey(a, g) ==
    IF g.function = 0 THEN <<a.capture, a.flow, g.src, g.dst, g.seq, g.uns>>
    ELSE <<a.capture, a.flow, g.dst, g.src, g.seq, g.uns>>

\* Mutant of Excluded: only the first confirmation of the group is compared.
ExcludedByFirst(apps, confirms, r) ==
    LET c == confirms[1]
    IN  IF ~FragmentAt(apps, r).con THEN "target_does_not_request_confirmation"
        ELSE IF apps[c[1]].direction = apps[r[1]].direction
        THEN "captured_application_directions_not_opposite"
        ELSE IF LinkDirection(apps[c[1]].result, FragmentAt(apps, c))
                  = LinkDirection(apps[r[1]].result, FragmentAt(apps, r))
        THEN "link_dir_not_opposite"
        ELSE "none"

\* Why a response is no target of the confirmations of its group.
Excluded(apps, confirms, r) ==
    LET captured(c) == apps[c[1]].direction # apps[r[1]].direction
        linked(c) == LinkDirection(apps[c[1]].result, FragmentAt(apps, c))
                       # LinkDirection(apps[r[1]].result, FragmentAt(apps, r))
        some == Range(confirms)
    IN  IF ~FragmentAt(apps, r).con THEN "target_does_not_request_confirmation"
        ELSE IF ~\E c \in some : captured(c) THEN "captured_application_directions_not_opposite"
        ELSE IF ~\E c \in some : linked(c) THEN "link_dir_not_opposite"
        ELSE IF ~\E c \in some : captured(c) /\ linked(c)
        THEN "direction_evidence_not_jointly_compatible"
        ELSE "none"

\* The fragments that cannot be assigned to a group of this capture and flow.
Blocking(apps, capture, flow) ==
    {r \in Range(FragmentRefs(apps)) :
        ~Witnessed(apps, r) /\ apps[r[1]].flow = flow /\ apps[r[1]].capture \in {capture, "mixed"}}

ConfirmationStatus(apps, confirms, targets, excluded, blocking) ==
    IF \E r \in blocking : apps[r[1]].capture = "mixed" THEN "ambiguous_scope"
    ELSE IF blocking # {} THEN "ambiguous_unverified"
    ELSE IF Len(confirms) > 1 THEN "ambiguous_confirmation"
    ELSE IF targets = {} THEN "unmatched_confirmation"
    ELSE IF Cardinality(targets) > 1 \/ excluded # {} THEN "ambiguous_response"
    ELSE "candidate_confirmation"

ConfirmationGroup(apps, members, k) ==
    LET mine == SelectSeq(members, LAMBDA r : ConfirmationKey(apps[r[1]], FragmentAt(apps, r)) = k)
        confirms == SelectSeq(mine, LAMBDA r : FragmentAt(apps, r).function = 0)
        responses == {r \in Range(mine) : FragmentAt(apps, r).function # 0}
        targets == IF confirms = <<>> THEN {}
                   ELSE {r \in responses : Excluded(apps, confirms, r) = "none"}
        blocking == Blocking(apps, k[1], k[2])
    IN  [flow |-> k[2], confirms |-> Range(confirms), targets |-> targets,
         excluded |-> responses \ targets, unclassified |-> blocking,
         status |-> ConfirmationStatus(apps, confirms, targets, responses \ targets, blocking)]

ConfirmationCandidates(apps) ==
    LET members == SelectSeq(FragmentRefs(apps),
                             LAMBDA r : Witnessed(apps, r)
                                          /\ FragmentAt(apps, r).function \in {0, 129, 130})
        keys == {ConfirmationKey(apps[r[1]], FragmentAt(apps, r)) : r \in Range(members)}
        unclassified == {r \in Range(FragmentRefs(apps)) : ~Witnessed(apps, r)}
    IN  IF Len(FragmentRefs(apps)) > MaxProtocolMessages THEN {}
        ELSE {g \in {ConfirmationGroup(apps, members, k) : k \in keys} : g.confirms # {}}
               \cup {[flow |-> apps[r[1]].flow, confirms |-> {}, targets |-> {}, excluded |-> {},
                      unclassified |-> {r}, status |-> "unclassified"] : r \in unclassified}

PairingInit == applications = <<>>

AddApplication(menu) ==
    \E a \in menu :
        /\ Len(applications) < MaxApplications
        /\ applications' = Append(applications, a)

(***************************************************************************)
(* Properties.                                                             *)
(***************************************************************************)
\* Two readings of the same octets agree: the link frames that the decoder put behind a fragment
\* verify again, whatever was repeated, reordered or interrupted, unless the header or an address
\* is outside the pairing subset; and a complete message verifies when its fragments do and its
\* DIR bit is that of its role (dnp3_workflow.rs verified_fragment_witness and
\* verified_message_direction against dnp3.rs decode).
VerifierAgrees ==
    /\ \A i \in 1 .. Len(dnp.fragments) :
           LET g == dnp.fragments[i]
           IN  (FragmentIssue(dnp, g, "c1") = "none") =
                   (/\ HeaderIssue(g.raw) = "none" /\ g.function # 31
                    /\ Individual(g.src) /\ Individual(g.dst))
    /\ \A n \in 1 .. Len(dnp.messages) :
           LET m == dnp.messages[n]
           IN  m.complete =>
               (MessageIssue(dnp, m, "c1") = "none") =
                   (/\ \A i \in Range(m.fragments) :
                           FragmentIssue(dnp, dnp.fragments[i], "c1") = "none"
                    /\ LinkDirection(dnp, dnp.fragments[m.fragments[1]]) = RoleDirection(m.class))

\* What is decoded can be relied on: a complete message is one contiguous, consistent sequence of
\* fragments, nothing decoded is dropped or told twice (src/dnp3.rs decode), and a second reading
\* of the link frames behind it agrees (dnp3_workflow.rs).
DecodingSound == WholeMessages /\ Accounted /\ VerifierAgrees

\* A pair that is offered as a candidate has no rival: no other verified message of that capture
\* and flow carries the identifiers, and for a confirmation no fragment of the flow is unread
\* (correlate.rs transactions, dnp3_confirmations.rs dnp3_confirmation_candidates).
CandidatesUnrivalled ==
    /\ \A t \in Transactions(applications) :
           t.status \in {"candidate_pair", "candidate_unverified_boundary"} =>
               LET q == CHOOSE r \in t.requests : TRUE
                   s == CHOOSE r \in t.responses : TRUE
                   a == applications[q[1]]
                   b == applications[s[1]]
                   key == TransactionKey(a, MessageAt(applications, q))
               IN  /\ t.requests = {q} /\ t.responses = {s}
                   /\ a.capture = b.capture /\ a.flow = b.flow
                   /\ a.protocol = "dnp3" => a.direction # b.direction
                   /\ \A r \in Range(MessageRefs(applications)) \ {q, s} :
                          LET m == MessageAt(applications, r)
                          IN  ~(/\ applications[r[1]].protocol = a.protocol
                                /\ Fate(applications[r[1]], m) = "paired"
                                /\ TransactionKey(applications[r[1]], m) = key)
    /\ \A c \in ConfirmationCandidates(applications) :
           c.status = "candidate_confirmation" =>
               LET q == CHOOSE r \in c.confirms : TRUE
                   s == CHOOSE r \in c.targets : TRUE
                   a == applications[q[1]]
                   f == FragmentAt(applications, q)
                   g == FragmentAt(applications, s)
               IN  /\ c.confirms = {q} /\ c.targets = {s} /\ g.con
                   /\ a.direction # applications[s[1]].direction
                   /\ \A r \in Range(FragmentRefs(applications)) :
                          applications[r[1]].flow = a.flow
                              /\ applications[r[1]].capture \in {a.capture, "mixed"} =>
                          LET h == FragmentAt(applications, r)
                          IN  /\ Witnessed(applications, r)
                              /\ h.function = 0 /\ h.src = f.src /\ h.dst = f.dst
                                   /\ h.seq = f.seq /\ h.uns = f.uns => r = q
                              /\ h.function \in {129, 130} /\ h.src = g.src /\ h.dst = g.dst
                                   /\ h.seq = g.seq /\ h.uns = g.uns => r = s

Mirror(refs) == {<<Len(applications) + 1 - r[1], r[2]>> : r \in refs}

\* The order in which the directions were decoded decides nothing: read from the last to the first
\* they give the same pairs, confirmations and reasons (correlate.rs: reused numbers "remain
\* ambiguous rather than being joined by an invented clock/order heuristic").
OrderIrrelevant ==
    /\ Transactions(Reverse(applications)) =
           {[t EXCEPT !.requests = Mirror(@), !.responses = Mirror(@)] :
               t \in Transactions(applications)}
    /\ ConfirmationCandidates(Reverse(applications)) =
           {[c EXCEPT !.confirms = Mirror(@), !.targets = Mirror(@), !.excluded = Mirror(@),
                      !.unclassified = Mirror(@)] :
               c \in ConfirmationCandidates(applications)}

\* A candidate pair has no rival, in whichever order the directions of the
\* flows were analysed (src/correlate.rs).
PairingSound == CandidatesUnrivalled /\ OrderIrrelevant

(***************************************************************************)
(* Group 70 file transfer over complete DNP3 messages                      *)
(* (src/product/src/deep/dnp_file.rs, called by                            *)
(* src/product/src/deep/sink.rs). Each message is parsed, its file objects *)
(* are applied to what is known of the handle, and the answer says whether *)
(* the blocks seen cover the declared file.                                *)
(*                                                                         *)
(* A message is [kind, session, src, dst, objects]; kind is "message", or  *)
(* "gap" (a transport boundary or the end of that session) or "boundary"   *)
(* (the end of a window), which carry no objects. An object is             *)
(* [kind, handle, request, size, max, block, content]; its kind is one of  *)
(* the six of FileObject, "cut" (octets end inside it), "wrong" (fields    *)
(* that cannot be read) or "other" (not a file object). A content is       *)
(* [length, hash].                                                         *)
(***************************************************************************)
CONSTANTS
    Elements,    \* limits.elements
    Active,      \* limits.active
    MaxFileLog   \* bound: messages and boundaries of a run

VARIABLES
    file,      \* pending, states, the last answer, and whether a limit or a reading failed
    fileLog    \* what was observed, in order

fileVars == <<file, fileLog>>

Nothing == [x \in {} |-> x]

FileInit ==
    /\ file = [pending |-> Nothing, states |-> Nothing, status |-> "none", key |-> <<>>,
               failed |-> FALSE]
    /\ fileLog = <<>>

Scope(m) == IF m.src < m.dst THEN <<m.session, m.src, m.dst>> ELSE <<m.session, m.dst, m.src>>

(***************************************************************************)
(* Parsing. The first object that is not plainly read decides.             *)
(***************************************************************************)
ParseObject(o) == IF o.kind = "wrong" THEN "error" ELSE "read"

Parse(objects) ==
    LET odd == {i \in 1 .. Len(objects) :
                   \/ objects[i].kind \in {"cut", "other"}
                   \/ i > Elements \/ ParseObject(objects[i]) = "error"}
        first == CHOOSE i \in odd : \A j \in odd : i <= j
    IN  IF objects = <<>> THEN "none"
        ELSE IF odd = {} THEN "objects"
        ELSE IF objects[first].kind = "other" THEN IF first = 1 THEN "none" ELSE "unsupported"
        ELSE IF objects[first].kind = "cut" THEN "incomplete"
        ELSE "error"

(***************************************************************************)
(* What is known of a handle.                                              *)
(***************************************************************************)
NewState == [requests |-> {}, blocks |-> Nothing, duplicate |-> {}, conflicting |-> {},
             statusOnly |-> {}, metadataConflict |-> FALSE, declared |-> <<>>, witnesses |-> {}]

State(states, key) == IF key \in DOMAIN states THEN states[key] ELSE NewState

StateRefused(states, key) == key \notin DOMAIN states /\ Cardinality(DOMAIN states) >= Active

Disagrees(old, o) ==
    old.size # o.size \/ (old.max > 0 /\ o.max > 0 /\ old.max # o.max)

\* The work of one message: the maps so far, the handles touched, and how it goes on.
AddDescriptor(w, scope, o) ==
    LET at == <<scope, o.request>>
    IN  IF at \notin DOMAIN w.pending /\ Cardinality(DOMAIN w.pending) >= Active
        THEN [w EXCEPT !.then = "error"]
        ELSE [w EXCEPT !.pending = (at :> [size |-> o.size, max |-> o.max]) @@ @]

AddStatus(w, scope, o) ==
    LET at == <<scope, o.request>>
        key == <<scope, o.handle>>
        asked == IF at \in DOMAIN w.pending THEN <<w.pending[at]>> ELSE <<>>
        rest == Restrict(w.pending, DOMAIN w.pending \ {at})
        s == State(w.states, key)
        next == [s EXCEPT !.requests = @ \cup {o.request},
                          !.metadataConflict =
                              @ \/ \E d \in ToSet(s.declared \o asked) : Disagrees(d, o),
                          !.declared = <<[size |-> o.size, max |-> o.max]>>]
    IN  IF StateRefused(w.states, key) THEN [w EXCEPT !.pending = rest, !.then = "error"]
        ELSE [w EXCEPT !.pending = rest, !.states = (key :> next) @@ @, !.touched = @ \cup {key}]

AddBlock(w, scope, o) ==
    LET key == <<scope, o.handle>>
        s == State(w.states, key)
        next == IF o.block \notin DOMAIN s.blocks
                THEN [s EXCEPT !.blocks = (o.block :> o.content) @@ @]
                ELSE IF s.blocks[o.block] = o.content
                THEN [s EXCEPT !.duplicate = @ \cup {o.block}]
                ELSE [s EXCEPT !.conflicting = @ \cup {o.block}]
    IN  IF StateRefused(w.states, key) THEN [w EXCEPT !.then = "error"]
        ELSE [w EXCEPT !.states = (key :> next) @@ @, !.touched = @ \cup {key}]

AddBlockStatus(w, scope, o) ==
    LET key == <<scope, o.handle>>
        s == State(w.states, key)
        next == IF o.block \in DOMAIN s.blocks THEN s
                ELSE [s EXCEPT !.statusOnly = @ \cup {o.block}]
    IN  IF StateRefused(w.states, key) THEN [w EXCEPT !.then = "error"]
        ELSE [w EXCEPT !.states = (key :> next) @@ @, !.touched = @ \cup {key}]

\* An object of a message; after an authentication or a limit the rest is not looked at.
ApplyObject(w, scope, o) ==
    IF w.then # "more" THEN w
    ELSE CASE o.kind = "authentication" -> [w EXCEPT !.then = "unsupported"]
           [] o.kind = "specification" -> w
           [] o.kind = "descriptor" -> AddDescriptor(w, scope, o)
           [] o.kind = "status" -> AddStatus(w, scope, o)
           [] o.kind = "block" -> AddBlock(w, scope, o)
           [] o.kind = "blockstatus" -> AddBlockStatus(w, scope, o)

(***************************************************************************)
(* The answer.                                                             *)
(***************************************************************************)
ContentBytes(s) == FoldSet(LAMBDA b, sum : sum + s.blocks[b].length, 0, DOMAIN s.blocks)

\* The number of blocks looked for: from the declaration, else up to the highest block seen.
ExpectedBlocks(s) ==
    IF s.declared # <<>> /\ s.declared[1].max > 0
    THEN (s.declared[1].size + s.declared[1].max - 1) \div s.declared[1].max
    ELSE IF DOMAIN s.blocks = {} THEN 0
    ELSE 1 + CHOOSE b \in DOMAIN s.blocks : \A c \in DOMAIN s.blocks : c <= b

Missing(s) == (0 .. ExpectedBlocks(s) - 1) \ DOMAIN s.blocks

Projection(s) ==
    IF ExpectedBlocks(s) > Elements \/ Cardinality(DOMAIN s.blocks) > Elements
         \/ Cardinality(s.requests) > Elements
    THEN "error"
    ELSE IF s.metadataConflict \/ s.conflicting # {} THEN "ambiguous"
    ELSE IF Missing(s) = {} /\ s.declared # <<>> /\ s.declared[1].size = ContentBytes(s)
    THEN "candidate_complete_source_coverage"
    ELSE "incomplete"

\* The message becomes a witness of every handle that it touched.
Witness(states, touched, n) ==
    [k \in DOMAIN states |->
        IF k \in touched THEN [states[k] EXCEPT !.witnesses = @ \cup {n}] ELSE states[k]]

Answer(w, n) ==
    LET full == \E k \in w.touched : Cardinality(w.states[k].witnesses) >= Elements
        states == Witness(w.states, w.touched, n)
        key == CHOOSE k \in w.touched : TRUE
        result(status, at, kept) ==
            [pending |-> w.pending, states |-> kept, status |-> status, key |-> at,
             failed |-> status = "error"]
    IN  IF w.then = "unsupported" THEN result("unsupported", <<>>, w.states)
        ELSE IF w.then = "error" \/ full THEN result("error", <<>>, w.states)
        ELSE IF w.touched = {} THEN result("none", <<>>, states)
        ELSE IF Cardinality(w.touched) > 1 THEN result("ambiguous", <<>>, states)
        ELSE result(Projection(states[key]), key, states)

Observe(f, m, n) ==
    LET parsed == Parse(m.objects)
        start == [pending |-> f.pending, states |-> f.states, touched |-> {}, then |-> "more"]
    IN  IF parsed # "objects"
        THEN [f EXCEPT !.status = parsed, !.key = <<>>, !.failed = parsed = "error"]
        ELSE Answer(FoldLeft(LAMBDA w, o : ApplyObject(w, Scope(m), o), start, m.objects), n)

\* Mutant of ResetSession: what was asked for is dropped, the handles stay.
ResetSessionPending(f, session) ==
    [f EXCEPT !.pending = Restrict(@, {k \in DOMAIN @ : k[1][1] # session}),
              !.status = "none", !.key = <<>>]

ResetSession(f, session) ==
    [f EXCEPT !.pending = Restrict(@, {k \in DOMAIN @ : k[1][1] # session}),
              !.states = Restrict(@, {k \in DOMAIN @ : k[1][1] # session}),
              !.status = "none", !.key = <<>>]

Reset(f) == [f EXCEPT !.pending = Nothing, !.states = Nothing, !.status = "none", !.key = <<>>]

\* The sink hands over a message or a boundary; an error ends the run.
ObserveEvent(menu) ==
    \E m \in menu :
        /\ ~file.failed /\ Len(fileLog) < MaxFileLog
        /\ fileLog' = Append(fileLog, m)
        /\ file' = CASE m.kind = "message" -> Observe(file, m, Len(fileLog) + 1)
                     [] m.kind = "gap" -> ResetSession(file, m.session)
                     [] m.kind = "boundary" -> Reset(file)

(***************************************************************************)
(* Properties.                                                             *)
(***************************************************************************)
Ends(m, session) == m.kind = "boundary" \/ (m.kind = "gap" /\ m.session = session)

\* The messages since the last end of this session whose objects count for this scope.
Since(scope) ==
    {n \in 1 .. Len(fileLog) :
        /\ fileLog[n].kind = "message" /\ Scope(fileLog[n]) = scope
        /\ Parse(fileLog[n].objects) = "objects"
        /\ \A later \in n .. Len(fileLog) : ~Ends(fileLog[later], scope[1])}

\* The objects of a message that come before any authentication.
Considered(n) ==
    LET objects == fileLog[n].objects
    IN  {objects[i] : i \in {j \in 1 .. Len(objects) :
                                \A k \in 1 .. j : objects[k].kind # "authentication"}}

SeenOf(scope, handle, kind) ==
    {o \in UNION {Considered(n) : n \in Since(scope)} : o.kind = kind /\ o.handle = handle}

\* A file is offered as completely covered only by what was seen of that handle between these two
\* addresses since the session was last interrupted: every block looked for was seen, no block was
\* seen with two contents, every status declared the one size that the contents add up to, and
\* each message that is named as witness is one of those (dnp_file.rs observe and projection,
\* sink.rs reset_session at a gap, a conflict or the end of a flow). The blocks that are kept are
\* all that was seen, whatever the answer.
FileCoverage ==
    /\ file.status = "candidate_complete_source_coverage" =>
           LET s == file.states[file.key]
               scope == file.key[1]
               blocks == SeenOf(scope, file.key[2], "block")
               declared == SeenOf(scope, file.key[2], "status")
           IN  /\ \A n \in 0 .. ExpectedBlocks(s) - 1 : \E o \in blocks : o.block = n
               /\ \A o, p \in blocks : o.block = p.block => o.content = p.content
               /\ declared # {}
               /\ \A o \in declared : o.size = ContentBytes(s)
               /\ s.witnesses \subseteq Since(scope)
    /\ ~file.failed =>
           \A k \in DOMAIN file.states :
               LET s == file.states[k]
                   blocks == SeenOf(k[1], k[2], "block")
               IN  /\ DOMAIN s.blocks = {o.block : o \in blocks}
                   /\ s.conflicting = {n \in DOMAIN s.blocks :
                                          \E o \in blocks : o.block = n /\ o.content # s.blocks[n]}
=============================================================================
