---------------------------- MODULE MCReassembly ----------------------------
(***************************************************************************)
(* The components that put captured pieces together, and what is decoded   *)
(* from the result: a behaviour is one of a fragment reassembler, of a     *)
(* stream assembler, of the snapshot engine, of the runner's fragment      *)
(* contexts or of the DNP3 analysis, as `part` says; the others stay as    *)
(* they are.                                                               *)
(*                                                                         *)
(* Fragments: one IPv4 and one IPv6 key, datagrams of up to three bytes,   *)
(* and fragments that overlap, agree, disagree, repeat, end the datagram   *)
(* at two different lengths, or fall outside it.                           *)
(* Streams: sixteen sequence numbers, spans of three, segments around the  *)
(* wrap from 15 to 0, one of them half the space away from the base.       *)
(* Engine: captures of up to five packets: one- and two-byte datagrams,    *)
(* whole or in fragments of an IPv4 and an IPv6 key that agree, disagree,  *)
(* repeat or never complete, with every kind of transport behind them.     *)
(* Contexts: captures of up to five packets on three tunnel paths, room    *)
(* for two of them and a depth of two; fragments in two tunnels, and in    *)
(* datagrams that were fragmented themselves.                              *)
(* DNP3: the scenes below.                                                 *)
(***************************************************************************)
EXTENDS StreamPlugins, FragmentReassembler

(***************************************************************************)
(* The DNP3 analysis in six scenes, as `scene` says: the decoder on        *)
(* segments, on fragments and on everything that may come between them;    *)
(* the offline pairing of analysed directions; a window of the streaming   *)
(* plugins; the file transfers of a run.                                   *)
(***************************************************************************)
VARIABLE scene

Unit(function, seq, fir, fin) ==
    [function |-> function, uns |-> function = 130, seq |-> seq, fir |-> fir, fin |-> fin,
     con |-> FALSE, long |-> function = 130]

Link(src, dst, function) ==
    [kind |-> "frame", src |-> src, dst |-> dst, direction |-> TRUE, primary |-> TRUE,
     function |-> function, fcv |-> function = 3, reserved |-> FALSE, user |-> FALSE,
     seq |-> 0, fir |-> FALSE, fin |-> FALSE, payload |-> <<>>, at |-> 0]

User(src, seq, fir, fin, payload) ==
    [Link(src, 9, 4) EXCEPT !.user = TRUE, !.seq = seq, !.fir = fir, !.fin = fin,
                            !.payload = payload]

Other(kind) == [Link(0, 0, 0) EXCEPT !.kind = kind]

Read == Unit(1, 1, TRUE, TRUE)
Whole(unit) == User(1, 0, TRUE, TRUE, <<unit>>)

\* Segments of one pair: in order, repeated, conflicting, restarted, wrapping around.
Segments ==
    {User(1, 0, TRUE, FALSE, <<Read>>), User(1, 1, FALSE, FALSE, <<Unit(2, 0, TRUE, TRUE)>>),
     User(1, 1, FALSE, FALSE, <<>>), User(1, 2, FALSE, FALSE, <<>>),
     User(1, 2, FALSE, TRUE, <<>>), User(1, 0, FALSE, TRUE, <<>>), Other("noise")}

\* Fragments of two pairs and several classes.
Fragments ==
    {Whole(Unit(1, 2, TRUE, FALSE)), Whole(Unit(1, 0, FALSE, FALSE)),
     Whole(Unit(1, 0, FALSE, TRUE)), Whole(Unit(1, 1, FALSE, TRUE)),
     Whole(Unit(2, 0, FALSE, TRUE)),
     [Whole(Unit(1, 0, FALSE, TRUE)) EXCEPT !.direction = FALSE],
     User(2, 0, TRUE, TRUE, <<Unit(130, 0, TRUE, FALSE)>>),
     User(2, 1, TRUE, TRUE, <<Unit(130, 1, FALSE, TRUE)>>)}

\* Everything that may interrupt a message between two of its fragments.
Breaks ==
    {Whole(Unit(1, 0, TRUE, FALSE)), Whole(Unit(1, 1, FALSE, TRUE)),
     User(1, 1, FALSE, FALSE, <<>>), Whole(Unit(129, 0, TRUE, TRUE)),
     User(1, 0, TRUE, FALSE, <<>>),
     [Link(1, 9, 3) EXCEPT !.fcv = FALSE], Link(1, 9, 0), Link(1, 9, 1),
     [Link(1, 9, 0) EXCEPT !.primary = FALSE, !.reserved = TRUE],
     User(65530, 0, TRUE, TRUE, <<Read>>), [Whole(Read) EXCEPT !.dst = 65533],
     [Whole(Unit(32, 0, TRUE, TRUE)) EXCEPT !.dst = 65531],
     [Whole(Read) EXCEPT !.dst = 65532], [Link(1, 65533, 9) EXCEPT !.direction = FALSE],
     Whole(Unit(32, 0, TRUE, TRUE)),
     Other("noise"), Other("crc"), Other("cut"), Other("header"), Other("stub"), Other("gap")}

\* One direction of a flow: its link frames, or its Modbus messages.
App(protocol, capture, flow, direction, items, modbus) ==
    [protocol |-> protocol, capture |-> capture, flow |-> flow, direction |-> direction,
     result |-> items, modbus |-> modbus]

Dnp(direction, items) == App("dnp3", "c1", 1, direction, items, <<>>)
Bus(direction, message) == App("modbus", "c1", 1, direction, <<>>, <<message>>)

FromMaster(unit) == User(1, 0, TRUE, TRUE, <<unit>>)
FromOutstation(unit) ==
    [User(9, 0, TRUE, TRUE, <<unit>>) EXCEPT !.dst = 1, !.direction = FALSE]

Ask(function) == FromMaster(Unit(function, 1, TRUE, TRUE))
Reply == [Unit(129, 1, TRUE, TRUE) EXCEPT !.long = TRUE]
Confirmed(unit) == [unit EXCEPT !.con = TRUE]
Confirm == Unit(0, 1, TRUE, TRUE)
Unasked == [Unit(130, 1, TRUE, TRUE) EXCEPT !.con = TRUE]

Call(role, function, body) ==
    [role |-> role, shape |-> TRUE, supported |-> TRUE, unit |-> 1, tx |-> 1,
     function |-> function, boundary |-> TRUE, body |-> body]

Captured ==
    {Dnp(0, <<Ask(1)>>), Dnp(0, <<Ask(6)>>), Dnp(0, <<Ask(31)>>),
     Dnp(1, <<FromOutstation(Reply)>>), Dnp(0, <<FromOutstation(Confirmed(Reply))>>),
     Dnp(1, <<FromOutstation(Confirmed(Reply))>>),
     Dnp(1, <<[FromOutstation(Confirmed(Reply)) EXCEPT !.direction = TRUE]>>),
     Dnp(0, <<FromMaster(Confirm)>>), Dnp(1, <<FromMaster(Confirm)>>),
     Dnp(0, <<[FromMaster(Confirm) EXCEPT !.direction = FALSE]>>),
     Dnp(0, <<FromMaster([Confirm EXCEPT !.uns = TRUE])>>),
     Dnp(1, <<FromOutstation(Unasked)>>),
     App("dnp3", "mixed", 1, 0, <<Ask(1)>>, <<>>), App("dnp3", "c2", 1, 0, <<Ask(31)>>, <<>>),
     App("dnp3", "c1", 2, 0, <<FromMaster(Confirm)>>, <<>>),
     Bus(0, Call("request", 3, "x")), Bus(1, Call("response", 3, "x")),
     Bus(1, Call("response", 131, "y")), Bus(1, Call("response", 3, "y")),
     Bus(0, [Call("request", 3, "x") EXCEPT !.boundary = FALSE]),
     Bus(0, [Call("request", 3, "x") EXCEPT !.role = "unknown"])}

\* With what the decoder makes of the items.
Directions ==
    {[a EXCEPT !.result = FoldLeft(LAMBDA d, f : Decode(d, f, Len(d.frames) + 1),
                                   NewDecoder, @)] : a \in Captured}

(***************************************************************************)
(* Chunks, flows and datagrams of a window.                                *)
(***************************************************************************)
Chunk(protocols, packets) ==
    [offset |-> 0, matches |-> protocols, ports |-> <<>>, items |-> <<>>, packets |-> packets,
     frames |-> <<>>, tail |-> {}]
Stretch(items, packets) == [Chunk(<<"dnp3">>, packets) EXCEPT !.items = items]
Framed(protocol, frames, tail) ==
    [Chunk(<<protocol>>, <<1, 2, 3, 4>>) EXCEPT !.frames = frames, !.tail = tail]

Piece(packets, record) == [kind |-> "frame", packets |-> packets, hint |-> <<>>,
                           complete |-> TRUE, record |-> record]
Hint(role, compat) == <<[key |-> <<1, 1, 3>>, role |-> role, compat |-> compat]>>
Paired(packets, role, compat) == [Piece(packets, "none") EXCEPT !.hint = Hint(role, compat)]
Broken == [Piece({3}, "none") EXCEPT !.kind = "malformed"]

Flow(session, syn, here, there) ==
    [tcp |-> TRUE, session |-> session, generation |-> 1, trouble |-> "no",
     syn |-> <<TRUE, syn>>, chunks |-> <<here, there>>]

Confirming == Stretch(<<FromMaster(Confirm)>>, <<4>>)
Target == Stretch(<<FromOutstation(Confirmed(Reply))>>, <<3>>)
Here ==
    {<<>>, <<Stretch(<<Ask(1)>>, <<1>>)>>, <<Stretch(<<Ask(1), Ask(1)>>, <<1, 5>>)>>,
     <<Stretch(<<Ask(1), FromMaster(Confirm)>>, <<1, 4>>)>>, <<Confirming>>,
     <<Stretch(<<FromMaster(Confirm), FromMaster(Confirm)>>, <<4, 5>>)>>,
     <<Stretch(<<Ask(6), Other("crc")>>, <<1, 5>>)>>,
     <<Stretch(<<Ask(1)>>, <<6>>), Stretch(<<Ask(2)>>, <<7>>)>>,
     <<[Stretch(<<Ask(1)>>, <<1>>) EXCEPT !.matches = <<"dnp3", "modbus">>,
                                          !.frames = <<Broken>>]>>}
There ==
    {<<>>, <<Target>>, <<Stretch(<<FromOutstation(Reply)>>, <<2>>)>>,
     <<Stretch(<<FromOutstation(Reply), FromOutstation(Confirmed(Reply))>>, <<2, 3>>)>>,
     <<Stretch(<<FromOutstation(Unit(32, 1, TRUE, TRUE)), FromOutstation(Confirmed(Reply))>>,
               <<2, 3>>)>>,
     <<Stretch(<<FromOutstation(Confirmed(Reply)), FromMaster(Confirm)>>, <<2, 3>>)>>,
     <<Stretch(<<FromOutstation([Reply EXCEPT !.fin = FALSE]), Other("noise")>>, <<2, 5>>)>>,
     <<[Target EXCEPT !.matches = <<>>, !.ports = <<"dnp3">>]>>}
Flows ==
    {Flow(1, syn, here, there) : syn \in BOOLEAN, here \in Here, there \in There}
      \cup {Flow(2, TRUE, <<Framed("modbus", <<Paired({1, 2}, "request", c)>>, {})>>,
                 <<Framed("modbus", <<Paired({3}, "response", "b")>> \o more, {4})>>) :
                c \in {"", "a", "b"}, more \in {<<>>, <<Paired({4}, "response", "")>>, <<Broken>>}}
      \cup {Flow(3, TRUE, <<Framed("tls", <<Piece({1}, "part")>> \o more, {})>>,
                 <<Framed("http1", <<[Piece({2}, "none") EXCEPT !.complete = whole]>>, {})>>) :
                more \in {<<>>, <<Piece({2}, "none")>>, <<Piece({2, 3}, "hello")>>},
                whole \in BOOLEAN}
      \cup {Flow(3, TRUE, <<Framed("http1", <<Broken>>, {})>>, <<>>),
            Flow(3, TRUE, <<Framed("tls", <<Piece({1}, "unreadable")>>, {})>>, <<>>)}
      \cup {[Flow(3, TRUE, <<Confirming>>, <<Target>>) EXCEPT !.trouble = t] :
                t \in {"anomaly", "error"}}

Datagrams ==
    {[tcp |-> FALSE, session |-> 9, direction |-> 0, index |-> 0, chunk |-> c] :
        c \in {Stretch(<<Ask(1)>>, <<1>>), Target,
               Framed("dns", <<Paired({1}, "request", "")>>, {}), Framed("tls", <<>>, {})}}

Obj(kind, handle) == [kind |-> kind, handle |-> handle, request |-> 1, size |-> 0, max |-> 0,
                      block |-> 0, content |-> [length |-> 0, hash |-> "a"]]
Opened(handle, size, max) == [Obj("status", handle) EXCEPT !.size = size, !.max = max]
Asked(size, max) == [Obj("descriptor", 0) EXCEPT !.size = size, !.max = max]
Data(handle, n, length, hash) ==
    [Obj("block", handle) EXCEPT !.block = n, !.content = [length |-> length, hash |-> hash]]
Acked(handle, n) == [Obj("blockstatus", handle) EXCEPT !.block = n]
Sent(session, objects) ==
    [kind |-> "message", session |-> session, src |-> 1, dst |-> 9, objects |-> objects]
Event(kind, session) == [Sent(session, <<>>) EXCEPT !.kind = kind]

FileEvents ==
    {Sent(7, <<o>>) : o \in {Asked(2, 1), Opened(1, 2, 1), Opened(1, 2, 0), Opened(1, 1, 1),
                             Data(1, 0, 1, "a"), Data(1, 1, 1, "a"), Data(1, 1, 1, "b"),
                             Data(1, 2, 0, "a"), Acked(1, 1), Obj("specification", 0),
                             Obj("wrong", 1), Obj("cut", 1), Obj("other", 1)}}
      \cup {Sent(7, <<Data(1, 0, 1, "a"), Obj("authentication", 0), Data(1, 1, 1, "a")>>),
            Sent(7, <<Data(1, 0, 1, "a"), Data(2, 0, 1, "b")>>),
            Sent(7, <<Data(1, 0, 1, "a"), Obj("other", 1)>>),
            Sent(7, <<Asked(2, 2), Opened(1, 2, 1)>>),
            [Sent(7, <<Data(1, 1, 1, "a")>>) EXCEPT !.src = 9, !.dst = 1],
            [Sent(7, <<Data(1, 1, 1, "a")>>) EXCEPT !.dst = 8],
            Sent(8, <<Opened(1, 1, 1)>>),
            Event("gap", 7), Event("gap", 8), Event("boundary", 0)}

Scenes == [segments |-> Segments, fragments |-> Fragments, breaks |-> Breaks]
Depth == [segments |-> 5, fragments |-> 5, breaks |-> 3]

MCInit ==
    /\ DnpInit /\ PairingInit /\ PluginInit /\ FileInit
    /\ scene \in DOMAIN Scenes \cup {"pairing", "window", "file"}

MCNext ==
    /\ \/ /\ scene \in DOMAIN Scenes
          /\ Len(stream) < Depth[scene]
          /\ ReadItem(Scenes[scene])
          /\ UNCHANGED <<applications, pluginVars, fileVars>>
       \/ /\ scene = "pairing" /\ AddApplication(Directions)
          /\ UNCHANGED <<dnpVars, pluginVars, fileVars>>
       \/ /\ scene = "window" /\ (ReadDatagram(Datagrams) \/ FlushFlow(Flows) \/ Correlate)
          /\ UNCHANGED <<dnpVars, applications, fileVars>>
       \/ /\ scene = "file" /\ ObserveEvent(FileEvents)
          /\ UNCHANGED <<dnpVars, applications, pluginVars>>
    /\ UNCHANGED scene

CONSTANTS
    None, Half, StreamRetained, MaxSegments, Span, Syns, StreamSegments,
    Records, DecodePacket(_), RequireValid, MaxMessages, PacketBound, MaxFlows, IdleNs,
    LastFrame,  \* U64Max of the engine's and the runner's captures
    NotFragment, TunnelPackets, Inside(_, _), MaxContexts, MaxDepth, CapturedBound

VARIABLES
    part, asm, stage, policy, result,
    packets, frag, tracker, udp, reading, evidence,
    contexts, at, pushed, told, complete, ended

streamVars == <<asm, stage, policy, result>>
engineVars == <<packets, frag, tracker, udp, reading, evidence>>
runnerVars == <<contexts, at, pushed, told, complete, ended>>
dnp3Vars == <<dnpVars, applications, pluginVars, fileVars, scene>>

Snapshot == INSTANCE Engine
            WITH phase <- reading, U64Max <- LastFrame, Decode <- DecodePacket
Runner == INSTANCE FragmentContexts WITH U64Max <- LastFrame

F(k, o, dt, m, h, b) == [key |-> k, offset |-> o, data |-> dt, more |-> m, hdr |-> h, bad |-> b]

MCInputs ==
    {F(k, 0, <<0>>, TRUE, 0, FALSE) : k \in Keys}
      \cup {F(k, 0, <<0, 1>>, TRUE, 1, FALSE) : k \in Keys}
      \cup {F(k, 1, <<1>>, TRUE, 0, TRUE) : k \in Keys}
      \cup {F(k, 1, <<0>>, FALSE, 0, FALSE) : k \in Keys}
      \cup {F(k, 2, <<1>>, FALSE, 0, FALSE) : k \in Keys}
      \cup {F("v4", 1, <<1, 1>>, FALSE, 2, TRUE), F("v4", 1, <<0, 1>>, FALSE, 0, FALSE),
             F("v4", 2, <<1, 0>>, TRUE, 0, FALSE)}

MCSegments ==
    {<<15, <<0>>>>, <<15, <<0, 1>>>>, <<0, <<0>>>>, <<0, <<1, 1>>>>,
     <<1, <<1>>>>, <<1, <<0, 0>>>>, <<2, <<1>>>>, <<7, <<1>>>>, <<0, <<>>>>}

TcpSegment(flags, seq, data) ==
    [key |-> "k", dir |-> 0, seq |-> seq, ackno |-> 0, syn |-> flags = "S", ack |-> FALSE,
     fin |-> FALSE, rst |-> flags = "R", data |-> data]

\* The first byte tells the transport, the second the variant.
MCDecodePacket(bytes) ==
    CASE bytes[0] = 0 /\ DOMAIN bytes = 0 .. 0 ->
            [kind |-> "tcp", segment |-> TcpSegment("S", 1, <<>>)]
      [] bytes[0] = 0 /\ 1 \in DOMAIN bytes /\ bytes[1] = 1 ->
            [kind |-> "tcp", segment |-> TcpSegment("", 2, <<1>>)]
      [] bytes[0] = 0 /\ 1 \in DOMAIN bytes /\ bytes[1] = 0 ->
            [kind |-> "tcp", segment |-> TcpSegment("R", 2, <<>>)]
      [] bytes[0] = 1 /\ DOMAIN bytes = 0 .. 0 -> [kind |-> "udp", len |-> 2, dnp3 |-> TRUE]
      [] OTHER -> [kind |-> "error"]

W(bytes, bad, time) ==
    [kind |-> "whole", bytes |-> [i \in 0 .. (Len(bytes) - 1) |-> bytes[i + 1]],
     bad |-> bad, time |-> time]
P(key, offset, data, more) ==
    [kind |-> "fragment", bad |-> FALSE, time |-> 1,
     d |-> [key |-> key, offset |-> offset, data |-> data, more |-> more, hdr |-> 0,
            bad |-> FALSE]]

MCRecords ==
    {[kind |-> "undecodable", bad |-> FALSE], W(<<0>>, FALSE, 1), W(<<0>>, FALSE, None),
     W(<<0, 1>>, FALSE, 9), W(<<1>>, FALSE, 1), W(<<1, 1>>, FALSE, 1), W(<<1>>, TRUE, 1),
     P("v4", 0, <<0>>, TRUE), P("v4", 1, <<1>>, FALSE), P("v4", 1, <<0>>, FALSE),
     P("v6", 0, <<0>>, TRUE), P("v6", 1, <<1>>, FALSE), P("v6", 2, <<1>>, TRUE),
     P("v6", 3, <<1>>, FALSE)}

L(path, d) == [path |-> path, d |-> d, skip |-> 0]
Entire(path) == L(path, NotFragment)

MCTunnelPackets ==
    LET frags == {F("v4", 0, <<0>>, TRUE, 0, FALSE), F("v4", 1, <<1>>, FALSE, 0, FALSE),
                  F("v4", 1, <<0>>, FALSE, 0, FALSE), F("v6", 0, <<0, 1>>, TRUE, 0, FALSE),
                  F("v4", 2, <<0, 0>>, TRUE, 0, FALSE)}
        first == F("v4", 0, <<0>>, TRUE, 0, FALSE)
    IN  {<<L(0, d)>> : d \in frags}
          \cup {<<Entire(0), L(1, d)>> : d \in {e \in frags : e.key = "v4" /\ e.offset < 2}}
          \cup {<<Entire(0), Entire(1), L(2, first)>>,
                 <<Entire(0), Entire(1), Entire(2), L(3, first)>>}

\* What is inside a datagram of bytes numbered from 0, its own headers left
\* out.  In the outermost one: a first fragment in the second byte, or a last
\* one in both bytes, which may be of two packets.  In that of the first tunnel:
\* a first fragment of the second.
MCInside(path, bytes) ==
    CASE path = 0 /\ bytes[1] = 1 ->
            <<[L(1, F("v4", 0, <<1>>, TRUE, 0, FALSE)) EXCEPT !.skip = 1]>>
      [] path = 0 /\ bytes[1] = 0 -> <<L(1, F("v4", 1, <<0, 0>>, FALSE, 0, FALSE))>>
      [] path = 1 /\ bytes[0] = 0 ->
            <<[L(2, F("v4", 0, <<bytes[1]>>, TRUE, 0, FALSE)) EXCEPT !.skip = 1]>>
      [] OTHER -> <<>>

ReassemblyInit ==
    /\ Init
    /\ Snapshot!StreamInit
    /\ Snapshot!Init
    /\ Runner!ContextsInit
    /\ MCInit
    /\ part \in {"fragments", "stream", "engine", "contexts", "dnp3"}
    /\ part # "stream" => asm = Snapshot!AsmNew(None)
    /\ part # "dnp3" => scene = "file"

ReassemblyNext ==
    \/ part = "fragments" /\ Next
        /\ UNCHANGED <<part, streamVars, engineVars, runnerVars, dnp3Vars>>
    \/ part = "stream" /\ Snapshot!StreamNext
        /\ UNCHANGED <<part, vars, engineVars, runnerVars, dnp3Vars>>
    \/ part = "engine" /\ Snapshot!Next
        /\ UNCHANGED <<part, vars, streamVars, runnerVars, dnp3Vars>>
    \/ part = "contexts" /\ Runner!ContextsNext
        /\ UNCHANGED <<part, vars, streamVars, engineVars, dnp3Vars>>
    \/ part = "dnp3" /\ MCNext
        /\ UNCHANGED <<part, vars, streamVars, engineVars, runnerVars>>

ReassemblySpec ==
    /\ ReassemblyInit
    /\ [][ReassemblyNext]_<<part, vars, streamVars, engineVars, runnerVars, dnp3Vars>>

\* See Engine: the sweep of finish partitions the span into captured
\* bytes and gaps, reports every disagreement and picks a captured byte.
NothingLost == part = "stream" => Snapshot!NothingLost

\* See Engine and FragmentContexts: in the snapshot engine a packet waits exactly
\* while a live set holds its fragment, then is evidence of at most one datagram or
\* reported; in the streaming runner the same holds on every tunnel path, and a packet
\* waits or is given up on one path only, whatever it completed around that.
PacketsAccounted ==
    /\ part = "engine" => Snapshot!EngineAccounts
    /\ part = "contexts" => Runner!ContextsAccount
=============================================================================
