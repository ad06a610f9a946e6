-------------------------- MODULE FragmentContexts --------------------------
(***************************************************************************)
(* The fragment contexts of the streaming runner                           *)
(* (src/streaming/src/runner.rs, reassemble and layers): one reassembler   *)
(* per tunnel path, bounded in number.  A packet expires every context,    *)
(* then its datagrams are pushed one tunnel layer after another, until one *)
(* of them has to wait or is refused.  A datagram put together from        *)
(* fragments is peeled like any other, and what is inside it is pushed in  *)
(* its turn, with the packets its own bytes came from.                     *)
(*                                                                         *)
(* Paths are numbered in the order of the runner's map.  A captured packet *)
(* is the sequence of its layers, [path, d, skip]; d = NotFragment when    *)
(* the datagram is whole, and skip bytes of the packet, or of the          *)
(* reassembled datagram that was peeled, come before its payload.          *)
(* `pushed`, `told` and `complete` are history variables, sets of          *)
(* <<path, packet>>: the packets a fragment on that path was made of, that *)
(* the context named when it gave one up, and that are evidence of a       *)
(* datagram reassembled there.                                             *)
(***************************************************************************)
EXTENDS Fragment, SequencesExt

CONSTANTS
    NotFragment,    \* a datagram that is not a fragment
    TunnelPackets,  \* the packets that may be captured
    Inside(_, _),   \* the layers inside a datagram reassembled on a path
    MaxContexts,    \* c.max_tunnel_contexts
    MaxDepth,       \* c.max_tunnel_depth
    CapturedBound   \* model bound on the packets of a capture

VARIABLES contexts, at, pushed, told, complete, ended

contextVars == <<contexts, at, pushed, told, complete, ended>>

ContextsInit ==
    /\ contexts = [p \in {} |-> New]
    /\ at = 0
    /\ pushed = {} /\ told = {} /\ complete = {}
    /\ ended = FALSE

-----------------------------------------------------------------------------
(***************************************************************************)
(* A packet is worked on as a record [contexts, pushed, told, complete,    *)
(* layers, source, depth]: the layers still to come, the packet that each  *)
(* byte around them was captured in, and the tunnels already peeled.       *)
(***************************************************************************)
On(path, ids) == {path} \X ids

Without(st, path) ==
    [st EXCEPT !.contexts = [p \in DOMAIN @ \ {path} |-> @[p]],
               !.told = @ \cup On(path, UNION Finish(st.contexts[path].r))]

\* The loop of expire over every context.
ExpireAll(st, frame) ==
    LET after == [p \in DOMAIN st.contexts |-> Expire(st.contexts[p].r, frame)]
    IN  [st EXCEPT !.contexts = [p \in DOMAIN @ |-> [@[p] EXCEPT !.r = after[p].r]],
                   !.told = @ \cup UNION {On(p, UNION after[p].notices) : p \in DOMAIN after}]

\* The context with the least last_frame, the first of them in path order.
Oldest(cs) ==
    CHOOSE p \in DOMAIN cs : \A q \in DOMAIN cs :
        cs[p].last < cs[q].last \/ (cs[p].last = cs[q].last /\ p <= q)

\* Mutant of MakeRoom: an evicted context takes what it held with it.
MakeRoomSilently(st) ==
    IF Cardinality(DOMAIN st.contexts) < MaxContexts THEN st
    ELSE [Without(st, Oldest(st.contexts)) EXCEPT !.told = st.told]

MakeRoom(st) ==
    IF Cardinality(DOMAIN st.contexts) < MaxContexts THEN st
    ELSE Without(st, Oldest(st.contexts))

Opened(st, path, frame) ==
    IF path \in DOMAIN st.contexts
    THEN [st EXCEPT !.contexts[path].last = frame]
    ELSE LET room == MakeRoom(st)
         IN  [room EXCEPT !.contexts = [p \in DOMAIN @ \cup {path} |->
                 IF p = path THEN [r |-> New, last |-> frame, source |-> <<>>] ELSE @[p]]]

\* The packets that the bytes of the joined parts came from.
Sources(parts, total, source) ==
    [n \in 1 .. total |-> LET p == Supplier(parts, n - 1) IN source[p.packet][n - p.start]]

\* A fragment is pushed.  The sources of the parts are kept with the parts.  An
\* error removes the context with all it held.
PushedAt(st, layer, frame) ==
    LET slot    == st.contexts[layer.path]
        payload == [n \in DOMAIN layer.d.data |-> st.source[layer.skip + n]]
        ids     == Range(payload)
        out     == Push(slot.r, layer.d, frame, ids)
        source  == [f \in DOMAIN slot.source \cup {frame} |->
                       IF f = frame THEN payload ELSE slot.source[f]]
        held    == {p.packet : p \in UNION {out.r.sets[k].parts : k \in DOMAIN out.r.sets}}
        next    == [st EXCEPT !.contexts[layer.path] =
                                  [@ EXCEPT !.r = out.r, !.source = Restrict(source, held)],
                              !.pushed = @ \cup On(layer.path, ids), !.layers = <<>>]
        whole   == Reassembled(slot.r, layer.d, frame, ids)
        parts   == SetOf(slot.r, layer.d, frame).parts \cup {PartOf(layer.d, frame)}
    IN  CASE out.tag = "Pending" -> next
          [] out.tag = "Complete" ->
                [next EXCEPT !.complete = @ \cup On(layer.path, out.packets),
                             !.layers = Inside(layer.path, whole.data),
                             !.source = Sources(parts, Cardinality(DOMAIN whole.data), source)]
          [] out.tag = "Rejected" -> [next EXCEPT !.told = @ \cup On(layer.path, out.packets)]
          [] out.tag = "Err" ->
                [Without(next, layer.path) EXCEPT !.told = @ \cup On(layer.path, ids)]

\* What a datagram holds is peeled, up to the depth limit.
Layer(st, frame) ==
    LET layer == Head(st.layers)
        open  == Opened([st EXCEPT !.layers = Tail(@)], layer.path, frame)
        after == IF layer.d = NotFragment THEN open ELSE PushedAt(open, layer, frame)
    IN  IF st.depth >= MaxDepth THEN [after EXCEPT !.layers = <<>>]
        ELSE [after EXCEPT !.depth = @ + 1]

RECURSIVE Layers(_, _)
Layers(st, frame) == IF st.layers = <<>> THEN st ELSE Layers(Layer(st, frame), frame)

Packet(layers, frame) ==
    LET st == [contexts |-> contexts, pushed |-> pushed, told |-> told, complete |-> complete,
               layers |-> layers, source |-> [n \in 1 .. MaxDatagram |-> frame], depth |-> 0]
    IN  Layers(ExpireAll(st, frame), frame)

Capture(layers) ==
    /\ ~ended /\ at < CapturedBound
    /\ at' = at + 1
    /\ LET st == Packet(layers, at + 1)
       IN  /\ contexts' = st.contexts
           /\ pushed' = st.pushed
           /\ told' = st.told
           /\ complete' = st.complete
    /\ UNCHANGED ended

\* End of file: every context reports what it still holds.
FinishAll ==
    /\ ~ended
    /\ ended' = TRUE
    /\ told' = told \cup UNION {On(p, UNION Finish(contexts[p].r)) : p \in DOMAIN contexts}
    /\ contexts' = [p \in {} |-> New]
    /\ UNCHANGED <<at, pushed, complete>>

ContextsNext == (\E layers \in TunnelPackets : Capture(layers)) \/ FinishAll

-----------------------------------------------------------------------------
Live(p) == {k \in DOMAIN contexts[p].r.sets : ~contexts[p].r.sets[k].poisoned}
Held == UNION {On(p, UNION {contexts[p].r.sets[k].packets : k \in Live(p)}) : p \in DOMAIN contexts}

\* On each tunnel path every packet that a fragment was made of is in exactly one
\* place: it waits in the context, it was reported, or it is evidence of a datagram
\* reassembled there.  Evicting the context of another path or resetting one after
\* an error loses no packet, and no packet that was reported as incomplete is
\* evidence afterwards.  A packet may be in several datagrams inside each other,
\* but it waits or was given up on one path at most: it reaches an inner one only
\* as evidence of all those around it.
ContextsAccount ==
    /\ pushed = Held \cup told \cup complete
    /\ Held \cap (told \cup complete) = {}
    /\ told \cap complete = {}
    /\ \A x, y \in Held \cup told : x[2] = y[2] => x[1] = y[1]
    /\ Cardinality(DOMAIN contexts) <= MaxContexts
=============================================================================
