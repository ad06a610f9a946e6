------------------------------ MODULE BgpNative ------------------------------
(***************************************************************************)
(* What imported observations do to the native table, whatever container   *)
(* they come from (product/src/deep/bgp_import.rs, bgp_mrt_rib.rs): the    *)
(* event of an observation, its admission with the continuity effect it    *)
(* has, and the reduction of the batch of observations.                    *)
(*                                                                         *)
(* An observation is [kind, rec, key, gen, prev, dir, update, peer]; its   *)
(* key is the session and the source partition.                            *)
(***************************************************************************)
EXTENDS BgpWire

CONSTANTS
    PeerRelation,    \* options.peer_relationship, or "Unknown"
    RibKeys,         \* <<partition, session>> pairs the table may meet
    SupportedFamilies

NoDirection == 2
NoEpoch == -1
OpaqueRoutes == 1        \* reason: decoded_update_opaque_route_evidence

Rib == INSTANCE BgpRib WITH
    RibSessions <- RibKeys, Family <- FamilyOf,
    Supported <- {p \in DOMAIN FamilyOf : FamilyOf[p] \in SupportedFamilies},
    RibImported <- TRUE, MaxElements <- 1000, MaxActive <- 100,
    MaxRetained <- 1000000, MaxWork <- 1000000000, rib <- <<>>

(***************************************************************************)
(* Observations.                                                           *)
(***************************************************************************)
NoUpdate == [records |-> <<>>, incomplete |-> FALSE, eor |-> {}, complete |-> FALSE,
             path |-> "absent"]

Bilateral(layout) == layout.basis = "bilateral"

OpaqueAttributes(u, layout) == {i \in DOMAIN u.attrs : OpaqueMp(u.attrs[i], layout)}

\* Empty withdrawals of a family that is not understood hide no route.
RouteProjectionIncomplete(u, layout, parsed) ==
    LET S == OpaqueAttributes(u, layout)
    IN  /\ parsed.opaque > 0
        /\ ~(/\ parsed.opaque = Cardinality(S)
             /\ \A i \in S : u.attrs[i].code = Unreach /\ u.attrs[i].routes = <<>>)

Observation(kind, rec, key, gen, prev, dir, update, peer) ==
    [kind |-> kind, rec |-> rec, key |-> key, gen |-> gen, prev |-> prev, dir |-> dir,
     update |-> update, peer |-> peer]

(***************************************************************************)
(* Native events.                                                          *)
(***************************************************************************)
EndOfRibFamily(update) == update.eor \cap SupportedFamilies

Scope(key, gen, dir, peer) ==
    [session |-> <<key[2], key[1]>>, gen |-> gen, dir |-> dir, peer |-> peer]

NativeEvent(scope, rec, kind, val, actions, origin) ==
    [event |-> [scope |-> scope, rec |-> rec, kind |-> kind, val |-> val, actions |-> actions],
     origin |-> origin]

\* An announcement whose attributes are not all understood is rejected.
NativeAction(o, x) ==
    [op |-> IF x.op = "Withdraw" THEN "Withdraw"
            ELSE IF o.update.complete /\ FamilyOf[x.prefix] \in UnicastFamilies
            THEN "Announce" ELSE "Reject",
     prefix |-> x.prefix, path |-> o.update.path, attrs |-> o.rec]

NativeActions(o) == [i \in DOMAIN o.update.records |-> NativeAction(o, o.update.records[i])]

\* Only an update binds its origin to the versions it brings.
ObservationEvent(o, origin) ==
    LET scope == Scope(o.key, o.gen, o.dir, o.peer)
        markers == EndOfRibFamily(o.update)
    IN  CASE o.kind = "boundary" -> <<NativeEvent(scope, o.rec, "Reset", o.prev, <<>>, "none")>>
          [] o.kind = "routes" /\ o.update.incomplete ->
               <<NativeEvent(scope, o.rec, "Gap", OpaqueRoutes, <<>>, "none")>>
          [] o.kind = "routes" /\ ~o.update.incomplete /\ o.update.records # <<>> ->
               <<NativeEvent(scope, o.rec, "Update", 0, NativeActions(o), origin)>>
          [] o.kind = "routes" /\ ~o.update.incomplete /\ o.update.records = <<>>
             /\ markers # {} ->
               <<NativeEvent(scope, o.rec, "EndOfRib", CHOOSE f \in markers : TRUE, <<>>, "none")>>
          [] OTHER -> <<>>

NoEffect == "None"

\* Every native event is prepared, its effect noted, and committed.
ApplyNativeEvent(t, n) ==
    IF ~t.ok THEN t
    ELSE LET plan == Rib!RibPrepare(t.rib, n.event, n.origin)
         IN  IF ~plan.ok THEN [t EXCEPT !.ok = FALSE]
             ELSE [t EXCEPT !.rib = plan.next,
                            !.effects = IF plan.status # "IdenticalReplay"
                                           /\ Rib!ContinuityEffect(plan) # NoEffect
                                        THEN @ \cup {<<n.event.scope.session, n.event.scope.gen,
                                                       n.event.kind>>} ELSE @]

ApplyNative(table, events) ==
    FoldLeft(ApplyNativeEvent, [ok |-> TRUE, rib |-> table, effects |-> {}], events)

\* Reducing the batch: every boundary starts from the generation the journal
\* has for its partition, and every other observation is in it.
JournalGeneration(obs, i) ==
    LET earlier == {j \in 1 .. (i - 1) : obs[j].key = obs[i].key}
    IN  IF earlier = {} THEN NoEpoch
        ELSE obs[CHOOSE j \in earlier : \A k \in earlier : k <= j].gen

BatchAdmissible(obs) ==
    \A i \in DOMAIN obs :
        IF obs[i].kind = "boundary" THEN JournalGeneration(obs, i) = obs[i].prev
        ELSE JournalGeneration(obs, i) \in {NoEpoch, obs[i].gen}

(***************************************************************************)
(* History: the routes that stand by the updates alone.                    *)
(***************************************************************************)
Route(key, gen, dir, prefix) == <<key, gen, dir, prefix>>

Standing(live, obs, lost, current) ==
    LET apply(L, o, x) ==
          IF NativeAction(o, x).op = "Announce"
          THEN L \cup {Route(o.key, o.gen, o.dir, x.prefix)}
          ELSE IF NativeAction(o, x).op = "Withdraw"
          THEN L \ {Route(o.key, o.gen, o.dir, x.prefix)} ELSE L
        updated == FoldLeft(LAMBDA L, o : FoldLeft(LAMBDA M, x : apply(M, o, x), L, o.update.records),
                            live, obs)
    IN  {x \in updated : <<x[1][1], x[2]>> \in current \ lost}
==============================================================================
