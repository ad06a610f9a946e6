----------------------------- MODULE MCImports ------------------------------
(***************************************************************************)
(* Imported and captured BGP evidence, one part at a time: `part` says     *)
(* whether a candidate state, a feed or an MRT or BMP archive (in one of  *)
(* several scenes) is exercised.                                           *)
(***************************************************************************)
EXTENDS Naturals, Sequences, BmpArchive, MrtArchive, BgpFeed

(***************************************************************************)
(* What the scenes of MRT and BMP files have in common: which scene it is, *)
(* the contents of OPENs and the UPDATEs.                                  *)
(***************************************************************************)
VARIABLE scene

\* Two capability sets, readable or not.
ArchiveContents ==
    [c \in {"plain", "four"} \X BOOLEAN |->
        [codes |-> IF c[1] = "four" THEN {1, 6, 65, 70} ELSE {1}, ambiguous |-> ~c[2]]]
ArchiveFamilies == [p1 |-> 1, p2 |-> 1]
ArchiveNames == <<"r1", "r2", "r3", "r4", "r5", "r6", "r7", "r8", "r9", "r10", "r11", "r12">>

Occ(code, flags, valid) ==
    [code |-> code, flags |-> flags, partial |-> FALSE, valid |-> valid, ignored |-> FALSE,
     family |-> 0, routes |-> <<>>]
Full == <<Occ(1, {"transitive"}, TRUE), Occ(2, {"transitive"}, TRUE), Occ(3, {"transitive"}, TRUE)>>
Multi(code, routes) == [Occ(code, {"optional"}, TRUE) EXCEPT !.family = 9, !.routes = routes]

Upd(w, as, n) == [withdrawn |-> w, attrs |-> as, envelope |-> "complete", nlri |-> n]
NoBody == Upd(<<>>, <<>>, <<>>)
Announce == Upd(<<>>, Full, <<"p1">>)
Withdraw == Upd(<<"p1">>, <<>>, <<>>)
Foreign == Upd(<<>>, Full \o <<Multi(14, <<"p2">>)>>, <<>>)
EmptyForeign == Upd(<<>>, <<Multi(15, <<>>)>>, <<>>)
Fatal == Upd(<<"p1">>, <<Occ(1, {"transitive"}, FALSE)>>, <<>>)
Partly == Upd(<<>>, Full \o <<Occ(99, {"optional", "transitive"}, TRUE)>>, <<"p1">>)

(***************************************************************************)
(* BMP files in five scenes: each begins as `scene` says and goes on with  *)
(* the records of its menu.                                                *)
(***************************************************************************)
BmpBare(type, peer) ==
    [id |-> "", type |-> type, head |-> "ok", kind |-> "supported", peer |-> peer,
     stream |-> "pre", rib |-> "in", width |-> 2, form |-> "ok", reason |-> 1,
     opens |-> <<"plain", "plain">>, claims |-> PeerClaims[peer], frame |-> "plain",
     ok |-> TRUE, update |-> NoBody]
PeerUp(peer) == BmpBare(3, peer)
PeerDown(peer, reason) == [BmpBare(2, peer) EXCEPT !.reason = reason]
Monitoring(peer, stream, u) == [BmpBare(0, peer) EXCEPT !.stream = stream, !.update = u]
Initiation == BmpBare(4, "P")
Termination(reason) == [BmpBare(5, "P") EXCEPT !.reason = reason]
Bad(r) == [r EXCEPT !.form = "bad"]
Lost(r) == [r EXCEPT !.head = "short"]

BmpBeginnings ==
    [fresh |-> <<>>,
     one |-> <<PeerUp("P"), Monitoring("P", "pre", Announce)>>,
     both |-> <<PeerUp("P"), Monitoring("P", "pre", EmptyForeign), Monitoring("P", "post", Announce)>>,
     two |-> <<PeerUp("P"), PeerUp("Q"), Monitoring("P", "pre", Announce),
               Monitoring("Q", "post", Announce)>>,
     long |-> <<[PeerUp("P") EXCEPT !.opens = <<"four", "four">>]>>]

BmpMenus ==
    [fresh |-> {PeerUp("P"), PeerUp("Q"), [PeerUp("P") EXCEPT !.claims = 9],
                [PeerUp("P") EXCEPT !.ok = FALSE], Monitoring("P", "pre", Announce), Initiation,
                Termination(1), Bad(Initiation), Bad(PeerUp("P")), PeerDown("P", 2),
                BmpBare(1, "P"), BmpBare(9, "P"), BmpBare(6, "Q")},
     one |-> {Monitoring("P", "pre", Announce), Monitoring("P", "pre", Withdraw),
              Monitoring("P", "post", Announce), Monitoring("P", "pre", Fatal),
              [Monitoring("P", "pre", Announce) EXCEPT !.ok = FALSE],
              [Monitoring("P", "post", Announce) EXCEPT !.rib = "out"],
              [Monitoring("P", "pre", Announce) EXCEPT !.kind = "other"],
              PeerUp("P"), [PeerUp("P") EXCEPT !.ok = FALSE], PeerDown("P", 5), PeerDown("P", 6),
              Bad(Termination(1)), [PeerDown("P", 1) EXCEPT !.head = "invalid"]},
     both |-> {Monitoring("P", "pre", Foreign), Monitoring("P", "pre", NoBody),
               Monitoring("P", "post", Withdraw), Monitoring("P", "pre", Announce),
               [PeerUp("P") EXCEPT !.claims = 9], PeerUp("P"), PeerDown("P", 1),
               Bad(Monitoring("P", "post", Announce)), Termination(0), Initiation},
     two |-> {Termination(1), Termination(9), Initiation, PeerUp("P"), PeerUp("Q"),
              Monitoring("P", "post", Announce), Monitoring("Q", "post", Withdraw),
              Lost(PeerUp("P")), [PeerUp("P") EXCEPT !.head = "padding"],
              [BmpBare(6, "P") EXCEPT !.head = "padding"], PeerDown("Q", 2)},
     long |-> {[Monitoring("P", "pre", Announce) EXCEPT !.frame = "long", !.width = 4],
               [Monitoring("P", "post", Announce) EXCEPT !.frame = "broken"],
               PeerUp("P"), Monitoring("P", "post", Announce), PeerUp("Q"), PeerDown("P", 5)}]

BmpDepth == [fresh |-> 4, one |-> 6, both |-> 7, two |-> 8, long |-> 5]

BmpClaims == [P |-> 1, Q |-> 2]
BmpRibKeys ==
    {<<<<p, "monitored">>, Label(i, x)>> : p \in {"P", "Q"}, i \in 0 .. 1, x \in PeerStreams}

BmpComing ==
    LET n == Len(bmp.events)
    IN  IF n < Len(BmpBeginnings[scene]) THEN {BmpBeginnings[scene][n + 1]}
        ELSE IF n < BmpDepth[scene] THEN BmpMenus[scene] ELSE {}

BmpNext == BmpReadRecord(BmpComing) \/ BmpFinish

(***************************************************************************)
(* MRT files in seven scenes: each begins as `scene` says and goes on with *)
(* the records of its menu.                                                *)
(***************************************************************************)
Header(peer, local, iface, width, dir) ==
    [addr |-> 1, peer |-> peer, local |-> local, iface |-> iface, width |-> width,
     addPath |-> FALSE, dir |-> dir]

Bare(body, h) ==
    [id |-> "", body |-> body, head |-> h, readable |-> TRUE, old |-> 0, new |-> 0, type |-> 0,
     frame |-> "plain", ok |-> TRUE, content |-> "plain", update |-> NoBody, subtype |-> 0,
     entries |-> <<>>]
State(h, old, new) == [Bare("State", h) EXCEPT !.old = old, !.new = new]
Message(h, type) == [Bare("Message", h) EXCEPT !.type = type]
Open(h, content) == [Message(h, 1) EXCEPT !.content = content]
Update(h, u) == [Message(h, 2) EXCEPT !.update = u]
Dump(body, entries) == [Bare(body, Header("a", "a", 0, 2, 0)) EXCEPT !.entries = entries]

\* Headers: a session, its other sender, the same session seen without the
\* peer's ASN, another session at the same addresses, a record of neither.
H == Header("a", "a", 0, 2, 0)
HBack == Header("a", "a", 0, 2, 1)
HBlank == Header("zero", "a", 0, 2, 0)
HOther == Header("b", "a", 0, 2, 0)
HWide == Header("a", "a", 0, 4, 0)

Opened(h, back, content) ==
    <<State(h, 2, 4), Open(h, content), Open(back, content), State(h, 4, 5), State(h, 5, 6)>>

Up == Opened(H, HBack, "plain")

Unreadable == [Bare("Malformed", H) EXCEPT !.readable = FALSE]

Beginnings ==
    [fresh |-> <<>>,
     routes |-> Up \o <<Update(H, Announce)>>,
     blank |-> Up \o <<Update(H, Announce), Message(HBlank, 4)>>,
     gaps |-> Up \o <<Update(H, Foreign)>>,
     pair |-> Up \o <<Update(H, Announce), State(HOther, 2, 4)>>,
     four |-> Opened(HWide, [HWide EXCEPT !.dir = 1], "four"),
     dumps |-> <<>>]

Menus ==
    [fresh |-> {State(H, 2, 4), State(HBlank, 2, 4), State(H, 4, 3), State(HOther, 7, 1),
                Open(H, "plain"), Bare("Malformed", H), Message(H, 3), Message(HBlank, 9)},
     routes |-> {Update(H, Announce), Update(H, Withdraw), Update(H, Fatal), Update(H, Partly),
                 Update(HBlank, Announce), [Update(H, Announce) EXCEPT !.ok = FALSE],
                 Message(H, 3), State(H, 6, 1), State(HBlank, 5, 6), Bare("Malformed", HBlank),
                 Unreadable},
     blank |-> {Update(H, NoBody), Update(HBlank, Announce), Update(H, Foreign),
                Update(H, EmptyForeign), Message(HBlank, 3), State(H, 3, 1),
                Bare("Malformed", H), Update([HBack EXCEPT !.peer = "zero"], Foreign),
                [Message(H, 4) EXCEPT !.ok = FALSE]},
     gaps |-> {Message(HBlank, 4), Update(HBlank, Announce), Update(H, Announce),
               Update(HBack, Foreign), Message(H, 3), State(HBlank, 6, 1),
               [Message(H, 4) EXCEPT !.frame = "broken"]},
     pair |-> {Message(HBlank, 4), Update(HBlank, Announce), Update(H, Announce), Unreadable,
               Bare("Malformed", HBlank), State(HBlank, 6, 1), State(HOther, 4, 1),
               Update(HOther, Announce), State(Header("c", "a", 0, 2, 0), 1, 2)},
     four |-> {Update(HWide, Announce), Update(H, Announce),
               [Update(HWide, Announce) EXCEPT !.frame = "long"],
               [Update(HWide, Announce) EXCEPT !.head.addPath = TRUE],
               [Message(HWide, 5) EXCEPT !.subtype = 1], [Message(HWide, 5) EXCEPT !.subtype = 3],
               [Message(HWide, 5) EXCEPT !.ok = FALSE], Open(HWide, "plain"),
               [Message(HWide, 4) EXCEPT !.frame = "long"],
               [Message(HWide, 3) EXCEPT !.ok = FALSE], State(HWide, 6, 1)},
     dumps |-> {Dump("PeerIndex", <<1, 2>>), Dump("PeerIndex", <<1>>), Dump("Other", <<>>),
                Dump("Rib", <<[peer |-> 2, supported |-> TRUE]>>),
                Dump("Rib", [i \in 1 .. 3 |-> [peer |-> 1, supported |-> i # 2]]),
                Dump("RibOther", <<>>), Message(H, 4)}]

Depth == [fresh |-> 4, routes |-> 9, blank |-> 10, gaps |-> 9, pair |-> 10, four |-> 8, dumps |-> 5]

MrtAsns == [k \in {"plain", "four"} |-> [w \in {2, 4} |-> "a"]]

\* The partitions and sessions that the scenes can name.
MrtRibKeys ==
    {<<<<1, p, "a">>, SessionId(Header(q, "a", 0, 2, 0), slot)>> :
        p, q \in {"a", "zero", "b", "c"}, slot \in 0 .. 2}

\* The file begins as the scene says.
Coming ==
    LET n == Len(archive.file)
    IN  IF n < Len(Beginnings[scene]) THEN {Beginnings[scene][n + 1]}
        ELSE IF n < Depth[scene] THEN Menus[scene] ELSE {}

MrtNext == ArchiveNext(Coming)

CONSTANT
    Rows             \* how many rows the candidate state takes

VARIABLE
    part             \* "ctx", "cap" or "mix" (a candidate state), "feed", "mrt", "bmp"

MCRibKeys == MrtRibKeys \cup BmpRibKeys

archives == <<archive, bmp, scene>>

MCContext == Context("b", "s", 0, -1)
OtherContext == Context("b", "s", 1, -1)

(***************************************************************************)
(* Records for the reducer and the feed.                                   *)
(***************************************************************************)
R(p, a, x) == [prefix |-> p, action |-> a, attrs |-> x, ambiguous |-> FALSE]
A == <<R("p", "Announce", 1)>>
A2 == <<R("p", "Announce", 2)>>
W == <<R("p", "Withdraw", 0)>>
M == <<R("p", "Announce", 1), R("p", "Withdraw", 0)>>
U == <<R("u", "Announce", 1)>>

Imp(rec, g, d, rs) == NormalizeWithContext(rec, Context("b", "s", g, d), rs)
Bnd(rec, g) == NormalizeBoundary(rec, Context("b", "s", g, -1), g - 1)
Cap(rec, type, g, d, rs) == DecodePcap(rec, "s", type, g, d, rs)
Leg(rec, g, rs) == NormalizeLegacy(rec, "s", [gen |-> g, dir |-> 0], rs)

Envelopes(m) ==
    CASE m = "ctx" -> {Imp("r1", 0, 0, A), Imp("r1", 0, 0, A2), Imp("r2", 1, 0, A),
                       Imp("r3", 0, 0, W), Bnd("b1", 1), Imp("r4", 0, -1, A)}
      [] m = "cap" -> {Cap("c1", 2, 0, 0, A), Cap("c2", 2, 1, 0, M), Cap("c3", 2, 0, 0, W),
                       Cap("c4", 3, 0, 0, <<>>), Cap("c5", 1, 1, 0, <<>>),
                       Cap("c6", 2, 0, 0, A2), Cap("c7", 2, 0, 1, U)}
      [] m = "mix" -> {Leg("l1", 0, A), Leg("l1", 1, A), Leg("l2", -1, W), Imp("r1", 0, 0, A),
                       Bnd("b1", 1), Cap("c1", 2, 0, 0, A), Cap("c8", 9, 0, 0, A)}

Menu(m) ==
    {FromNormalized(v) : v \in {x \in Envelopes(m) : AcceptedEnvelope(x)}}
    \cup (IF m = "cap" THEN {CallerReset("Captured", "x1", "s", 1),
                             CallerReset("Captured", "x2", "s", 0)} ELSE {})

FeedObservations ==
    {FromNormalized(v) : v \in {Imp("r1", 0, 0, A), Imp("r1", 0, 0, W), Imp("r2", 1, 0, W),
                                Bnd("b", 1), Imp("r4", 0, -1, A)}}

Recs(n) ==
    {FeedRecord(n, o, "DeclaredComplete") : o \in FeedObservations}
    \cup {FeedRecord(n, FromNormalized(Imp("r1", 0, 0, A)), "Unknown")}

Pages(c) ==
    {Page(d, c, <<>>, k) : d \in {FeedContext, OtherContext}, k \in {"Partial", "Final"}}
    \cup {Page(FeedContext, c, <<a>>, k) : a \in Recs(c.next), k \in {"Partial", "Final"}}
    \cup {Page(FeedContext, c, <<a, b>>, "Partial") : a \in Recs(c.next),
                                                     b \in Recs(c.next + 1)}

Cursors ==
    {feed.cursors[i] : i \in DOMAIN feed.cursors}
    \cup {Cursor(<<FeedRecord(0, FromNormalized(Imp("r1", 0, 0, rs)), "DeclaredComplete")>>) :
             rs \in {A, W}}

(***************************************************************************)
(* The specification.                                                      *)
(***************************************************************************)
Init ==
    /\ CandidateInit
    /\ FeedInit
    /\ part \in {"ctx", "cap", "mix", "feed", "mrt", "bmp"}
    /\ archive = NewArchive
    /\ bmp = NewBmpArchive
    /\ CASE part = "mrt" -> scene \in DOMAIN Beginnings
         [] part = "bmp" -> scene \in DOMAIN BmpBeginnings
         [] OTHER -> scene = ""

ApplyStep ==
    /\ part \in {"ctx", "cap", "mix"}
    /\ Len(rows) < Rows
    /\ \/ \E o \in Menu(part) : Apply(<<o>>)
       \/ \E o, p \in Menu(part) : Apply(<<o, p>>)
    /\ UNCHANGED <<part, feed, archives>>

PageStep ==
    /\ part = "feed"
    /\ \E c \in Cursors : \E p \in Pages(c) : ReceivePage(p)
    /\ UNCHANGED <<part, rows, last, archives>>

MrtStep ==
    /\ part = "mrt"
    /\ MrtNext
    /\ UNCHANGED <<part, rows, last, feed, bmp, scene>>

BmpStep ==
    /\ part = "bmp"
    /\ BmpNext
    /\ UNCHANGED <<part, rows, last, feed, archive, scene>>

Next == ApplyStep \/ PageStep \/ MrtStep \/ BmpStep

Spec == Init /\ [][Next]_<<part, rows, last, feed, archives>>

\* See MrtArchive and BmpArchive: a route is active in the native table of an
\* archive exactly while its evidence stands; the decoder, the journal and the
\* native table agree on every generation; and what an archive says of a record
\* is about the table, the stream and the boundary the record belongs to.
ArchiveSound ==
    /\ part = "mrt" => ActiveExact /\ MrtConsistent
    /\ part = "bmp" => BmpActiveExact /\ BmpSound
=============================================================================
