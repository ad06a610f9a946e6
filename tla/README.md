# Verification of the capture analyzer

TLA+ models of the packet-capture analyzer in `src/`, the TLC runs that check them on
small instances, and TLAPS proofs of the properties that matter most for every instance.
`PROJECT.json` lists the components, the runs, the correspondence of definitions to
source lines, the hazards each property is aimed at, and the theorems.

## 1. The system

A capture is a sequence of packets that was recorded by somebody else: packets are
missing, repeated, late, contradictory, and stamped by a clock that may run backwards.
The analyzer turns it into *evidence*: every statement in its output can be traced to
captured bytes, ambiguity is reported instead of resolved by guessing, and nothing is
dropped in silence.

* The **snapshot engine** (`src/src`) reads a whole capture into memory: IP fragments go
  through a reassembler, TCP segments through a tracker that assigns them to connection
  generations and rebuilds each direction's bytes, and each packet gets one final
  disposition. DNP3 and Modbus are decoded from the result, verified a second time and
  correlated. Reports are published as new files that never replace one another.
* The **streaming runner** (`src/streaming`) sees a capture once, in bounded memory. It
  keeps a table of *windows*, one per transport key, and fragment contexts, one per tunnel
  path; it evicts them under shared budgets, runs protocol plugins over the windows, and
  writes events as it goes, so that a failure leaves a prefix of the truth.
* The **history pipeline** (`src/history`) writes every TCP observation to an append-only
  journal, places it in all the generations and sequence epochs it may belong to, and
  sorts the placements into an index that range queries read. A build may be interrupted
  at any point, verified and recovered.
* The **product layer** (`src/product`) interprets the events of the runner: the depth
  sink cuts messages out of the capture again, continues protocols across gaps, and
  reconstructs BGP sessions and routing tables, live, from its own sealed journal, from
  imported feeds, and from MRT and BMP archives.
* The **desktop server** (`src/tools/desktop`) runs the engine in worker processes for a
  local user, cancels them, and shares one disk budget between them.

| component | state | operations | what is hard |
| --- | --- | --- | --- |
| fragment reassembler | sets of parts per key, bytes retained, deadline index | push, expire, finish | every order of overlaps; key reuse against old deadlines |
| stream assembler | base, segments, end | push, end_at, finish | sequence wrap; partition of the span with conflicts |
| TCP tracker | flows per key, clock | ingest, finish | tuple reuse, simultaneous opens, idle timeout with a bad clock |
| snapshot engine | dispositions, evidence, both of the above | packet pass, end of file | conservation of packets through every ending of a set |
| DNP3 analysis | assemblies per link pair, pending requests, file handles | decode, verify, pair, confirm, transfer | wrapping numbers, resynchronisation, rival partners, handle reuse |
| publication | files, directory entries, what of them is durable | write_new | two publishers, failing calls, crashes |
| streaming windows | window table, order, shared payload, sessions, output | transport, room, put, evict, expire, flush, finish | eviction while a window is out of the table; sink failure |
| fragment contexts | a reassembler per tunnel path | reassemble, evict, end of file | a path evicted with fragments in it; fragments inside a reassembled datagram |
| streaming plugins | hints, framers, event budget, workflow records | select, frame, emit, correlate | events sorted and renumbered before correlators name them |
| history journal, pipeline | buffered file, quota, poison flag, terminal record | append, checkpoint, finish, analyze, verify, recover | crashes and failing flushes between any two writes |
| tuple state, tuple cache | generations and epochs per tuple; hot tuples and spill files | ingest, spill, load | epoch arithmetic, alternatives; eviction under a quota |
| external sort, queries | run files, quota; the index | sort_checked, range, generations | repeated rows, fan-in, quota; look-back, paging |
| depth sink | packet map, sessions, held-back losses, journal | augment, finish, publish | losses before a session is known to be BGP; a capture that changes |
| continuation, segments | parser buffer, assemblies; chains of numbered segments | feed, cut; offer, expire, cut | frames across pages, failed feeds; contradicting repeats |
| BGP session | decoder, observer, candidate table, journal | message, boundary, reset | three reducers that must advance together or not at all |
| BGP imports | candidate state, feeds, MRT and BMP archives, native table | batch, page, record, seal | unreadable records, contradicting pages, resets in between |
| MRT store | sealed file, two-pass reader | create, write_stream, visit, replay | a source or file that changes under its readers, crashes |
| desktop manager | label on disk, children, claims, threads | start, status, cancel, close | state read before a lock and used after it, process deaths |
| worker guard | lock, reason, child | stop, attach, sample, handler | signal handler on top of its own thread |
| workspace budget | files, reservations | reserve, release | nested scopes |

Parts that are not modelled are listed in section 7.

## 2. Modules

A component's operators are in a module without variables when other components use
them, and its life as a state machine in a second one; compositions use the former.

| modules | source | correspondence |
| --- | --- | --- |
| `Fragment`, `FragmentReassembler` | `src/src/fragment.rs` | `New`, `Push`, `Expire`, `Finish` take and return the reassembler as a record. Bytes are kept, in a small alphabet; a header is a number. |
| `Tcp`, `TcpTracker` | `src/src/tcp.rs` | `Tcp` has the wrapping arithmetic over `2 * Half` values for 2^32, the stream assembler (`AsmPush`, `AsmEndAt`, `AsmFinish` with the boundary sweep and each overlap policy) and the tracker (`Ingest` is `ingest_with_packets` with all its refusals). `TcpTracker` is one tracker's life, and the instance that run `tcp` checks. |
| `Engine` | `src/src/engine.rs` | One action per packet of `analyze`, and the end of file with the conservation check. Uses the operators of `Fragment` and `Tcp`. A single stream assembler as a state machine is at its end. |
| `Dnp3` | `src/src/dnp3.rs`, `src/src/semantics/dnp3_workflow.rs`, `src/src/correlate.rs`, `src/src/correlate/dnp3_confirmations.rs`, `src/product/src/deep/dnp_file.rs` | Three state machines: the decoder of a direction, chunk by chunk; the offline pairing of analysed directions with the second verification; the file transfers of a run. |
| `Publish` | `src/src/publish.rs` | One action per system call, over inodes with volatile and durable contents and a directory with volatile and durable entries. |
| `StreamWindows` | `src/streaming/src/runner.rs`, `config.rs`, `events.rs` | One action per packet, with the whole of `transport`: expire, take, room, ingest, the second attempt after a reset, put. Uses `Tcp`. Each event may be the one the sink refuses. |
| `FragmentContexts` | `src/streaming/src/runner.rs` | The reassembler per tunnel path, numbered in map order, with eviction, the notices for what is lost, the peeling of what was reassembled up to the depth limit, and the end of file. Uses `Fragment`. |
| `StreamPlugins` | `src/streaming/src/plugin.rs`, `plugin/dnp_workflow.rs`, `runner.rs` | One window's directions through selection, framing, the shared budgets, the DNP3 workflow and the correlators. Uses `Dnp3`. |
| `History` | `src/history/src/journal.rs`, `pipeline.rs` | The framing and validity of a record file as operators; the commands, the buffered writer (with its flush on drop), the crash and the edited capture as actions. |
| `Generations`, `TupleMap`, `TupleStore` | `src/history/src/state.rs` | `Generations` is `TupleState::ingest`; `TupleMap` the abstract map from tuples to states; `TupleStore` the bounded cache with spill files, a refinement of `TupleMap`. |
| `ExternalSort` | `src/history/src/index.rs` | One action per chunk and per merge. |
| `RangeQuery` | `src/history/src/query.rs`, `index.rs` | Binary search, look-back, scan, cutting of the range and paging, one action per turn of a loop, over a sorted index chosen initially. |
| `DeepSink` | `src/product/src/deep/bgp_manager.rs`, `bgp_store.rs`, `sink.rs`, `src/product/src/bin/pcap-depth.rs` | The manager of captured sessions as operators; the source journal, its seal and its replay; one action per kind of event in `augment`, and the end of the run. |
| `Continuation` | `src/product/src/deep/continuation.rs`, `reassembly.rs`, `src/history-app/src/lib.rs` | A finished stream as cells, fed in pages, with cuts and holes between them; the DNP3, COTP and OPC UA assemblies; the history application that reads a range page by page. |
| `Segments` | `src/product/src/deep/reassembly.rs`, `bacnet.rs`, `iso.rs` | Chains of numbered segments per scope, with limits, expiry and the cut. |
| `BgpWire`, `BgpIdentity` | `src/product/src/deep/bgp.rs`, `bgp_state.rs` | The fate of an UPDATE with defects, AS path reconstruction, and the identity of a route, as operators on small inputs. |
| `BgpSession`, `BgpRib`, `BgpPipeline` | `src/product/src/deep/bgp_session.rs`, `bgp_rib.rs`, `bgp_pipeline.rs` | The session observer, the candidate table, and the captured session in which decoder, observer and table prepare a message separately and commit together. |
| `BgpFeed` | `src/product/src/deep/bgp_state.rs`, `bgp_import.rs`, `bgp_replay.rs` | The candidate reducer with its journal, and a feed of overlapping pages that is reduced through it. |
| `BgpNative`, `MrtArchive`, `BmpArchive` | `src/product/src/deep/bgp/mrt.rs`, `bgp_mrt*.rs`, `bgp/bmp.rs`, `bgp_bmp*.rs` | The replay of MRT and BMP records, one action per record, into the native table and the list of source occurrences. |
| `MrtStore` | `src/product/src/deep/bgp_mrt_store*.rs`, `bgp_mrt_stream*.rs` | The two sealed file formats: writing, crash, replay, and the visit in two verifying passes, cell by cell. |
| `Desktop` | `src/tools/desktop/server.py`, `worker.py`, `resources.py` | A region under the manager's lock is one action; each read of `state.json`, poll, signal and wait is another. Workers are processes that outlive the manager. |
| `WorkerGuard` | `src/tools/desktop/resources.py`, `worker.py` | Main thread, watchdog, stderr thread and signal handler around one non-reentrant lock. |
| `WorkspaceBudget` | `src/tools/desktop/storage.py` | Reservations over nested paths, and writers that stay inside theirs. |

`MC*` modules and `.cfg` files give the constants values. `*Proofs` modules hold theorems.
`None` is the absent value of an option throughout. Operators whose comment begins
"Mutant of" are faulty variants of the definition that follows; substituting one for the
other makes the named property fail, which shows that the property depends on that line
of code.

What the models abstract: payloads and hashes are small values or identities (a digest is
the sequence it was computed from, so two are equal only if their inputs are); 2^32 is a
small power of two, the moduli 64 and 16 of DNP3 are 3; times are small integers; text,
JSON and logging are left out, and so are counters that nothing depends on. Nothing is
abstracted in the order of steps: an early return, a failing call or a trailing reap is in
the action where the code has it.

## 3. Runs

Every passing run explores its whole state space; the numbers are distinct states. Where a
run holds several components that do not interact, a variable `part`, chosen initially,
says which of them a behaviour is about, and the others stay as they are.

| run | states | what it shows |
| --- | --- | --- |
| `reassembly` | 514 k | Parts: reassembler, stream assembler, snapshot engine, fragment contexts, DNP3. `FragmentsSound`: a set that can still complete holds no contradiction, and a completed datagram explains every fragment admitted to it. `LifetimeExact`: a set expires at its own deadline, never at one left by an earlier set of its key. `NothingLost`: the sweep of a stream partitions the span, a reconstructed byte was captured at that position and is the policy's choice, and every disagreement is reported. `PacketsAccounted`: in the engine and in the runner's contexts a packet waits exactly while a live set holds its fragment, then is evidence of one datagram at most or is reported, so the conservation check at end of file never fails. `DecodingSound`: a DNP3 message is one contiguous run of consistent fragments, nothing decoded is dropped or told twice, and the independent verifier agrees with the decoder. `EventsTraceable`: plugin records name the event of their own message after sorting and renumbering. `CorrelationSound`: a pair is offered only without a rival, in whatever order directions were analysed, and the streaming correlator offers the pairs that the offline one does. `FileCoverage`: a DNP3 file is called covered only by blocks of that handle since the last interruption. |
| `tcp` | 515 k | `DirectionIsolated`: a direction that fails to reconstruct takes nothing from the other. `JoinJustified`: a segment joins a generation only if no other explains it, and what can be reconstructed from a closed generation never changes. `WindowAccounts`: the sessions of the windows are bracketed, a capture reported complete leaves nothing open, and the shared budget is exact, through eviction, rollover and sink failure. |
| `publish` | 676 k | `PublicationSound`, `NoClobber`, for two publishers, a failing call and two crashes: what is at the destination is whole, Ok means it is there to stay, an error that does not say "committed" means this call put nothing there, and nothing is replaced. `ArchiveHonest`, for an MRT store whose source or file changes once: a visit that succeeds emitted the rows of one complete source, each with the peer table of its run; a sealed file holds all that was read; only the source that was written ever replays. |
| `history` | 563 k | `SealedCanonical`: a sealed journal is exactly what its capture calls for. `DurableProgress`: a reported checkpoint is readable for good, and a workspace reported good opens from then on. `RecoveryKeeps`: recovery reproduces what the interrupted build had. |
| `history_retry` | violation | `NeverSealedByRetry` fails; see section 6. |
| `tuple_store` | 278 k | `ImplementsMap`: the cache refines `TupleMap`. `PlacementsExact`: all offsets within reach that agree modulo 2^32, and no others; a generation's offsets keep their meaning. `SortsInput`: the output is the sorted input, repetitions included, and no merge stops for want of quota. `QueryHonest`: an answer rests on every overlapping row, its pieces tile the range, a byte is given only where all observations agree, and the pages list every generation once. |
| `desktop` | 186 k | `JobsSafe`: one writer of `state.json` at a time, below an exclusive claim and under the owner marker. `CancelEnds`: an accepted cancellation ends its worker. `StopReaches`: a stop and an attachment cannot miss each other. `WithinBudget`: admitted writers never exceed the budget together. |
| `worker_signal` | violation | `CancelKills` fails; see section 6. |
| `bgp_decode` | 355 k | `UpdateFate`: for every small UPDATE the announcements that come out are those its defects allow, and merging AS4_PATH keeps the path's length and its four-octet end. `IdentitySound`: the identity check admits what the decoder spells, and what it admits is the identity of the message it is bound to, at a width its AS path can be read at; an imported AS_PATH given as interpretations that are not one reading of its octets is excepted (section 6). `ObserverSound`, `TableSound`: the observer and the table that staging built are the functions of their journals, and what they call a candidate or active is supported by them. `PipelineSound`: decoder, observer and table are in one generation outside a conflict, inside one nothing is active. `EffectExplains`: a candidate stops being active only by a message that names it or by an announced effect. |
| `bgp_records` | violation | `ChangedRecordTaints` fails; see section 6. |
| `deep_sink` | 1.35 M | Parts: the sink, the continuation parser, the segments. `ReplayFaithful`: replaying the sealed journal gives the states of the live analysis. `JournalSound`: what replays is byte for byte the sealed journal, and all it reports resolves in it. `RunAccounts`: no loss is forgotten, and what a finished run leaves is complete and bound to its capture. `PagesIrrelevant`: where pages end makes no difference below the limits. `NothingDropped`: a byte that was taken is reported, bounded or held. `SegmentsSound`: a chain is poisoned exactly when two offered segments contradict each other, in any order, and gives one message at most. |
| `bgp_imports` | 111 k | Parts: candidate state, feed, MRT archive, BMP archive. `EvidenceStands`: candidate routes are what their observations support, a batch is its records one by one, and a feed commits to exactly what it has taken. `FeedCloses`: a final or quarantined feed takes no more, whatever is delivered. `ArchiveSound`: a route is active in a native table exactly while the updates and boundaries of the file support it, decoder, journal and table agree on every generation, and what a table dump tells stays with the peer table of its run and out of the native table. |

Several properties are conjunctions of parts that are named in the modules (for instance
`PublicationSound` of `WholeOrNothing`, `OkDurable` and `HonestErrors`).

### Bounds

The bounds are in the `.cfg` files, and each is just above the point where the behaviour
it limits happens.

* Fragments: datagrams of three bytes give every overlap of two parts (touching, nested,
  partial, equal) and two terminal lengths; two keys are needed for one to be IPv6 and for
  the expiry of one beside the other; a lifetime of two within five frames lets a key be
  reused before and after its old deadline. The byte and part limits (4 and 3) are reached.
  The theorems remove these bounds.
* Streams: 16 sequence numbers with spans of 3 keep the code's ratio span < half the space,
  and the inputs straddle the wrap and half the space. Three segments are the most whose
  mutual overlap matters for a boundary: each elementary interval is decided by the set of
  segments that cover it.
* Tracker: four segments reach every pair (SYN, answer, data, FIN, reset, reuse) and every
  triple with one late segment; times `None, 1, 4` against a timeout of 2 make idle, not
  idle, backwards and unknown.
* Engine: five packets complete two datagrams, or expire, quarantine and reuse a set.
  Contexts: three paths with room for two, tunnels two deep, and fragments inside a
  datagram whose two bytes came from two packets.
* DNP3: transport and application numbers modulo 3 make a number return while the assembly
  that used it is open; streams of six items, three applications to pair, two chunks to a
  window; the budgets of messages, events, octets and checks are each reached in a scene.
* Publication: two threads are needed for every race on the destination. MRT store: sources
  of up to three records, with a table run that is interrupted, a peer out of range and a
  record that does not decode, and one change by others at any point. The theorems remove
  both bounds.
* History: eight records and a buffer of six cells make the buffer spill in the middle of a
  record; two troubles are needed for a fault followed by a crash, or a crash in recovery.
* Tuples: a modulus of 8 wraps within five segments; one tuple sees every kind of segment,
  and two more, with two of the three in memory, force each eviction pattern; a quota of 5
  is reached by two spill files.
* Sort: five rows in chunks of two and a fan-in of two need two merge passes, with a rest.
* Queries: indexes of up to four rows of length up to 3, so that the boundary of the
  look-back is hit, and pages of one and of four. The theorem removes the bounds.
* Windows: two windows for three keys, three bytes for windows of two: eviction, rollover
  and tracker reset all happen within five packets.
* Sink: two sessions, one held-back loss, five journal records, eight events drawn from one
  of four menus. Continuation: streams of up to four frames, a buffer of four cells, three
  elements and spans, two assemblies, two cuts. Segments: three scopes, two chains, three
  segments to a chain, four frames; the theorem removes these.
* BGP: menus of events to a depth of four, on two prefixes and up to two sessions; limits of
  the reducers on their own are smaller (`Reducer*`), so that each is reached. UPDATEs and
  paths are enumerated over small sets of attributes, flags and segments. Archives: seven
  scenes of MRT and five of BMP, each a fixed beginning and then three to five records of a
  menu about one hazard (unreadable records, blank labels, AS width and ADD-PATH, peer
  tables, several peers, termination and restart).
* Desktop: one job, since a manager runs one at a time, two request threads and the closing
  thread, two managers. The theorem removes the bounds.

Symmetry is used where the values are interchangeable: the workspaces of `history`, and
the tuples of `tuple_store` that are only there to evict; both runs check no liveness.
Deadlock is not checked, as every system here stops by itself: at the end of a capture,
when the publishers have returned, or when the bound on inputs is reached.

### Fairness

* `Desktop!CancelEnds` assumes that a request thread that can go on does (threads of the
  HTTP server, all of whose waits have a timeout), and that the kernel ends a process that
  was sent SIGKILL. Nothing is assumed of a worker that was asked to stop by a file or by
  SIGTERM, nor of the manager, which may die at any time; the property then excuses it.
* `WorkerGuard!CancelKills` is refuted although every thread of the worker is scheduled.

## 4. Proofs

TLAPS proves the following for all values of the constants. Each proof has an inductive
invariant with one lemma per action, and a last step that combines them.

* **`FragmentProofs`**: `TypeCorrect`, `FragmentsSoundThm`, `LifetimeExactThm`, for every
  set of inputs, limits and lifetimes (`FragmentKeys`, `FragmentLimits`, `FragmentInputs`,
  `FragmentFrames`). `FragInv` adds to the properties that the deadline index holds exactly
  the pairs (deadline, key) of the sets that exist (`Indexed`), and that each live set is
  explained by admitted fragments of distinct frames (`Logged`). Without the index
  `LifetimeExact` is not inductive, as a stale pair would expire a newer set; without the
  log a completed datagram could not be compared with what was admitted to its set.
* **`PublishProofs`**: `TypeCorrect`, `PublicationSoundThm`, `NoClobberThm`, for any number
  of publishers, faults and crashes (`PublishBounds`). `PublishInv` ties each call's
  position to its file: how much of it is written and durable (`Progress`), that the entry
  it has linked is its own inode (`Linked`, `Own`), that a durable entry was seen
  (`DurableSeen`), that a call that has not linked is not at the destination (`Unlinked`),
  and that no result is set before a call returns (`Unreturned`).
* **`TupleStoreProofs`**: `ImplementsMapThm`: the cache implements `TupleMap` under the
  mapping that reads a tuple from memory if it is hot and from its spill file otherwise.
  The invariant is that recency clocks are natural numbers (`Clocked`), so that there is a
  least recent tuple to evict; equality of the two modules' operators is shown layer by
  layer, as `INSTANCE` makes them different symbols. `PlacementsExactThm`: for every
  modulus, horizon and epoch policy the placements are exactly the offsets that agree with
  the sequence number. `GenInv` gives the types of the generations behind the cache;
  `EpochOffsetsExact` is the arithmetic of `epoch_candidates`: the multiples of the modulus
  that it rounds its two ends to enclose exactly the congruent offsets between `Low` and
  `High`. Assumptions: `StoreAssumption`, `GenerationsAssumption`.
* **`RangeQueryProofs`**: `QueryHonestThm`, for every sorted index, query and page size
  (`RangeParameters`; that the index is sorted is in `RangeInit`, where `SortsInput` puts
  it). `QueryInv` follows the loops: between the bounds of the binary search lies the first
  row that is not before the target (`Searching`); the rows scanned so far that overlap are
  the observations, and none before the look-back can (`Scanning`); the pieces so far tile
  the range up to the cursor, with the status their observations call for (`Cutting`); and
  the pages before this one hold every generation up to their last (`ListedInv`, `Paging`).
* **`SegmentsProofs`**: `SegmentsSoundThm`, for any scopes, segments and limits
  (`SegmentPieces`). `SegInv` says of every chain that its parts are segments that were
  offered, that it is poisoned exactly when two of those contradict each other, and that it
  is complete only with every number up to the last (`ChainsSound`), and ties the counters
  of the COTP sessions to their chains (`CountersSound`).
* **`MrtStoreProofs`**: `ArchiveHonestThm`, for any sources, limits and number of changes
  by others (`StoreParameters`). `StoreInv` says that the file of a writer is the header and
  the chained frames of the records written so far, and its peer table the one in force
  after them (`WriterInv`); that only the writer of the PCBMRT01 format puts plain cells
  into a file and whoever cuts it loses the terminal (`PlainInv`, `Remains`); that a replayed
  archive is the one that was written (`SnapshotInv`); and that the table and the rows of a
  pass are those of what it has seen (`Scanned`). `TableStep` and `ParsedAppend` show that
  the table carried from record to record is the table in force as `TableOf` defines it
  from the whole source.
* **`DesktopProofs`**: `DesktopTypes`, `DesktopScope`, `DesktopOneWriter`, `DesktopOwner`
  and their conjunction `DesktopJobsSafe`, for any number of jobs, request threads and
  managers (`DesktopConfig`). `DeskInv` says that a job exists and a child was started before
  anybody deals with it (`Named`, `Fresh`); that an armed cancellation belongs to one thread
  (`Armed`) and keeps the claim (`Claimed`); that whoever is about to write a label has seen
  the child exit (`Gone`); and how far `close` has come (`Closing`): every child it is done
  with has exited with a final label, which is why a request thread that outlives the marker
  finds nothing to write. `LabelSteps` names the only steps that write labels.
* **`WorkerGuard`** (the proof is at the end of the module): `StopReachesThm`, for every
  schedule of the main thread, the watchdog, the stderr thread and the signal handler; the
  module has no constants and assumes nothing. `GuardInv` says that no child is
  attached before the main thread attaches it (`Unattached`) and that a running, attached child of a guard that has
  been stopped is still going to be reached (`Covered`): the main thread has its second look
  ahead of it, or a call of `stop` has still to read the child or has found it. The property
  alone is not inductive, as it does not say what the calls under way have read.

The assumptions are the named `ASSUME`s of the modules; TLC evaluates them in the runs.

Only model-checked:

* liveness (`CancelEnds`) and what rests on `ENABLED`;
* sums over sets and sequences, which need an induction over data that the provers cannot
  do: `WithinBudget`, the budget of `WindowAccounts`, the retention of the segments
  (`BytesCharged`), `SortsInput` (its output is a permutation);
* what recursive definitions and folds compute: the journal reader of `SealedCanonical`,
  `DurableProgress` and `RecoveryKeeps`; the replay of a flow's inputs in `DirectionIsolated`
  and `JoinJustified`; the stream sweep of `NothingLost`; the replays of `ReplayFaithful` and
  `JournalSound`; the reducers of BGP, whose reference is a fold over their journal;
* the parser of `Continuation`, which is written with recursive operators;
* the engine, the contexts, the windows and DNP3, for which no proof has been written.

## 5. What the models leave out

* **Fragment contexts.** How a tunnel is recognised and peeled is an input (`Inside` for
  a reassembled datagram); that an inner fragment carries the packets of the outer
  datagram's bytes is computed. Datagrams refused for their checksum or by `normalize`
  are not captured. A failing sink is modelled for the
  windows, not for these notices.
* **Streaming plugins.** Frames and hints of protocols other than DNP3 are abstract; the
  Modbus emitter, role and compatibility hints, hints beyond 2048 octets and the plugins'
  own byte limits are not modelled. One window is modelled.
* **DNP3.** Octets are items; provenance lists and work charges are left out. The issue
  `unsupported_dnp3_link_function_with_data` cannot occur.
* **History.** The layers of a packet (a packet is the records it causes), the witnesses and
  the logical work budget of a query (a failing record, witness or work charge is the action
  `Refuse`). The workspace's own entry in its parent directory is never synchronised by the
  code, and is assumed durable. Positions of queries are counted from `i64::MIN`.
* **Depth sink.** Only its BGP side; the handlers of other protocols share no state with it.
  The sink model accepts a superset of the runner's event sequences; the capture changes at
  most once per packet; session ids are unique, as the runner makes them.
* **Continuation.** A payload is one byte and comes from one packet; pieces are divided at
  packet boundaries and gaps; `last_frame` and `available_at_frame` are left out. An OPC UA
  chunk without security is a plain frame.
* **BGP.** Only the conventional NEXT_HOP is projected; whether a next hop is a valid host
  address, attributes that depend on the peer, and the refusals of imported metadata are
  abstract. Retention is counted in units.
* **Archives.** A BMP file is framed as a whole before its replay; the model reads record by
  record, with the same refusals. ADD-PATH is offered for both directions. The limits of the
  native table are out of reach of the scenes.
* **Desktop.** The read-only queries, HTTP, and what a research export contains.
* Pure encodings: records, checksums and digests are identities.

## 6. Findings and observations

Three statements of the repository do not hold of the code.

* `docs/history/CONTRACT.md:154` says that torn output is never sealed by retrying an
  uncertain write. When the flush of the SEAL record fails after a partial write, the
  writer is poisoned and the command returns an error; but the buffered writer under it is
  then dropped, which flushes the rest. The journal reads as sealed (`history_retry`). What
  it contains is still canonical, as `SealedCanonical` shows.
* `src/tools/desktop/resources.py:52` says that the guard kills the native child on
  cancellation. The handler of SIGTERM calls `stop` on the main thread, possibly while that
  thread is inside `stop` and holds the same non-reentrant lock: it then waits for itself,
  the watchdog waits for it too, and the child lives on (`worker_signal`). The manager's
  SIGKILL ends such a worker two seconds later; a signal from elsewhere is not followed by one.
* `docs/product/BGP_PIPELINE.md:78` says that a changed immutable record identity is
  retained as a conflict and taints the pipeline for good. The conflict is noticed by the
  observer or the table, and the observer's event of an ordinary UPDATE carries nothing of
  its content: when the first UPDATE of a record held no route, a second one under the same
  record with other bytes is accepted and its routes applied (`bgp_records`).

A fourth is narrower in the code than in the text. `docs/product/BGP_SEMANTIC_IDENTITY.md:229`
says that the consumer of imported routes decodes paths again from their octets; the code
does so for an AS_PATH given as a list of segments (`bgp_state.rs:2448`), and takes one given
as interpretations of an unresolved width as it is. `IdentityBound` states what holds: all
other fields are those of the message, and the path is too if the interpretations are one
reading of its octets.

Other behaviour that a reader of the code may want to know, none of it contrary to a
stated promise:

* A deadline that overflows 64 bits in the reassembler cannot be observed. An empty fragment
  would leave a packet pending for good; the decoder rejects them before.
* A bare SYN is always placed at offset zero, which is why `PlacementsExact` excepts it;
  late packets may still raise the high mark of a closed generation.
* In the external sort a merge is never refused for quota once the runs are written. The
  skip of rows up to `after` in the paged list of generations is never met.
* An error or cancellation while the history is sorted leaves no ABORT record, and a
  poisoned writer refuses to write one; readers see an unsealed journal in both cases.
* In the streaming runner the tracker refuses a segment only for `max_flows`, and the flow
  id `unassigned_reconstruction_state` cannot occur.
* A fragment that failed verification keeps the offline correlator from pairing a
  confirmation, and not the streaming one.
* DNP3 files: a handle that is used again without a gap mixes two files, a block beyond the
  expected ones counts toward the total, and the largest block size is compared with the
  last declaration only.
* Continuation: a failed feed drops the assembly evidence of COTP and OPC UA, and an OPC UA
  abort drops its chunks without a report, whereas DNP3 keeps its witnesses until the cut;
  `application_buffer` cannot be reported when the buffer holds a header; after a line that
  did not fit the output a smaller "aborted" line may still fit.
* Segments: a repeated segment does not refresh the expiry of its chain; a non-contiguous
  completed set cannot occur; a chain stays after completion until it is cut.
* A contextual batch of imported evidence and the same records one by one may differ when
  identities clash or records have no direction; the tests claim equality for context-free
  and collector batches only, and so does `BatchMatches`.
* BMP: Route Monitoring between a Termination and the next Initiation leaves no gap behind.
* A desktop cancellation replaces a worker's own terminal label by `cancelled` if the
  worker had published it and not yet exited. A worker's `complete` may be followed by
  `failed` when the directory entry could not be made durable. The replacement reservation
  of `cancel` is never needed. `status` is refused while a research writer is active below
  its job. Recovery after the death of a manager is by hand, and the models assume what the
  instructions say: that no worker is alive.

## 7. Not modelled

* Stateless or sequential code whose outcome is an input of the models: capture containers,
  packet decoding, protocol detection, the parsers that read one message at a time, hashing
  and canonical encodings, reports and command lines.
* Capture writers (a flag that refuses to write after an error; the journal's writer has the
  same discipline) and verified index sidecars (two sequential passes over one file).
* BGP import policy, association, evidence rendering, `bgp_persisted`, and the creation and
  replay of the BMP store (`bgp_bmp_store.rs:207-357`); its MRT counterpart is `MrtStore`.
* The labels and explanations of correlated pairs (`correlate.rs:325-508`).
* The C interface: handles live in one map behind one mutex, each call is one operation under
  it, and identifiers are never reused.
* Evidence, research and qualification tools outside the analyzer.
