# Gridwake in TLA+

This directory models [Gridwake](../src/README.md), a server runtime for interest-managed state
replication, in TLA+; the models are checked with TLC and partly proved with TLAPS. Paths below are
relative to `src/`.

- [The system](#the-system): parts, their state, how they interact, what is hard
- [The modules](#the-modules): which models which, and how state and actions correspond
- [What is checked](#what-is-checked): runs, bounds, fairness, disagreements found
- [What is proved](#what-is-proved): theorems and the invariants they rest on
- [What is not modelled](#what-is-not-modelled), and [the plan](#the-plan)

## The system

Everything in `crates/` is a library driven by one caller: there are no threads and no locks. The
concurrency is that of a server with clients behind a network: every public operation of the runtime
may be called between any two ticks, and deltas and acknowledgements are delayed, lost or reordered in
between.

| part | source | state | operations |
|---|---|---|---|
| core | `crates/core/src/lib.rs` | ids, `Tick`, `ByteBudget` | saturating advance, reserve |
| interest management | `crates/aoi/src/lib.rs` | observers, entities, a grid of cells, counts of entities per layer of cells | insert, update and remove of both; query of a sphere |
| replication graph | `crates/replication/src/lib.rs` | entities with cost, priority and tier cap; per client what is visible and what was sent | upsert, set LOD, mark dirty, remove; register, set visibility, select under a budget |
| LOD policy | `crates/server/src/lib.rs` 18-149 | none: a function of distance and the tier sent last | classify with hysteresis, cap |
| snapshots | `crates/snapshot/src/lib.rs` | per client a bounded history of frames and the highest acknowledgement | build a delta; insert, get, latest; ack |
| server runtime | `crates/server/src/lib.rs` 761-1452 | all of the above with clients, entities and the tick | connect, move, spawn, set payloads, despawn; pump; advance a tick |
| lag history | same, 949-1000 and 1440-1451 | per entity a bounded queue of samples | record each tick, rewind, validate a hit |
| cell hand-off | same, 251-298 and 811-947 | owners of cells, event queues per region and one of unowned events | set and clear owners, enqueue, drain, dispatch |
| scheduler | same, 688-733 | accumulated time | advance by elapsed time |
| UDP transport | same, 536-652 | two maps between clients and addresses, errors | register, remove, send, drain |
| codec | `crates/protocol/src/lib.rs` | none | encode, reckon lengths, decode under limits |
| codec and memory transports | `crates/server/src/lib.rs` 402-533 | frames received and not drained, errors | send, push, drain, take errors |
| demo server | `crates/server/examples/godot_psx_demo_server.rs` | peers and sessions; bots, match, covers, impacts; fragmenting transport | inbound messages; a tick of combat, respawns, rounds, blasts and impacts; fragments |
| Godot client | `examples/godot_psx_demo/scripts` | shown entities, pending fragments | apply, acknowledge, reassemble |
| simulation | `crates/sim/src/main.rs` | none of its own | drive the runtime, report |

A tick runs, for every connected client: query the interest index; let the replication graph diff the
answer with the client's visible set; select updates by accumulated priority under the byte budget,
falling back to cheaper tiers; carry the latest frame of the client's history forward to a new one;
turn it into a delta, directly if the acknowledged baseline is the latest frame and otherwise by
comparing with the baseline; keep the frame and send the delta. Clients apply a delta to what they
show and acknowledge it; acknowledgements are pumped before the next tick.

What is hard to get right here, and hard to reach with a unit test:

- four records of what a client has (visible set, what was sent of each entity, frames, the
  acknowledged sequence) are updated by different operations and must agree, whatever is lost,
  evicted, despawned or reconnected in between;
- the direct and the catch-up delta must mean the same frame;
- priority accumulation must starve nobody, and the budget must bound what is sent;
- tier bands with hysteresis must not flap, for any configuration;
- the grid's layer counters and the transport's two maps must stay consistent with what they mirror;
- bounded histories drop just what they should;
- the wire protocol is written twice, in Rust and in GDScript, without a shared schema;
- the demo tells the runtime of every spawn, death, respawn, hit and expiry by hand, in the middle of
  lists of events that may decide a round half-way.

`PROJECT.json` lists each of these as a hazard at the line where it bites, with the properties that
would catch it.

### What makes each part correct

- *Interest management*: a query finds exactly the entities in the sphere.
- *Replication graph*: nothing is known of what a client does not see; a selection stays within the
  budget; everything waiting is selected in the end.
- *LOD policy*: the tier settles at rest, and is undone only after a real move.
- *Snapshots and runtime*: a delta applied to its baseline gives the frame kept; frames are kept in
  order and bounded.
- *Runtime, network and client*: the client shows what the server takes it to show.
- *Transport*: one address book, consistent in both directions; every intact frame is read as what was
  written, by either implementation of the protocol, and no damaged one is.
- *Demo server*: the runtime has the entities of the game and sends them as they are; points and deaths
  of a round add up; the dead come back.
- *Scheduler*: ticks follow elapsed time. *Lag history*: lookups tell the truth. *Cell hand-off*:
  each event is handed over once, in order.

## The modules

```
CoreIds <- NetworkLod <- Selection <- Replication            Maps <- GridAoi, LagHistory,
              ^            ^                                         CellRouting, UdpTransport
        LodHysteresis      +-- ServerRuntime <- ClientSync   AddressBook <- UdpTransport (refined)
                           |                                 TickScheduler, FragmentTransport
             Snapshot <----+          ReplicationGraph -> Selection, Maps; Replication (refined)
                                       Codec <- GodotProtocol <- CodecTransport
                                        Maps <- Deathmatch <- DemoServer
ServerParts: LodHysteresis, TickScheduler, LagHistory, CellRouting, GridAoi
Transports:  UdpTransport, FragmentTransport, CodecTransport
```

| module | models | notes |
|---|---|---|
| `NetworkLod` | tiers, distance policy, cap | operators; an f32 ratio times the radius is an integer distance, and distances are compared instead of their squares |
| `LodHysteresis` | one entity moving about one client | actions `Move`, `SetEntityLod`, `Exit`, `Select` |
| `Selection` | a client's replication state and the selection of updates | operators shared by the two modules below |
| `Replication` | `ReplicationGraph` | one action per public operation |
| `ReplicationGraph` | the same with the generation counters and the clients' entries | refines `Replication` |
| `Snapshot` | frames, deltas, `SnapshotHistory`, `AckTracker` | operators; a delta is a function from entities to operations |
| `ServerRuntime` | `ServerRuntime` as far as replication goes | one action per public operation, `AdvanceTick` for the whole tick |
| `ClientSync` | the runtime, a datagram network and the Godot client | composes `ServerRuntime` with messages under way and each client's table; also the environments the theorems and runs put it in |
| `GridAoi` | `GridAoi` | cells, three layer counters, query |
| `LagHistory`, `CellRouting`, `TickScheduler` | these parts of the server | no state in common with replication but entities' positions and the tick |
| `UdpTransport` | `UdpByteTransport` | refines `AddressBook` |
| `FragmentTransport` | the demo server's splitting of deltas, the Godot client's reassembly | lengths on the wire are those of the codec |
| `Codec` | the protocol crate | operators: messages to frames and back, lengths, errors |
| `GodotProtocol` | `gridwake_protocol.gd`, and the demo's payloads and inputs on both sides | operators |
| `CodecTransport` | `CodecTransport` around `MemoryByteTransport` | one action per call |
| `Deathmatch` | the demo's rules | operators on one record, the game |
| `DemoServer` | the demo's loop: peers, inbound messages, ticks | one action per outcome of a datagram, `Tick` for the whole tick |
| `Maps` | `HashMap::insert` and `remove` | |
| `ServerParts`, `Transports` | the components that share no state, side by side | one of them runs; each step is a step of that one |
| `MC*` | instances for TLC | constants, start states, what the environment does in a run |
| `*_proofs` | theorems | `ServerParts_proofs` and `Transports_proofs` are about several small modules each; `ServerRuntime_proofs` has those on `Snapshot` and `ClientSync`, too; `Folds_proofs` has the lemmas on sums and folds |

**State.** A map of the code is a function on the keys it holds. `ServerRuntime` has one function
`entities` for the runtime's table, the entity's entry in the replication graph and in the interest
index, because every operation changes the three together; `graph` is
`ReplicationGraph::clients`. `received` is the highest acknowledgement in the transport's queue: the
queue is drained whole and `AckTracker` keeps the maximum. `sent` is what the last tick sent.

**Abstractions.**

- The generation counters of the replication graph are replaced by the answers asked of them: was this
  entity never sent to the client, sent in an older generation, or current (`Freshness`). `ReplicationGraph`
  keeps the counters and the entries that go with them, and implements `Replication` (`ImplementsReplication`):
  its `KnownOf` is the refinement mapping. `ServerRuntime` uses the answers.
- Payloads are model values with lengths. Positions lie on a line in `ServerRuntime`, where only
  distances matter, and in space in `GridAoi`, which shows separately that the index's answer is the
  set of entities in the sphere, which is what `ServerRuntime!InInterest` takes it to be.
- `spawn_entity` takes the larger of the payload's length and an estimate of the caller as its full
  cost; the model has the payload's length. A client's own interest radius is that of the
  configuration. The custom LOD selector of a tick is covered by `Replication`, where the tier desired
  of each entity is arbitrary.
- `select_visible_for_client_with_lod_context` takes the candidates from its caller and would make entries for
  entities outside the client's visible set, if it were given some. The runtime, its only caller outside the
  crate, gives it the visible set (server 1245-1252), and the models have the candidates of that set alone: `EntriesFollowGraph`
  is about the graph as the runtime uses it.
- In `LagHistory`, `RewindInterpolated` is a lookup strictly between two ticks. With `sub_tick` 0 (or one that is
  normalised to it) the code answers from the sample of the tick itself (server 966-968), which is what `Rewind` says.
- Priorities are natural numbers where the code has f32.
- Logging and the counting of metrics are left out. A number is one field of a frame; how its bytes are
  laid out in it is not modelled.
- Lines that begin with `Mutant:` introduce a definition that no specification uses: the mistake
  beside which the definition after it is the right one. Replacing the one by the other must violate
  the property `PROJECT.json` names.

**The selection.** `SelectUpdates` is the loop over the heap as a recursive function on the
candidates: what is left for a candidate is the budget less what those popped before it took.
`Turn` is one iteration; the loop's `break` is the same test failing for everything after it.

**The tick.** `AdvanceTick` is one action since the runtime runs a tick in one call, and its parts are
one operator each, in the order of the code: `Seen`, `Exited`, `CandidatesOf`, `SelectUpdates`,
`NextContents`, `BaselineSequence`, `CanBuildDirectDelta`, `DirectOps` or `CatchUpOps`, `TickDeltas`,
`TickHistory`. The two early `continue`s are the empty results of `TickOps`.

**The client.** `ApplySnapshot` is `_apply_snapshot` of `main.gd`: acknowledge, then apply the
operations to what is shown, whatever baseline the delta names.

**Fragments.** `SendSnapshotDelta` is the demo transport's `send` of a delta, down to the datagrams the
socket takes: `Pack` is one turn of the loop that fills chunks. Operations keep their order and lengths
here, since both decide where a delta is cut. `ReceiveFragment` is `_apply_snapshot_fragment` with the
tracking it calls; `received` and `parts` are kept apart as in the code. `applied` remembers under which
sequence each operation was applied, instead of what the screen shows.

**The codec.** A frame is the sequence of its fields with their widths, and so is a payload inside it.
A reader takes a field of the width it asks for or fails; as in the code, the first error stays, and
what is left at the end is an error too. Frames are damaged by cutting them before or within a field,
by a byte too many, and by another magic, version or direction. So a reader never meets a field out of
step with its own: reading arbitrary bytes is not modelled. `GodotProtocol` translates the GDScript, which
checks neither limits nor the end of a packet; where it would read past the end its result is an error
here, since that must not happen on a server's frame. In `CodecTransport`, `lastCall` holds arguments and
result of the last call, and each frame received has beside it the message it was written for.

**The demo server.** `game` has the demo's own state and `world`, the payloads the runtime was last given
for the entities that stand for it; `world` changes where the code calls the runtime, and only there.
Positions are left out, so who is in reach of a shot or a blast is any set, in the order the code would
visit it: bots by index, sessions (a `HashMap`) in any. `FireInput` is all of an input that fires:
move, payload, hits, covers, impact. `Tick` is the loop's tick in its order: reset of the round,
entities and bots' aims, damage, sessions, scores, blasts, impacts. Ticks that the code stores are kept
as the ticks that remain. What the runtime does with the entities is `ServerRuntime`.

Ids of entities are numbers as in the code, base plus index, and the bases are constants: 1, 2 000 000, 4 000 000,
6 000 000, 8 000 000 and 10 000 000 there. Nothing in the code ends a range, and nothing in the model does:
`next_impact_id` grows with every impact of the demo's life, up to the saturation of its u64 (`MaxImpactId`). So what
`WorldMirrorsGame` and `SentIsCurrent` say is said as long as the ids fit (`IdsFit`): fewer than 2 000 000 bots, no more than
2 000 000 effects and 2 000 000 covers, and no more than 2 000 000 impacts since the start, about half a day of the demo with
its default arguments. After that the two are not true of the code, nor of the model: the next impact has the id of
a scoreboard and replaces it, and its expiry despawns it; `update_score_entities` only rewrites what exists, so the
scoreboard does not come back. The same happens to the second one, and 2 000 000 impacts later to the players' entities. Points,
deaths and respawns (`ScoresAddUp`, `EveryoneComesBack`) read the game and not the world, and hold beyond it.

## What is checked

Passing runs:

| run | question | states |
|---|---|---|
| `replication_graph` | do the generation counters give just the answers `Replication` keeps, whatever changes, leaves and comes back? | 14 252 |
| `starvation` | is everything waiting sent in the end, after a bounded number of selections, and can any selection overspend? | 891 |
| `server_runtime` | do graph, history and deltas stay coherent under every operation and any acknowledgement? | 250 380 |
| `sync_session` | with prompt delivery, does the client show what the server takes it to show, also after leaving and coming back? | 191 871 |
| `sync_lossy` | with lost deltas, is what the client shows the frame it acknowledged? | 459 873 |
| `transports` | are the two maps of the UDP transport one address book; is what the client acknowledges complete, and can what leaves in fragments be completed; do both implementations of the protocol mean the same by a frame, and are damaged frames refused? | 367 195 |
| `demo` | does the runtime have the entities of the game as they are, do scores add up, does everyone dead come back? | 136 882 |
| `server_parts` | tier policy, scheduler, lag history, cell hand-off and interest grid, one after the other | 378 447 |

`server_parts` explores five components that share no variable: one is chosen at the start, which
gives the sum of their state spaces. An interleaving of them projects to a behaviour of each, so their
product would show nothing more. `transports` does the same with three.

Bounds, and why they are enough:

- `replication_graph`: two entities and a budget of 4 with costs 4/2/2, so that both fit, only one fits, one fits after
  a fallback, and an upgrade waits. One client: no operation reads the state of two. `MaxScore` bounds the accumulated priority.
  `MaxGeneration`, 3, is two changes after the first, so that an entity can be removed after more changes than its
  successor has had; the code's counter is a u64 that saturates, which is not reached. Every operation of the
  graph is a step here, and a step of `Replication` under the mapping, which `starvation` explores with three
  entities but without the operations that change views.
- `starvation`: three entities, of which an urgent one takes the whole budget, one always does, and one
  is cheap at a distance. `WaitIsBounded` shows that no score exceeds 4 here, so that `MaxScore`, 8, cuts off
  nothing.
- `server_runtime`: one client, one entity, two positions (in interest and out of it), three ticks and
  a history of two, so that frames are evicted; acknowledgements are any sequence up to `MaxTick`, sent
  or not. A budget of 3 under a full cost of 4 makes fallbacks and deferred upgrades happen.
- `sync_session`, `sync_lossy`: two entities, three positions (full tier, minimal tier, out of
  interest), a budget of 5 so that one of two full payloads falls back, five ticks, a history of two.
- `transports`, UDP: two addresses for three clients, so that addresses are taken over.
- `transports`, fragments: eight kinds of deltas on both sides of each limit (whole at exactly the datagram limit,
  fragments that are exactly full, an operation left out at the beginning and in the middle, nothing
  that fits, more fragments than the count can say), in any three snapshots; two pending snapshots, so that
  the third evicts one. `MaxFragments`, 65 535 in the code, is 3. The set of datagrams only grows:
  each may arrive in any order, any number of times, or never. Deadlock is not checked, since
  all may have been handed over with nothing to send.
- `transports`, codec: deltas and fragments with and without baseline, of no, one, two and three
  operations (one more than the largest count of the model), payloads of each tier, empty, one byte over
  what a reader takes and one over what a length can say; acknowledgements and inputs of two clients,
  damaged in every way above; two frames or errors held. Frames are sent while nothing is held: sending
  depends on nothing that is.
- `demo`: three bots, of which two of one team fire in the same tick and may hit the same target, or one bot
  with a cover; two peers of different teams; a shot kills a bot, and a player's shot or a bot's
  second hit a player; two points decide a round, and its reset takes longer than either
  respawn, so that the dead wait through it; two impacts at most, so that shots and
  blasts reach the cap. `MaxRound` is 1: rounds after the second look like it. The range of impacts' ids has three,
  one more than the cap, so that impacts expire, are dropped and come again before it ends; the counter
  saturates at 4, so that the run goes on after the scoreboards are overwritten (`Mirrored(game)` without `IdsFit` is
  violated in it). No bot of the run is hurt and lives, which keeps it short; with `BotMaxHealth` 2 it finds
  nothing else, in 453 506 states.
- `server_parts`: elapsed time up to 24 at an interval of 3 and a cap of 2 ticks per step; lag history
  of two samples over four ticks; three events between two cells of two regions; seven points with
  negative coordinates, cell edges and one beyond the last cell, radii 0, 3 and 7.

Fairness is assumed in two runs. In `starvation`: weak fairness of each client's selection, since a server
ticks for ever and every tick selects for every connected client (`crates/server/src/lib.rs` 1234).
Nothing is assumed of the order in which entities change. In `demo`: weak fairness of ticks, as the loop
ticks whenever one is due, between two drains of the socket
(`crates/server/examples/godot_psx_demo_server.rs` 764-851). This takes for granted that a drain ends,
that is, that datagrams do not come faster than they are read for ever. It is stated as fairness of the
clock, which ticks alone move. Nothing is assumed of peers.

In `sync_lossy` deltas are not lost when the acknowledged frame has been evicted already. Beyond that
the server falls back to full frames, which name no entity that left in between, and what the client
shows is not the frame; this limit is the history's capacity
(`ServerConfig::snapshot_history`).

### Where the code and its documentation disagree

Each of these has a run that ends in a counterexample.

- `server_budget`: `spawn_entity` (server 1029) stores the whole payload for every tier but has the
  graph reckon with a half and a quarter of it for the lower ones. A selection that falls back sends more
  than the budget; `docs/DESIGN.md:56` has budgets apply to selected payload bytes.
- `sync_despawn`: `remove_entity` (replication 264) erases the entity from the visible sets, so that no
  tick sees it exit and no client is told. The entity stays on the screen even if nothing is lost;
  `docs/DESIGN.md:16` has the client render server-selected state. As the entity also stays in the
  history's latest frame, a later catch-up delta writes it again.
- `sync_lossy_repair`: if an entity changes and changes back while the first delta is lost, the
  catch-up delta is empty, and its frame is not kept (server 1336). The next catch-up delta is made from
  the frame of the lost delta and brings the superseded payload to the client for good;
  `docs/DESIGN.md:29` has dropped snapshots repaired by later deltas.
- `sync_delayed`: with nothing lost or reordered but acknowledgements later than a tick, the same change
  and change back leaves the first on the screen: the delta names nothing, compared to the baseline, but the
  client applies it to what it shows by now.

Without a run of its own: `examples/godot_psx_demo/README.md:22` says that incomplete snapshots remain
unacknowledged. `AckedOnlyWhenApplied` says so of every operation that fits a datagram; one that does not is
left out by `snapshot_chunks_for_datagram`, and the snapshot is acknowledged without it (the two
deltas of `MCHanded` in which something is left out). `docs/DESIGN.md:57` still speaks of fragmentation
as not existing.

The properties that hold under prompt delivery (`NothingStale`, `NoGhosts`) are the ones these runs
refute in harder environments; `ViewIsAckedFrame` and `DeltasMeanFrames` are what the code does
guarantee there.

## What is proved

For all values of the constants, from the assumptions named in the modules:

| module | theorem | statement |
|---|---|---|
| `Selection_proofs` | `SelectionWithinBudget` | the payloads a selection chooses never exceed the budget |
| `Replication_proofs` | `TypeCorrect`, `UnseenStaysUnknown`, `BudgetKept` | nothing is known of an entity that a client does not see; no selection overspends |
| | `WaitsAreBounded` | where each tier of each entity fits the budget, the wait of every entity is bounded |
| `ReplicationGraph_proofs` | `TypeCorrect`, `EntriesAlwaysFollow` | every entry of a client is of an entity it sees, and not ahead of it |
| | `ReplicationImplemented` | the generation counters implement the answers that `Replication` keeps |
| `ServerRuntime_proofs` | `DeltaRoundTrip` | applying `build_delta(b, n)` to `b` gives `n` |
| | `TypeCorrect`, `GraphAlwaysFollowsWorld`, `HistoryStaysOrdered`, `DeltasAlwaysMeanFrames` | whatever operations and acknowledgements come, graph and history stay coherent, and every delta applied to its baseline gives the frame kept |
| | `TicksStayInBudget`, `PayloadsInBudget` | a tick takes no more than the budget, by the costs given; and in payload bytes, unless `spawn_entity` estimates |
| | `SyncTypeCorrect` | types of runtime, network and clients, in sessions and with lost deltas |
| | `NeverStaleInSessions`, `NoGhostsInSessions`, `InterestComesFirst` | in sessions, a client shows what the server takes it to show; deltas write only what is in interest |
| | `AckedFrameIsShown` | with lost deltas, a settled client shows exactly the frame it acknowledged last |
| `Transports_proofs` | `MapsStayInverse`, `AddressBookImplemented` | the two maps are inverse, and refine `AddressBook` |
| | `FragTypeCorrect`, `TablesAgree` | nothing over the limit is sent; pending snapshots and their order agree |
| | `AcksAreComplete`, `SnapshotsCanComplete` | what is acknowledged has been applied; what is sent in fragments can be completed |
| | `DrainsAreExact` | a drain returns the message of each undamaged frame, in order, and an error for each other |
| | `SidesAlwaysAgree` | what the server writes is as long as reckoned and read by both clients, whatever is in it |
| | `UdpTypeCorrect`, `CodecTypeCorrect`, `TransportsTypeCorrect` | types, one by one and together |
| | `TransportsKeepApart` | in the composition each transport is a behaviour of its own specification |
| `ServerParts_proofs` | `LodTypeCorrect`, `Settled`, `NoFlappingHolds` | for any bands and hysteresis, also configured crosswise, the tier settles after one send and is undone only after a move of more than the hysteresis |
| | `SchedulerKeepsPace`, `ShortStepsKeepTime` | ticks follow elapsed time |
| | `LagTypeCorrect`, `LookupsTellTheTruth`, `LookupsHaveNoGaps` | lag history |
| | `RoutingTypeCorrect`, `EventsArriveOnceInOrder`, `EventsGoWhereRouted` | cell hand-off |
| | `PartsKeepApart`, `PartsTypeCorrect` | in the composition each part is a behaviour of its own specification; their types together |
| | `GridTypeCorrect`, `IndexIsTrue`, `QueriesFindAll` | the incremental index is the one the entities define, and a query finds each entity in the sphere once and no other |
| `DemoServer_proofs` | `DemoTypeCorrect` | types; the dead alone wait, and only a decided round is to be reset |
| | `WorldAlwaysMirrors` | as long as the ids of each kind fit its range, the runtime has exactly the entities of the game |
| | `ScoresAlwaysAddUp` | points and deaths of a round add up, and a round has one winner |
| | `SentAlwaysCurrent` | as long as they fit, what a tick leaves to send is what the game is after it |

The arguments:

- *Folds and sums.* The selection's recursion, sums over sets and folds over sets and sequences
  (of operations, respawns, damage events, blasts, impacts) are reasoned about without an induction rule: were a statement false of some index, it would be
  false of a least one, and a least one contradicts one step of the recursion (`MinimalSet`,
  `NoFirstFailure` in `Folds_proofs`, from the well-foundedness of proper subsets of a finite set).
- *Selection.* After each candidate, what is left and what the candidates so far took add up to the
  budget; `Turn` never takes more than is left.
- *LodHysteresis.* `NoFlapping` needs to know why the last change happened: the history variable
  `change` holds a tier that the policy gave for the distance recorded with it, given the tier before
  (`ChangeExplained`). The policy is then compared with itself at two distances: case by case over the
  tiers, going there and coming back need distances more than the hysteresis apart.
- *Scheduler.* Ticks run, ticks dropped and what is left over add up to the elapsed time.
- *Lag history.* The samples kept are those of consecutive ticks up to the last one, since every tick of
  an entity's life records one.
- *Cell hand-off.* Each queue is the events routed there and not yet handed over, in the order they came.
- *Grid.* A cell holds the entities whose position rounds to it and a counter of a layer their number, so
  that insertion, update and removal are compared with the index defined from scratch. For the query: a
  point in the sphere has its cell in the box of cells scanned, and the layer bounds cut off only cells
  that hold nobody.
- *Replication.* `TypeOK /\ UnseenIsUnknown` is inductive. Each operator on a client's state keeps it
  sound (`Selection_proofs!SoundOperators`), and a selection changes what is known only of candidates,
  which are visible.
- *The wait.* A bound on one score is not inductive: a selection raises the score of everybody it defers. What
  is inductive is a ranking (`Ranked`): of `n` entities and priorities up to `q`, at most `n - 1 - k` have
  accumulated more than `k * q`, for each `k`. A selection raises a score by `q` at most, so who is above `k * q` after it was
  above `(k - 1) * q` before it, or is the one that was highest there; but the candidate popped first is always sent, and its score
  reset, so that one fewer is left. For `k = n - 1` nobody is above, which is `WaitIsBounded`: an entity of priority `p`
  is deferred at most `(n - 1) * q / p` times in a row. That the first candidate is sent needs each tier to fit
  the budget (`EveryTierFits`). An upgrade that does not fit is deferred for ever and accumulates without bound.
- *The counters.* The invariant (`Follows` of each client, `IsWorld` of the entities) has the types, that generations
  start at 1, and that an entry is of an entity there is, which the client sees, and not ahead of it. The three are needed: 0 means "never" only if
  no entity has it; an entry that stayed behind would be "stale" or "current" of an entity the client was never
  sent; and one change makes every entry stale only if none is ahead. Then each operation is compared with that of
  `Replication` under the mapping. For a selection the candidates are the same
  function, so the same choice is made, and the entries it leaves map to what `AfterSelection` leaves. The
  or_default entries of entities looked at and deferred map to "never", like those that are absent.
- *ServerRuntime.* The invariant is `TypeOK /\ GraphFollowsWorld /\ HistoryIsOrdered`. For
  `DeltasMeanFrames` a tick is split per client: the catch-up delta by `DeltaRoundTrip`; the direct one
  because the baseline is then the latest frame, which is the one carried forward, or there is
  neither and so nothing to remove. That looking a baseline up finds the latest frame when sequences
  are equal is where the order of the history is needed, and that the frame inserted is the latest is
  where the capacity is positive. The theorem has also acknowledgements that no client could have sent.
  `PayloadsInBudget` compares each payload with the cost the graph was given: without estimates no tier
  costs less than the bytes it holds, and the sum over what is sent is part of the sum over what was
  selected (`SumOfPart`). With estimates it is false (run `server_budget`).
- *ClientSync.* Two invariants beyond that of the runtime. `LossyInv`: what is under way to a client, delta or
  acknowledgement, is about its newest frame, and every client shows the frame it acknowledged until it
  has applied the newest. `SessionInv`, where nothing is lost: a client that waits for nothing has acknowledged its
  newest frame, so its next delta is direct; what it shows, or will show once it has applied what is under way,
  agrees with what the graph takes it to have, of each entity in its view; and an entity of an older
  frame that is not in its view is in the baseline, so that the next delta removes it. The last part is for clients
  that leave and come back, whose frames stay: it is why `WritesAreInInterest` needs two frames to be
  kept (`HistoryCapacity > 1`). With one, the frame of the last session is all a returning client has, and
  is evicted by the first tick that sees it.
- *Fragments.* Each datagram is one of those its delta splits into; a part that is held, or that was applied, is
  the payload of such a datagram; so a snapshot whose parts are all there has had every operation that fits
  applied. The packing loop is a fold: what is in finished chunks, in the current one and left out is always what
  was read so far, and no chunk is longer than the limit.
- *UdpTransport.* `MapsAreInverse` is inductive with the types of the maps; under it, registering
  removes exactly the pairs that `AddressBook!Register` removes. Without it, the code's partial clean-up
  would not implement the abstract step.
- *CodecTransport.* A reader that has not failed is a position in its frame (`ReaderAt`): to read a field of
  the right width moves it by one, anything else makes it fail, and a failed reader stays failed
  (`ReadsNext`, `StaysFailed`). So `decode_client_message` succeeds on just two shapes of frames, an
  acknowledgement and an input, and what it returns are their fields (`ClientMessageRead`). Frames written
  by either implementation have one of these shapes (`AckWritten`, `InputWritten`, `GodotFrameIs`), unless the
  payload is longer than a reader takes; of what damage leaves none has (`DamagedIsRead`): a piece of a
  frame is too short, a field too many is too long, and a relabelled header is not one. The invariant `CodecIInv` says of
  each frame held that decoding it gives the message recorded with it, or an error where none is recorded;
  the drain, a fold, then agrees with the fold that picks the recorded messages, turn by turn (`DrainIs`). Assumed of
  payloads is that they are sequences of fields none of which is empty (`IsPayload`): an empty field
  cut off would leave the same bytes.
- *The two sides.* `SidesAgree` says what becomes of one frame, so its invariant, `SentIsWritten`, is short and the work is
  in the codec. A frame is its header, the fields in the middle and the operations joined together; where each field
  is, and that the widths add up to `EncodedMessageLen`, follows from `Joins` for two sequences and from the loop over the
  operations for the rest (`LaidOut`). Reading goes along: a reader at a place of the frame that
  asks for the width written there is at the next place with the value last (`NextRead`). One operation is read whole by
  both readers, or by the GDScript one alone where its payload is too large for Rust (`OpRead`); the loops over the operations
  are compared turn by turn, up to the first payload that is too large (`ReadsOps`). Metrics, and a demo entity's payload of
  each tier, are fields of known widths one after the other (`FieldsRead`). Assumed is the shape of a message, the fields of its kind
  (`MessagesAssumption`), but neither how many operations there are nor what they hold.
- *Compositions.* A step of `ServerParts` or `Transports` is a step of one component and leaves the
  variables of the others alone, so the composition implies the conjunction of the specifications, and every theorem
  about one of them holds of it.
- *Demo server.* The invariant `DemoInv` says of the game that it is `Good`: it has its types, as many bots and
  sessions as can be counted and impacts up to the cap, it is `Scored`, and if its ids fit, it is `Shown`: `Mirrored`, covers shown
  as they are, and no impact queued with an id that the counter has not passed. Each operator a datagram
  or a tick is made of keeps a game good and changes neither who takes part nor how many covers there are;
  a fold does if its step does. Each step is one way only for ids (`SameCast`): if they fit after it, they did
  before, so that `Shown` of the game before may be used, and need not hold once the ids have run out. Three of the steps
  are worth a look. A kill adds one to the dead of one team and, where the round
  is on, to the points of the other; when the points reach the limit the round is over, and the rest of the
  list of events may kill but not count. A reset leaves nobody dead. And an
  impact's id is that of no other entity: as long as it fits, it is in the range of impacts (`InRange`), which is apart
  from the others (`RangesDiffer`), and above all that are queued. That the counter does not saturate within its range
  is an assumption on the constants (`ScoreBase - ImpactBase < MaxImpactId`); that the ranges follow each other is
  another. `SentIsCurrent` then follows what
  each part of a tick writes last: scores and sessions after the last damage, covers with each
  blast, impacts at the end. Nothing else is assumed of the rules but that
  each number is positive, and that the interval of the bots' fire is even, as in the code.

The theorems on `ClientSync` are about wider environments than its runs explore: `SessionSpec` and `LossySpec`
have every operation of the game, clients that join anywhere and any walk. The runs start from clients
that are connected and restrict what happens between two ticks, to keep TLC's share finite.

Only model-checked are:

- `NoStarvation` and `EveryoneComesBack`: liveness. `WaitsAreBounded` is the safety part of the former.

`Replication`'s `TypeOK` and `UnseenIsUnknown` are the other way round: proved, and checked by TLC only in the shape
`ReplicationGraph` gives them (`EntriesFollowGraph`, `ImplementsReplication`).

## What is not modelled

- Floating point: positions, ratios and priorities are integers; ray-sphere geometry
  (`validate_rewound_sphere_hit`) is arithmetic alone.
- The bytes of a number in a frame, and readers on arbitrary bytes.
- Geometry and looks of the demo: places, who is nearest, what the effects do but blast; its arguments, its
  performance counters and its log.
- What should become of the demo's scoreboards and players once impacts have used up their ids: the `demo` run goes
  through it, but the properties of the world stop there.
- What becomes of a peer whose first datagram does not decode: the `demo` run goes through it (the peer
  has a `ClientId`, and no later message connects it), but nothing in the repository says what should.
- The runtime over reordered and repeated datagrams: `FragmentTransport` has them, but not the runtime.
- Presentation, input and prediction in the Godot client; the simulation's profiles and reports.

## The plan

Every component of the plan is modelled, and every safety invariant, action property and refinement
a passing run checks is stated by a theorem. What could be added, in this order:

1. The runtime's deltas over `FragmentTransport`'s datagrams instead of `ClientSync`'s network, to see how much of
   `ViewIsAckedFrame` is left under reordering; `sync_delayed` shows that it is less.
2. `ServerRuntime` on `ReplicationGraph` and `GridAoi` instead of what they implement.
