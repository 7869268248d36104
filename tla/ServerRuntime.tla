----------------------------- MODULE ServerRuntime -----------------------------
(***************************************************************************)
(* gridwake-server's ServerRuntime as far as replication goes: clients and *)
(* entities, the interest query, the replication graph, the history of     *)
(* frames, the acknowledgements and the fixed tick that turns them into    *)
(* delta snapshots.  One action per public operation; a tick is one        *)
(* action, as the runtime runs it in one call.                             *)
(*                                                                         *)
(* Positions lie on a line, which is enough for entities to enter, leave   *)
(* and change bands for each client.  The entity tables of the runtime,    *)
(* the AOI index and the replication graph change together and have the    *)
(* same keys, so one function holds the three.                             *)
(***************************************************************************)
EXTENDS Selection, Snapshot

CONSTANTS
  Position,          \* where clients and entities can be
  Variants,          \* payload triples that game code gives entities, [Lod -> Payload]
  Priorities,        \* base priorities that game code gives entities
  Budget,            \* ServerConfig::per_client_byte_budget
  HistoryCapacity,   \* ServerConfig::snapshot_history
  MaxTick,           \* bound of the model on ticks
  MaxScore           \* bound of the model on accumulated priority

ASSUME ServerAssumption ==
  /\ Position \subseteq Int
  /\ Variants \subseteq [Lod -> Payload]
  /\ Priorities \subseteq Nat
  /\ Budget \in Nat
  /\ HistoryCapacity \in Nat \ {0}
  /\ MaxTick \in Nat
  /\ MaxScore \in Nat

VARIABLES
  tick,       \* ServerRuntime::tick
  clients,    \* positions of the connected clients
  entities,   \* the spawned entities
  graph,      \* ReplicationGraph::clients
  history,    \* SnapshotHistory: per client, the frames kept
  acks,       \* AckTracker: per client, the highest sequence acknowledged
  received,   \* transport: per client, the highest acknowledgement not yet pumped
  sent        \* transport: per client, the deltas the last tick sent

world == <<clients, entities, graph>>
sync == <<history, acks>>
transport == <<received, sent>>
vars == <<tick, world, sync, transport>>

\* ServerEntity with its EntityReplication. SpawnEntity and the like give an
\* entity its payloads' lengths as bytes or, for one payload, an estimate.
ServerEntity ==
  [position : Position, payloads : [Lod -> Payload], bytes : [Lod -> Nat],
   priority : Nat, lod : Lod]

TypeOK ==
  /\ tick \in 0..MaxTick
  /\ \E C \in SUBSET Client : clients \in [C -> Position] /\ graph \in [C -> ClientState]
  /\ \E S \in SUBSET Entity : entities \in [S -> ServerEntity]
  /\ history \in [Client -> Seq(Frame)]
  /\ acks \in [Client -> Nat]
  /\ received \in [Client -> Nat]
  /\ sent \in [Client -> SUBSET Delta]

Init ==
  /\ tick = 0
  /\ clients = [c \in {} |-> c]
  /\ entities = [e \in {} |-> e]
  /\ graph = [c \in {} |-> c]
  /\ history = [c \in Client |-> <<>>]
  /\ acks = [c \in Client |-> NoSnapshot]
  /\ received = [c \in Client |-> NoSnapshot]
  /\ sent = [c \in Client |-> {}]

-------------------------------------------------------------------------------
(* Clients *)

\* Connecting again moves the client and keeps what the graph knows of it.
ConnectClient(c, p) ==
  /\ clients' = [d \in DOMAIN clients \cup {c} |-> IF d = c THEN p ELSE clients[d]]
  /\ graph' = [d \in DOMAIN graph \cup {c} |->
                 IF d \in DOMAIN graph THEN graph[d] ELSE NewClient]
  /\ UNCHANGED <<tick, entities, sync, transport>>

\* Mutant: the graph still serves the client.
DisconnectClientKeepsGraph(c) ==
  /\ clients' = Restrict(clients, DOMAIN clients \ {c})
  /\ UNCHANGED <<tick, entities, graph, sync, transport>>

\* History and acknowledgements of the client stay behind.
DisconnectClient(c) ==
  /\ clients' = Restrict(clients, DOMAIN clients \ {c})
  /\ graph' = Restrict(graph, DOMAIN graph \ {c})
  /\ UNCHANGED <<tick, entities, sync, transport>>

UpdateClientPosition(c, p) ==
  /\ c \in DOMAIN clients
  /\ clients' = [clients EXCEPT ![c] = p]
  /\ UNCHANGED <<tick, entities, graph, sync, transport>>

-------------------------------------------------------------------------------
(* Entities *)

Uniform(payload) == [l \in Lod |-> payload]
PayloadLengths(payloads) == [l \in Lod |-> PayloadBytes[payloads[l]]]

\* NetworkLodBytes::from_full_bytes: a half and a quarter, rounded up
ScaledBytes(full) ==
  [l \in Lod |-> CASE l = "Full" -> full
                   [] l = "Reduced" -> (full + 1) \div 2
                   [] OTHER -> (full + 3) \div 4]

OutdateEntity(e) == graph' = [c \in DOMAIN graph |-> Outdated(graph[c], e)]

\* entities.insert with the graph's upsert
UpsertEntity(e, entity) ==
  /\ entities' = [d \in DOMAIN entities \cup {e} |->
                    IF d = e THEN entity ELSE entities[d]]
  /\ IF e \in DOMAIN entities THEN OutdateEntity(e) ELSE UNCHANGED graph
  /\ UNCHANGED <<tick, clients, sync, transport>>

(* spawn_entity: one payload for every tier, and an estimate that takes the   *)
(* lower tiers for a half and a quarter of it.                                *)
SpawnEntity(e, p, payload, priority) ==
  UpsertEntity(e, [position |-> p, payloads |-> Uniform(payload),
                   bytes |-> ScaledBytes(PayloadBytes[payload]),
                   priority |-> priority, lod |-> "Full"])

SpawnEntityWithLodPayloads(e, p, payloads, priority, lod) ==
  UpsertEntity(e, [position |-> p, payloads |-> payloads,
                   bytes |-> PayloadLengths(payloads),
                   priority |-> priority, lod |-> lod])

DespawnEntity(e) ==
  /\ e \in DOMAIN entities
  /\ entities' = Restrict(entities, DOMAIN entities \ {e})
  /\ graph' = [c \in DOMAIN graph |-> Forgotten(graph[c], e)]
  /\ UNCHANGED <<tick, clients, sync, transport>>

\* Moving marks the entity dirty, payload changed or not.
MoveEntity(e, p) ==
  /\ e \in DOMAIN entities
  /\ UpsertEntity(e, [entities[e] EXCEPT !.position = p])

\* set_entity_payload, set_entity_lod_payloads: the payloads it has are no change.
SetEntityLodPayloads(e, payloads) ==
  /\ e \in DOMAIN entities
  /\ entities[e].payloads # payloads
  /\ UpsertEntity(e, [entities[e] EXCEPT !.payloads = payloads,
                                         !.bytes = PayloadLengths(payloads)])

SetEntityPayload(e, payload) == SetEntityLodPayloads(e, Uniform(payload))

\* New payloads and their lengths only if they differ; dirty in any case.
MoveEntityWithLodPayloads(e, p, payloads) ==
  /\ e \in DOMAIN entities
  /\ LET moved == [entities[e] EXCEPT !.position = p]
     IN  UpsertEntity(e, IF moved.payloads = payloads THEN moved
                         ELSE [moved EXCEPT !.payloads = payloads,
                                            !.bytes = PayloadLengths(payloads)])

SetEntityLod(e, lod) ==
  /\ e \in DOMAIN entities
  /\ entities[e].lod # lod
  /\ UpsertEntity(e, [entities[e] EXCEPT !.lod = lod])

-------------------------------------------------------------------------------
(* Acknowledgements *)

\* A client's acknowledgement reaches the transport's receive queue. The queue
\* is drained whole and an older acknowledgement changes nothing, so its highest
\* is all there is to know of it.
ReceiveAck(c, sequence) ==
  /\ received' = [received EXCEPT ![c] = Ack(@, sequence)]
  /\ UNCHANGED <<tick, world, sync, sent>>

\* pump_transport: what strangers sent is ignored.
PumpTransport ==
  /\ acks' = [c \in Client |-> IF c \in DOMAIN clients THEN Ack(acks[c], received[c])
                                                       ELSE acks[c]]
  /\ received' = [c \in Client |-> NoSnapshot]
  /\ UNCHANGED <<tick, world, history, sent>>

-------------------------------------------------------------------------------
(* The tick, for one client *)

Distance(a, b) == IF a < b THEN b - a ELSE a - b
DistanceTo(c, e) == Distance(entities[e].position, clients[c])

\* query_observer_entities_into
InInterest(c) == {e \in DOMAIN entities : DistanceTo(c, e) <= InterestRadius}

\* the replication state after set_visible_from_index
Seen(c) == WithVisible(graph[c], InInterest(c))

\* Mutant: exits are looked for when the view is updated already.
ExitedAfterUpdate(c) == Seen(c).visible \ InInterest(c)

\* what left the view
Exited(c) == graph[c].visible \ InInterest(c)

\* Mutant: the selection is made from the view before its update.
CandidatesOfStaleView(c) ==
  LET known == graph[c].known
      desired == [e \in graph[c].visible |->
                    DesiredLod(entities[e].lod, DistanceTo(c, e), known[e].lod)]
  IN  CandidateTable(entities, graph[c].visible, known, desired)

CandidatesOf(c) ==
  LET known == Seen(c).known
      desired == [e \in InInterest(c) |->
                    DesiredLod(entities[e].lod, DistanceTo(c, e), known[e].lod)]
  IN  CandidateTable(entities, InInterest(c), known, desired)

\* From here on chosen is what the selection decided for the candidates.
Updated(chosen) == {e \in DOMAIN chosen : chosen[e] # Deferred}
PayloadForLod(chosen, e) == entities[e].payloads[chosen[e]]

\* Mutant: what left the view stays in the frame.
NextContentsKeepsExited(c, chosen) ==
  LET latest == LatestContents(history[c])
  IN  [e \in DOMAIN latest \cup Updated(chosen) |->
         IF e \in Updated(chosen) THEN PayloadForLod(chosen, e) ELSE latest[e]]

\* snapshot_frame_for_selection: the latest frame carried forward
NextContents(c, chosen) ==
  LET latest == LatestContents(history[c])
  IN  [e \in (DOMAIN latest \ Exited(c)) \cup Updated(chosen) |->
         IF e \in Updated(chosen) THEN PayloadForLod(chosen, e) ELSE latest[e]]

\* the baseline: the frame acknowledged, if it is still kept
BaselineSequence(c) ==
  IF acks[c] \in HistorySequences(history[c]) THEN acks[c] ELSE NoSnapshot

BaselineContents(c) ==
  IF BaselineSequence(c) = NoSnapshot
    THEN NoContents
    ELSE HistoryGet(history[c], acks[c]).contents

\* Mutant: this tick's updates and exits always do.
CanAlwaysBuildDirectDelta(c) == TRUE

\* can_build_direct_delta: the baseline is the latest frame, or there is neither
CanBuildDirectDelta(c) == BaselineSequence(c) = LatestSequence(history[c])

\* delta_for_selection: this tick's updates and exits
DirectOps(c, chosen) ==
  [e \in Updated(chosen) \cup Exited(c) |->
     CASE e \notin Updated(chosen) -> DespawnOrExit
       [] e \in Updated(chosen) /\ Seen(c).known[e].freshness = "never" ->
            SpawnOrEnter(PayloadForLod(chosen, e))
       [] OTHER -> Update(PayloadForLod(chosen, e))]

\* build_delta against the baseline; without one, this tick's exits are added
CatchUpOps(c, chosen) ==
  LET built == BuildDelta(BaselineContents(c), NextContents(c, chosen))
      exits == IF BaselineSequence(c) = NoSnapshot THEN Exited(c) ELSE {}
  IN  [e \in DOMAIN built \cup exits |->
         IF e \in exits THEN DespawnOrExit ELSE built[e]]

\* A client for whom nothing was selected and nothing left gets no delta.
TickOps(c, chosen) ==
  IF Updated(chosen) = {} /\ Exited(c) = {} THEN NoContents
  ELSE IF CanBuildDirectDelta(c) THEN DirectOps(c, chosen)
  ELSE CatchUpOps(c, chosen)

\* Neither does one for whom the delta turns out empty; nor is the frame kept.
TickDeltas(c, chosen, sequence) ==
  LET ops == TickOps(c, chosen)
  IN  IF DOMAIN ops = {} THEN {}
      ELSE {[sequence |-> sequence, baseline |-> BaselineSequence(c), ops |-> ops]}

TickHistory(c, chosen, sequence) ==
  IF DOMAIN TickOps(c, chosen) = {} THEN history[c]
  ELSE HistoryInsert(history[c],
                     [sequence |-> sequence, contents |-> NextContents(c, chosen)],
                     HistoryCapacity)

TickGraph(c, chosen) ==
  [visible |-> InInterest(c),
   known |-> AfterSelection(Seen(c).known, CandidatesOf(c), chosen)]

-------------------------------------------------------------------------------

\* A selection for every connected client; each serves one client's state only.
Selections == UNION {[S -> Choice] : S \in SUBSET Entity}

AdvanceTick ==
  /\ tick < MaxTick
  /\ \A c \in DOMAIN clients : \A e \in DOMAIN CandidatesOf(c) :
       CandidatesOf(c)[e].score <= MaxScore
  /\ \E chosen \in {[c \in DOMAIN clients |-> SelectUpdates(CandidatesOf(c), Budget)]}
                   \cap [DOMAIN clients -> Selections] :
       /\ graph' = [c \in DOMAIN clients |-> TickGraph(c, chosen[c])]
       /\ history' = [c \in Client |->
                        IF c \in DOMAIN clients THEN TickHistory(c, chosen[c], tick + 1)
                                                ELSE history[c]]
       /\ sent' = [c \in Client |->
                     IF c \in DOMAIN clients THEN TickDeltas(c, chosen[c], tick + 1)
                                             ELSE {}]
  /\ tick' = tick + 1
  /\ UNCHANGED <<clients, entities, acks, received>>

\* what game code does to an entity, short of despawning it
EntityStep(e) ==
  \/ \E p \in Position, v \in Variants, r \in Priorities :
       \/ SpawnEntity(e, p, v["Full"], r)
       \/ \E lod \in Lod : SpawnEntityWithLodPayloads(e, p, v, r, lod)
  \/ \E p \in Position : MoveEntity(e, p)
  \/ \E v \in Variants : SetEntityPayload(e, v["Full"])
  \/ \E v \in Variants : SetEntityLodPayloads(e, v)
  \/ \E p \in Position, v \in Variants : MoveEntityWithLodPayloads(e, p, v)
  \/ \E lod \in Lod : SetEntityLod(e, lod)

GameStep == \E e \in Entity : EntityStep(e) \/ DespawnEntity(e)

SessionStep ==
  \E c \in Client :
    \/ \E p \in Position : ConnectClient(c, p)
    \/ DisconnectClient(c)
    \/ \E p \in Position : UpdateClientPosition(c, p)

Next ==
  \/ GameStep
  \/ SessionStep
  \/ \E c \in Client, s \in 1..MaxTick : ReceiveAck(c, s)
  \/ PumpTransport
  \/ AdvanceTick

Spec == Init /\ [][Next]_vars

-------------------------------------------------------------------------------

(* What the graph says a client sees are spawned entities, and nothing is     *)
(* known of an entity it does not see: spawning, despawning, moving and       *)
(* reconnecting leave no stale entry that would suppress a later enter.       *)
GraphFollowsWorld ==
  \A c \in DOMAIN graph :
    /\ graph[c].visible \subseteq DOMAIN entities
    /\ \A e \in Entity \ graph[c].visible : graph[c].known[e] = Unknown

(* The frames kept for a client are numbered in increasing order by past      *)
(* ticks and never exceed the configured number: looking a baseline up by     *)
(* its sequence finds one frame, whatever sessions the client id has had.     *)
HistoryIsOrdered ==
  \A c \in Client :
    /\ Len(history[c]) <= HistoryCapacity
    /\ \A i \in DOMAIN history[c] :
         /\ history[c][i].sequence \in 1..tick
         /\ \A j \in DOMAIN history[c] :
              i < j => history[c][i].sequence < history[c][j].sequence

(* A delta means its frame: applied to the contents of the baseline it names, *)
(* the operations of a delta give exactly the frame that the server stores    *)
(* under the delta's sequence.  So for direct and catch-up deltas, with and   *)
(* without a baseline, whatever was acknowledged, lost or evicted; a client   *)
(* that holds its baselines can always follow.                                *)
DeltaMeansFrame ==
  \A c \in Client : \A d \in sent'[c] :
    /\ LatestSequence(history'[c]) = d.sequence
    /\ d.baseline \in {NoSnapshot, acks[c]}
    /\ LatestContents(history'[c]) =
         ApplyOps(IF d.baseline = NoSnapshot THEN NoContents
                  ELSE HistoryGet(history[c], d.baseline).contents, d.ops)

DeltasMeanFrames == [][AdvanceTick => DeltaMeansFrame]_vars

-------------------------------------------------------------------------------
\* what the next tick would select for c
NextSelection(c) == SelectUpdates(CandidatesOf(c), Budget)

(* Filtering by interest comes first: whatever the next delta to a client     *)
(* writes is an entity in that client's interest now.                         *)
WritesAreInInterest ==
  \A c \in DOMAIN clients : \A chosen \in {NextSelection(c)} :
    Written(TickOps(c, chosen)) \subseteq InInterest(c)

(* The budget bounds the payload bytes a selection sends, not only the costs  *)
(* the selection reckoned with.                                               *)
PayloadsWithinBudget ==
  \A c \in DOMAIN clients : \A chosen \in {NextSelection(c)} :
    SumFunction([e \in Updated(chosen) |-> PayloadBytes[PayloadForLod(chosen, e)]])
      <= Budget
===============================================================================
