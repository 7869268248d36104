--------------------------- MODULE ReplicationGraph ---------------------------
(***************************************************************************)
(* gridwake-replication's ReplicationGraph with the counters it keeps: an  *)
(* entity has a generation that every change raises, a client an entry for *)
(* each entity it was ever a candidate for, with the generation and the    *)
(* tier it was sent last.  Replication keeps "never", "stale" or "current" *)
(* instead; this module implements it, which is what justifies that.       *)
(***************************************************************************)
EXTENDS Selection, Maps

CONSTANTS
  Budget,         \* per-client byte budget of one selection
  ByteChoices,    \* byte costs an entity may be given, a set of [Lod -> Nat]
  Priorities,     \* base priorities an entity may be given
  MaxScore,       \* bound of the model on the accumulated priority
  MaxGeneration   \* bound of the model on generations, u64 in the code

ASSUME ReplicationGraphAssumption ==
  /\ Budget \in Nat
  /\ ByteChoices \subseteq [Lod -> Nat]
  /\ Priorities \subseteq Nat
  /\ MaxScore \in Nat
  /\ MaxGeneration \in Nat

VARIABLES
  entities,   \* ReplicationGraph::entities, a function on the entities it holds
  clients     \* ReplicationGraph::clients, a function on the registered clients

vars == <<entities, clients>>

\* EntityReplication
Counted == [bytes : [Lod -> Nat], priority : Nat, lod : Lod, generation : Nat]

\* ClientEntityReplication, and its default
Sent == [generation : Nat, lod : Lod \cup {NoLod}, score : Nat]
Unsent == [generation |-> 0, lod |-> NoLod, score |-> 0]

\* ClientReplication: entries is its map entities
IsViewer(viewer) ==
  /\ viewer = [visible |-> viewer.visible, entries |-> viewer.entries]
  /\ viewer.visible \subseteq Entity
  /\ \E S \in SUBSET Entity : viewer.entries \in [S -> Sent]
NewViewer == [visible |-> {}, entries |-> EmptyMap]

TypeOK ==
  /\ \E S \in SUBSET Entity : entities \in [S -> Counted]
  /\ \E C \in SUBSET Client : clients = [c \in C |-> clients[c]]
  /\ \A c \in DOMAIN clients : IsViewer(clients[c])

Init == entities = EmptyMap /\ clients = EmptyMap

-------------------------------------------------------------------------------
(* Entities *)

\* Mutant: a change that leaves the generation as it was.
NextGenerationSame(entity) == entity

\* generation.saturating_add(1); a bound on the model keeps it from saturating.
NextGeneration(entity) == [entity EXCEPT !.generation = @ + 1]

MayChange(e) == e \in DOMAIN entities /\ entities[e].generation < MaxGeneration

\* upsert_entity, upsert_entity_with_lod_bytes
UpsertEntity(e, bytes, priority, lod) ==
  LET given(generation) == [bytes |-> bytes, priority |-> priority, lod |-> lod,
                            generation |-> generation]
  IN  /\ \/ /\ MayChange(e)
            /\ entities' = Put(entities, e, NextGeneration(given(entities[e].generation)))
         \/ /\ e \notin DOMAIN entities
            /\ entities' = Put(entities, e, given(1))
      /\ UNCHANGED clients

\* set_entity_lod: a tier it already has is no change
SetEntityLod(e, lod) ==
  /\ MayChange(e)
  /\ entities[e].lod # lod
  /\ entities' = Put(entities, e, NextGeneration([entities[e] EXCEPT !.lod = lod]))
  /\ UNCHANGED clients

MarkDirty(e) ==
  /\ MayChange(e)
  /\ entities' = Put(entities, e, NextGeneration(entities[e]))
  /\ UNCHANGED clients

\* Mutant: only what is visible is dropped.
WithoutEntityKept(viewer, e) == [viewer EXCEPT !.visible = @ \ {e}]

WithoutEntity(viewer, e) ==
  [visible |-> viewer.visible \ {e}, entries |-> Drop(viewer.entries, {e})]

\* remove_entity: another of the same id starts again from generation 1.
RemoveEntity(e) ==
  /\ entities' = Drop(entities, {e})
  /\ clients' = [c \in DOMAIN clients |-> WithoutEntity(clients[c], e)]

-------------------------------------------------------------------------------
(* Clients *)

\* clients.entry(c).or_default()
ViewerOf(c) == IF c \in DOMAIN clients THEN clients[c] ELSE NewViewer

RegisterClient(c) == clients' = Put(clients, c, ViewerOf(c)) /\ UNCHANGED entities

RemoveClient(c) == clients' = Drop(clients, {c}) /\ UNCHANGED entities

\* set_visible_from_index takes the index's answer, set_visibility only what exists.
SetVisibleFromIndex(c, next) ==
  LET viewer == ViewerOf(c)
  IN  /\ clients' = Put(clients, c,
                        [visible |-> next,
                         entries |-> Drop(viewer.entries, viewer.visible \ next)])
      /\ UNCHANGED entities

SetVisibility(c, wanted) == SetVisibleFromIndex(c, wanted \cap DOMAIN entities)

-------------------------------------------------------------------------------
(* Selection *)

\* entities.entry(e).or_default() of a client
EntryOf(viewer, e) == IF e \in DOMAIN viewer.entries THEN viewer.entries[e] ELSE Unsent

\* Nothing has changed since what was sent.
IsSent(entity, sent) == entity.generation <= sent.generation

\* an entity is skipped when it was sent as it is, at the tier desired
GraphCandidates(viewer, desired) ==
  LET sent == [e \in viewer.visible \cap DOMAIN entities |-> EntryOf(viewer, e)]
  IN  [e \in {e \in DOMAIN sent : ~ (IsSent(entities[e], sent[e]) /\ sent[e].lod = desired[e])} |->
         [lod |-> desired[e], bytes |-> entities[e].bytes,
          score |-> sent[e].score + entities[e].priority,
          clean |-> IsSent(entities[e], sent[e]), lastLod |-> sent[e].lod]]

\* Mutant: a deferred candidate passes for sent.
EntriesAfterDeferredSent(viewer, cands, chosen) ==
  [e \in DOMAIN viewer.entries \cup (viewer.visible \cap DOMAIN entities) |->
     IF e \notin DOMAIN cands THEN EntryOf(viewer, e)
     ELSE [generation |-> entities[e].generation, lod |-> chosen[e], score |-> 0]]

\* What the loop leaves in the client's entries; or_default enters every entity looked at.
EntriesAfter(viewer, cands, chosen) ==
  [e \in DOMAIN viewer.entries \cup (viewer.visible \cap DOMAIN entities) |->
     IF e \notin DOMAIN cands THEN EntryOf(viewer, e)
     ELSE IF chosen[e] = Deferred THEN [EntryOf(viewer, e) EXCEPT !.score = cands[e].score]
     ELSE [generation |-> entities[e].generation, lod |-> chosen[e], score |-> 0]]

\* select_for_client_with_lod: desired is the tier the caller's selector answers.
SelectForClient(c, desired) ==
  /\ c \in DOMAIN clients
  /\ \E cands \in {GraphCandidates(clients[c], desired)} :
       /\ \A e \in DOMAIN cands : cands[e].score <= MaxScore
       /\ \E chosen \in {SelectUpdates(cands, Budget)} \cap [DOMAIN cands -> Choice] :
            clients' = [clients EXCEPT ![c].entries = EntriesAfter(clients[c], cands, chosen)]
  /\ UNCHANGED entities

Next ==
  \/ \E e \in Entity :
       \/ \E bytes \in ByteChoices, p \in Priorities, lod \in Lod :
            UpsertEntity(e, bytes, p, lod)
       \/ \E lod \in Lod : SetEntityLod(e, lod)
       \/ MarkDirty(e)
       \/ RemoveEntity(e)
  \/ \E c \in Client :
       \/ RegisterClient(c)
       \/ RemoveClient(c)
       \/ \E S \in SUBSET Entity : SetVisibility(c, S)
       \/ \E S \in SUBSET Entity : SetVisibleFromIndex(c, S)
       \/ \E desired \in [Entity -> Lod] : SelectForClient(c, desired)

Spec == Init /\ [][Next]_vars

-------------------------------------------------------------------------------

(* What the graph remembers of a client is about what the client has: an      *)
(* entry is of an entity that it sees and that exists, and of a generation    *)
(* that the entity has reached.  An entry that outlived its entity would be   *)
(* ahead of the next one of that id, which starts again at generation 1, and  *)
(* hide its changes until it catches up; one that outlived its view would     *)
(* make a returning entity pass for one the client still shows.               *)
EntriesFollowGraph ==
  \A c \in DOMAIN clients : \A e \in DOMAIN clients[c].entries :
    /\ e \in clients[c].visible \cap DOMAIN entities
    /\ clients[c].entries[e].generation <= entities[e].generation

(* The answers the counters give in a world of entities: was the client sent  *)
(* anything, and was it the present generation?                               *)
FreshnessOf(world, e, sent) ==
  IF sent.generation = 0 THEN "never"
  ELSE IF e \in DOMAIN world /\ IsSent(world[e], sent) THEN "current"
  ELSE "stale"

KnownOf(world, viewer, e) ==
  LET sent == EntryOf(viewer, e)
  IN  [freshness |-> FreshnessOf(world, e, sent), lod |-> sent.lod, score |-> sent.score]

AnswersOf(world, viewer) ==
  [visible |-> viewer.visible, known |-> [e \in Entity |-> KnownOf(world, viewer, e)]]

Uncounted(entity) ==
  [bytes |-> entity.bytes, priority |-> entity.priority, lod |-> entity.lod]

graphEntities == [e \in DOMAIN entities |-> Uncounted(entities[e])]
graphClients == [c \in DOMAIN clients |-> AnswersOf(entities, clients[c])]

Graph == INSTANCE Replication WITH entities <- graphEntities, clients <- graphClients

(* The counters implement the graph that only knows never, stale and current: *)
(* no change is missed and none is sent twice because of how generations are  *)
(* counted, dropped and started again.                                        *)
ImplementsReplication == Graph!Spec
===============================================================================
