------------------------------ MODULE Replication ------------------------------
(***************************************************************************)
(* gridwake-replication's ReplicationGraph: which entities exist with what *)
(* cost and priority, what each client sees of them, and what each client  *)
(* has been sent.  One action per public operation.                        *)
(***************************************************************************)
EXTENDS Selection

CONSTANTS
  Budget,        \* per-client byte budget of one selection
  ByteChoices,   \* byte costs an entity may be given, a set of [Lod -> Nat]
  Priorities,    \* base priorities an entity may be given
  MaxScore       \* bound of the model on the accumulated priority

ASSUME ReplicationAssumption ==
  /\ Budget \in Nat
  /\ ByteChoices \subseteq [Lod -> Nat]
  /\ Priorities \subseteq Nat
  /\ MaxScore \in Nat

VARIABLES
  entities,   \* ReplicationGraph::entities, a function on the entities it holds
  clients     \* ReplicationGraph::clients, a function on the registered clients

vars == <<entities, clients>>

TypeOK ==
  /\ \E S \in SUBSET Entity : entities \in [S -> Replicated]
  /\ \E C \in SUBSET Client : clients \in [C -> ClientState]

Init ==
  /\ entities = [e \in {} |-> e]
  /\ clients = [c \in {} |-> c]

-------------------------------------------------------------------------------
(* Entities *)

\* clients.entry(c).or_default()
ClientOrNew(c) == IF c \in DOMAIN clients THEN clients[c] ELSE NewClient

SetClient(c, state) ==
  clients' = [d \in DOMAIN clients \cup {c} |-> IF d = c THEN state ELSE clients[d]]

\* A new generation of e, as every client sees it.
OutdateEntity(e) ==
  clients' = [c \in DOMAIN clients |-> Outdated(clients[c], e)]

\* upsert_entity, upsert_entity_with_lod_bytes
UpsertEntity(e, bytes, priority, lod) ==
  LET entity == [bytes |-> bytes, priority |-> priority, lod |-> lod]
  IN  /\ entities' = [d \in DOMAIN entities \cup {e} |->
                        IF d = e THEN entity ELSE entities[d]]
      /\ IF e \in DOMAIN entities THEN OutdateEntity(e) ELSE UNCHANGED clients

\* set_entity_lod: a tier it already has is no change
SetEntityLod(e, lod) ==
  /\ e \in DOMAIN entities
  /\ entities[e].lod # lod
  /\ entities' = [entities EXCEPT ![e].lod = lod]
  /\ OutdateEntity(e)

MarkDirty(e) ==
  /\ e \in DOMAIN entities
  /\ OutdateEntity(e)
  /\ UNCHANGED entities

\* remove_entity
RemoveEntity(e) ==
  /\ entities' = Restrict(entities, DOMAIN entities \ {e})
  /\ clients' = [c \in DOMAIN clients |-> Forgotten(clients[c], e)]

-------------------------------------------------------------------------------
(* Clients *)

RegisterClient(c) == SetClient(c, ClientOrNew(c)) /\ UNCHANGED entities

RemoveClient(c) ==
  /\ clients' = Restrict(clients, DOMAIN clients \ {c})
  /\ UNCHANGED entities

\* set_visible_from_index takes the index's answer, set_visibility only what exists.
SetVisibleFromIndex(c, next) ==
  /\ SetClient(c, WithVisible(ClientOrNew(c), next))
  /\ UNCHANGED entities

SetVisibility(c, wanted) == SetVisibleFromIndex(c, wanted \cap DOMAIN entities)

-------------------------------------------------------------------------------
(* Selection *)

\* select_for_client_with_lod: desired is the tier the caller's selector answers.
CandidatesOf(c, desired) ==
  CandidateTable(entities, clients[c].visible, clients[c].known, desired)

\* The quantifiers over one value make TLC evaluate it once; Choice is what
\* the loop's result is made of.
SelectForClient(c, desired) ==
  /\ c \in DOMAIN clients
  /\ \E cands \in {CandidatesOf(c, desired)} :
       /\ \A e \in DOMAIN cands : cands[e].score <= MaxScore
       /\ \E chosen \in {SelectUpdates(cands, Budget)} \cap [DOMAIN cands -> Choice] :
            clients' = [clients EXCEPT ![c].known = AfterSelection(@, cands, chosen)]
  /\ UNCHANGED entities

Next ==
  \/ \E e \in Entity :
       \/ \E bytes \in ByteChoices, p \in Priorities, lod \in Lod :
            UpsertEntity(e, bytes, p, lod)
       \/ \E lod \in Lod : SetEntityLod(e, lod)
       \/ MarkDirty(e)
       \/ RemoveEntity(e)
  \/ \E c \in Client :
       \/ RegisterClient(c)
       \/ RemoveClient(c)
       \/ \E S \in SUBSET Entity : SetVisibility(c, S)
       \/ \E S \in SUBSET Entity : SetVisibleFromIndex(c, S)
       \/ \E desired \in [Entity -> Lod] : SelectForClient(c, desired)

Spec == Init /\ [][Next]_vars

-------------------------------------------------------------------------------

(* A client carries nothing over from an earlier view: of an entity it does  *)
(* not see, nothing is known, whether it left the view, was removed or       *)
(* never entered.  Otherwise an entity coming back would be taken for one    *)
(* the client still has, and be skipped or sent as a mere update.            *)
UnseenIsUnknown ==
  \A c \in DOMAIN clients : \A e \in Entity \ clients[c].visible :
    clients[c].known[e] = Unknown

(* What a selection takes in all never exceeds the budget, in whatever       *)
(* state it is made and whatever tiers are desired: the falls back to        *)
(* cheaper tiers, the waiting upgrades and the early stop included.          *)
WithinBudget ==
  \A c \in DOMAIN clients, desired \in [Entity -> Lod] :
    LET cands == CandidatesOf(c, desired)
        chosen == SelectUpdates(cands, Budget)
    IN  /\ chosen \in [DOMAIN cands -> Choice]
        /\ BytesUsed(cands, chosen) <= Budget

-------------------------------------------------------------------------------
\* e, seen by c, has a change that c has not been sent
Waiting(c, e) ==
  /\ c \in DOMAIN clients
  /\ e \in clients[c].visible \cap DOMAIN entities
  /\ clients[c].known[e].freshness # "current"

(* Nobody starves: an entity with a positive priority whose cheapest tier     *)
(* fits the budget is not passed over for ever by others that keep changing.  *)
NoStarvation ==
  \A c \in Client, e \in Entity : Waiting(c, e) ~> ~Waiting(c, e)

\* Nothing an entity costs is more than a selection may spend.
EveryTierFits == \A bytes \in ByteChoices, lod \in Lod : bytes[lod] <= Budget

(* And the wait is bounded, where every tier fits: with n entities and        *)
(* priorities of at most q nobody accumulates more than (n - 1) * q, so one   *)
(* of priority p is deferred at most that over p times in a row, whatever     *)
(* else changes, enters or leaves in between.                                 *)
WaitIsBounded ==
  \A c \in DOMAIN clients, e \in Entity :
    clients[c].known[e].score <= (Cardinality(Entity) - 1) * Max(Priorities)
===============================================================================
