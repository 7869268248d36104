-------------------------- MODULE Replication_proofs --------------------------
(* What holds of the replication graph for any clients, entities and budget. *)
EXTENDS Replication, Selection_proofs

-------------------------------------------------------------------------------
(* The invariant: types, and nothing known of what is not seen. *)

IInv == TypeOK /\ UnseenIsUnknown

LEMMA InitIInv == Init => IInv
<1> SUFFICES ASSUME Init PROVE IInv
  OBVIOUS
<1>1. entities \in [{} -> Replicated] /\ clients \in [{} -> ClientState]
  BY DEF Init
<1>2. TypeOK
  BY <1>1 DEF TypeOK
<1>3. UnseenIsUnknown
  BY DEF Init, UnseenIsUnknown
<1>4. QED BY <1>2, <1>3 DEF IInv

LEMMA IInvIsSoundness ==
  IInv <=> /\ \E S \in SUBSET Entity : entities \in [S -> Replicated]
           /\ \E C \in SUBSET Client : clients = [c \in C |-> clients[c]]
           /\ \A c \in DOMAIN clients : Sound(clients[c])
BY DEF IInv, TypeOK, UnseenIsUnknown, Sound

\* The three ways an action changes the clients keep every one of them sound.
LEMMA ClientsStaySound ==
  ASSUME IInv, \E S \in SUBSET Entity : entities' \in [S -> Replicated],
         \/ UNCHANGED clients
         \/ \E e \in Entity : OutdateEntity(e)
         \/ \E e \in Entity : clients' = [c \in DOMAIN clients |-> Forgotten(clients[c], e)]
         \/ \E c \in Client : clients' = Restrict(clients, DOMAIN clients \ {c})
         \/ \E c \in Client, state \in ClientState : Sound(state) /\ SetClient(c, state)
  PROVE  IInv'
<1>1. DOMAIN clients \subseteq Client /\ \A c \in DOMAIN clients : Sound(clients[c])
  BY IInvIsSoundness DEF IInv, TypeOK
<1>2. /\ \E C \in SUBSET Client : clients' = [c \in C |-> clients'[c]]
      /\ \A c \in DOMAIN clients' : Sound(clients'[c])
  <2>1. CASE UNCHANGED clients
    BY <2>1, IInvIsSoundness
  <2>2. CASE \E e \in Entity : OutdateEntity(e)
    BY <1>1, <2>2, SoundOperators DEF OutdateEntity
  <2>3. CASE \E e \in Entity : clients' = [c \in DOMAIN clients |-> Forgotten(clients[c], e)]
    BY <1>1, <2>3, SoundOperators
  <2>4. CASE \E c \in Client : clients' = Restrict(clients, DOMAIN clients \ {c})
    BY <1>1, <2>4 DEF Restrict
  <2>5. CASE \E c \in Client, state \in ClientState : Sound(state) /\ SetClient(c, state)
    <3>1. PICK c \in Client, state \in ClientState : Sound(state) /\ SetClient(c, state)
      BY <2>5
    <3>2. \A d \in DOMAIN clients' : clients'[d] = IF d = c THEN state ELSE clients[d]
      BY <3>1 DEF SetClient
    <3>3. DOMAIN clients' = DOMAIN clients \cup {c} /\ clients' = [d \in DOMAIN clients \cup {c} |-> clients'[d]]
      BY <3>1 DEF SetClient
    <3>4. QED BY <1>1, <3>1, <3>2, <3>3
  <2>6. QED BY <2>1, <2>2, <2>3, <2>4, <2>5
<1>3. QED BY <1>1, <1>2 DEF IInv, TypeOK, UnseenIsUnknown, Sound

LEMMA SelectionStaysSound ==
  ASSUME IInv, NEW c \in Client, NEW desired, SelectForClient(c, desired)
  PROVE  IInv'
<1> DEFINE cands == CandidatesOf(c, desired)
<1>1. PICK chosen \in [DOMAIN cands -> Choice] :
        clients' = [clients EXCEPT ![c].known = AfterSelection(@, cands, chosen)]
  BY DEF SelectForClient
<1>2. c \in DOMAIN clients /\ UNCHANGED entities
  BY DEF SelectForClient
<1>3. /\ entities \in UNION {[S -> Replicated] : S \in SUBSET Entity}
      /\ \A e \in DOMAIN entities : entities[e].priority \in Nat
      /\ Sound(clients[c])
  BY <1>2, IInvIsSoundness DEF Replicated
<1>4. /\ DOMAIN cands \subseteq clients[c].visible
      /\ \A e \in DOMAIN cands : cands[e].score \in Nat
  BY <1>3, CandidateTableScores DEF CandidatesOf, Sound, ClientState
<1> DEFINE after == AfterSelection(clients[c].known, cands, chosen)
           state == [clients[c] EXCEPT !.known = after]
<1>5. /\ after \in [Entity -> Known]
      /\ \A e \in Entity \ DOMAIN cands : after[e] = clients[c].known[e]
  BY <1>1, <1>3, <1>4, AfterSelectionType DEF Sound, ClientState
<1>6. Sound(state)
  <2>1. state \in ClientState /\ state.visible = clients[c].visible /\ state.known = after
    BY <1>3, <1>5 DEF Sound, ClientState
  <2>2. QED BY <1>3, <1>4, <1>5, <2>1 DEF Sound
<1>7. SetClient(c, state)
  BY <1>1, <1>2, IInvIsSoundness DEF SetClient
<1>8. QED BY <1>2, <1>3, <1>6, <1>7, ClientsStaySound DEF Sound

LEMMA StepIInv == IInv /\ [Next]_vars => IInv'
<1> SUFFICES ASSUME IInv, [Next]_vars PROVE IInv'
  OBVIOUS
<1> USE DEF IInv, TypeOK
<1>1. ASSUME NEW e \in Entity, NEW bytes \in ByteChoices, NEW p \in Priorities, NEW lod \in Lod,
             UpsertEntity(e, bytes, p, lod)
      PROVE  IInv'
  <2>1. [bytes |-> bytes, priority |-> p, lod |-> lod] \in Replicated
    BY ReplicationAssumption DEF Replicated
  <2>2. \E S \in SUBSET Entity : entities' \in [S -> Replicated]
    BY <1>1, <2>1 DEF UpsertEntity
  <2>3. (\E d \in Entity : OutdateEntity(d)) \/ UNCHANGED clients
    BY <1>1 DEF UpsertEntity
  <2>4. QED BY <2>2, <2>3, ClientsStaySound
<1>2. ASSUME NEW e \in Entity, NEW lod \in Lod, SetEntityLod(e, lod)
      PROVE  IInv'
  <2>1. \E S \in SUBSET Entity : entities' \in [S -> Replicated]
    BY <1>2 DEF SetEntityLod, Replicated
  <2>2. QED BY <1>2, <2>1, ClientsStaySound DEF SetEntityLod
<1>3. ASSUME NEW e \in Entity, MarkDirty(e)
      PROVE  IInv'
  BY <1>3, ClientsStaySound DEF MarkDirty
<1>4. ASSUME NEW e \in Entity, RemoveEntity(e)
      PROVE  IInv'
  <2>1. \E S \in SUBSET Entity : entities' \in [S -> Replicated]
    BY <1>4 DEF RemoveEntity, Restrict
  <2>2. QED BY <1>4, <2>1, ClientsStaySound DEF RemoveEntity
<1>5. ASSUME NEW c \in Client PROVE Sound(ClientOrNew(c))
  BY IInvIsSoundness, NewClientType DEF ClientOrNew, Sound, NewClient
<1>6. ASSUME NEW c \in Client, RegisterClient(c)
      PROVE  IInv'
  BY <1>5, <1>6, ClientsStaySound DEF RegisterClient, Sound
<1>7. ASSUME NEW c \in Client, RemoveClient(c)
      PROVE  IInv'
  BY <1>7, ClientsStaySound DEF RemoveClient
<1>8. ASSUME NEW c \in Client, NEW S \in SUBSET Entity, SetVisibleFromIndex(c, S)
      PROVE  IInv'
  <2>1. Sound(WithVisible(ClientOrNew(c), S))
    BY <1>5, WithVisibleType DEF Sound
  <2>2. QED BY <1>8, <2>1, ClientsStaySound DEF SetVisibleFromIndex, Sound
<1>9. ASSUME NEW c \in Client, NEW S \in SUBSET Entity, SetVisibility(c, S)
      PROVE  IInv'
  <2>1. S \cap DOMAIN entities \in SUBSET Entity
    OBVIOUS
  <2>2. QED BY <1>8, <1>9, <2>1 DEF SetVisibility
<1>10. ASSUME NEW c \in Client, NEW desired \in [Entity -> Lod], SelectForClient(c, desired)
       PROVE  IInv'
  BY <1>10, SelectionStaysSound
<1>11. CASE UNCHANGED vars
  BY <1>11 DEF vars, UnseenIsUnknown
<1>12. QED
  BY <1>1, <1>2, <1>3, <1>4, <1>6, <1>7, <1>8, <1>9, <1>10, <1>11 DEF Next

THEOREM SpecIInv == Spec => []IInv
BY InitIInv, StepIInv, PTL DEF Spec

(* Whatever is registered, seen, upserted, removed and selected in whatever   *)
(* order, the tables keep their types: a score is never negative and a tier   *)
(* is remembered only as a tier or as none.                                   *)
THEOREM TypeCorrect == Spec => []TypeOK
BY SpecIInv, PTL DEF IInv

(* Nothing is ever known of an entity that a client does not see, for any     *)
(* number of clients and entities, budgets, costs and answers of selectors.   *)
THEOREM UnseenStaysUnknown == Spec => []UnseenIsUnknown
BY SpecIInv, PTL DEF IInv

-------------------------------------------------------------------------------
(* The budget.  A sum over the candidates is one over a finite set because    *)
(* the graph only ever holds finitely many entities.                          *)

FinitelyMany == IsFiniteSet(DOMAIN entities)

LEMMA SpecFinitelyMany == Spec => []FinitelyMany
<1>1. Init => FinitelyMany
  <2>1. Init => DOMAIN entities = {}
    BY DEF Init
  <2>2. QED BY <2>1, FS_EmptySet DEF FinitelyMany
<1>2. FinitelyMany /\ [Next]_vars => FinitelyMany'
  <2> SUFFICES ASSUME FinitelyMany, [Next]_vars PROVE FinitelyMany'
    OBVIOUS
  <2>1. ASSUME NEW e \in Entity, NEW bytes \in ByteChoices, NEW p \in Priorities, NEW lod \in Lod,
               UpsertEntity(e, bytes, p, lod)
        PROVE  FinitelyMany'
    <3>1. DOMAIN entities' = DOMAIN entities \cup {e}
      BY <2>1 DEF UpsertEntity
    <3>2. QED BY <3>1, FS_AddElement DEF FinitelyMany
  <2>2. ASSUME NEW e \in Entity, NEW lod \in Lod, SetEntityLod(e, lod)
        PROVE  FinitelyMany'
    BY <2>2 DEF SetEntityLod, FinitelyMany
  <2>3. ASSUME NEW e \in Entity, RemoveEntity(e)
        PROVE  FinitelyMany'
    <3>1. DOMAIN entities' \subseteq DOMAIN entities
      BY <2>3 DEF RemoveEntity, Restrict
    <3>2. QED BY <3>1, FS_Subset DEF FinitelyMany
  <2>4. CASE UNCHANGED entities
    BY <2>4 DEF FinitelyMany
  <2>5. QED
    BY <2>1, <2>2, <2>3, <2>4 DEF Next, vars, MarkDirty, RegisterClient, RemoveClient,
       SetVisibility, SetVisibleFromIndex, SelectForClient
<1>3. QED BY <1>1, <1>2, PTL DEF Spec

\* What the walk is given are candidates in its sense.
LEMMA CandidatesAre ==
  ASSUME IInv, FinitelyMany, NEW c \in DOMAIN clients, NEW desired \in [Entity -> Lod]
  PROVE  Candidates(CandidatesOf(c, desired))
<1> DEFINE cands == CandidatesOf(c, desired)
<1>1. /\ \A e \in DOMAIN entities : entities[e] \in Replicated
      /\ DOMAIN entities \subseteq Entity
      /\ Sound(clients[c])
  BY IInvIsSoundness
<1>2. /\ DOMAIN cands \subseteq DOMAIN entities
      /\ \A e \in DOMAIN cands : cands[e].score \in Nat
  BY <1>1, CandidateTableScores DEF CandidatesOf, Sound, ClientState, Replicated
<1>3. \A e \in DOMAIN cands : cands[e].bytes = entities[e].bytes
  BY DEF CandidatesOf, CandidateTable, Candidate
<1>4. IsFiniteSet(DOMAIN cands) /\ DOMAIN cands \subseteq Nat
  BY <1>1, <1>2, FS_Subset, IdAssumption DEF FinitelyMany
<1>5. QED BY <1>1, <1>2, <1>3, <1>4 DEF Candidates, Replicated

(* Whatever client is served next, in whatever state and for whatever tiers,  *)
(* the selection decides every candidate and takes no more than the budget:   *)
(* for any number of entities, any costs, priorities and budget.              *)
THEOREM BudgetKept == Spec => []WithinBudget
<1>1. IInv /\ FinitelyMany => WithinBudget
  <2> SUFFICES ASSUME IInv, FinitelyMany,
                      NEW c \in DOMAIN clients, NEW desired \in [Entity -> Lod]
               PROVE  LET cands == CandidatesOf(c, desired)
                          chosen == SelectUpdates(cands, Budget)
                      IN  /\ chosen \in [DOMAIN cands -> Choice]
                          /\ BytesUsed(cands, chosen) <= Budget
    BY DEF WithinBudget
  <2> DEFINE cands == CandidatesOf(c, desired)
  <2>1. Candidates(cands) /\ Budget \in Nat
    BY CandidatesAre, ReplicationAssumption
  <2> HIDE DEF cands
  <2>2. /\ SelectUpdates(cands, Budget) \in [DOMAIN cands -> Choice]
        /\ BytesUsed(cands, SelectUpdates(cands, Budget)) <= Budget
    BY <2>1, SelectUpdatesIsWalk, SelectionWithinBudget
  <2>3. QED BY <2>2 DEF cands
<1>2. QED BY SpecIInv, SpecFinitelyMany, <1>1, PTL
-------------------------------------------------------------------------------
(* The wait.  What an entity costs and weighs are what it was given, and a    *)
(* client's scores stay ranked: of n entities at most n - 1 - k have more     *)
(* than k times the highest priority.                                         *)

AsGiven ==
  \A e \in DOMAIN entities : entities[e].bytes \in ByteChoices /\ entities[e].priority \in Priorities

RanksKept == \A c \in DOMAIN clients : Ranked(clients[c].known, Max(Priorities))

\* What the bound needs of the constants
WaitAssumption ==
  IsFiniteSet(Entity) /\ IsFiniteSet(Priorities) /\ Priorities # {} /\ EveryTierFits

LEMMA HighestPriority ==
  ASSUME WaitAssumption
  PROVE  Max(Priorities) \in Nat /\ \A p \in Priorities : p \in Nat /\ p <= Max(Priorities)
<1>1. \A p \in Priorities : p \in Nat
  BY ReplicationAssumption
<1>2. Integral(Priorities)
  BY <1>1 DEF Integral
<1>3. Max(Priorities) \in Priorities /\ \A p \in Priorities : p <= Max(Priorities)
  BY <1>2, MaxOf DEF WaitAssumption
<1>4. QED BY <1>1, <1>3

LEMMA SpecAsGiven == Spec => []AsGiven
<1>1. Init => AsGiven
  BY DEF Init, AsGiven
<1>2. TypeOK /\ AsGiven /\ [Next]_vars => AsGiven'
  <2> SUFFICES ASSUME TypeOK, AsGiven, [Next]_vars PROVE AsGiven'
    OBVIOUS
  <2>1. ASSUME NEW e \in Entity, NEW bytes \in ByteChoices, NEW p \in Priorities, NEW lod \in Lod,
               UpsertEntity(e, bytes, p, lod)
        PROVE  AsGiven'
    BY <2>1 DEF UpsertEntity, AsGiven
  <2>2. ASSUME NEW e \in Entity, NEW lod \in Lod, SetEntityLod(e, lod)
        PROVE  AsGiven'
    BY <2>2 DEF SetEntityLod, AsGiven, TypeOK, Replicated
  <2>3. ASSUME NEW e \in Entity, RemoveEntity(e)
        PROVE  AsGiven'
    BY <2>3 DEF RemoveEntity, Restrict, AsGiven
  <2>4. CASE UNCHANGED entities
    BY <2>4 DEF AsGiven
  <2>5. QED
    BY <2>1, <2>2, <2>3, <2>4 DEF Next, vars, MarkDirty, RegisterClient, RemoveClient,
       SetVisibility, SetVisibleFromIndex, SelectForClient
<1>3. QED BY <1>1, <1>2, TypeCorrect, PTL DEF Spec

\* A client nobody has selected for has accumulated nothing.
LEMMA NewClientRanked ==
  ASSUME WaitAssumption
  PROVE  Ranked(NewClient.known, Max(Priorities))
<1> SUFFICES ASSUME NEW k \in 0..(Cardinality(Entity) - 1)
             PROVE  Cardinality(Above(NewClient.known, k * Max(Priorities))) <= Cardinality(Entity) - 1 - k
  BY DEF Ranked
<1>1. PICK n \in Nat : n = Cardinality(Entity)
  BY FS_CardinalityType DEF WaitAssumption
<1>2. PICK s \in Nat : s = k * Max(Priorities)
  BY <1>1, HighestPriority
<1>3. \A e \in Entity : NewClient.known[e].score = 0
  BY DEF NewClient, Unknown
<1>4. Cardinality(Above(NewClient.known, s)) = 0
  <2>1. Above(NewClient.known, s) = {}
    BY <1>3 DEF Above
  <2>2. QED BY <2>1, FS_EmptySet
<1>5. QED BY <1>1, <1>2, <1>4

\* The ways an action changes the clients, but for a selection, raise no score.
LEMMA NobodyRaised ==
  ASSUME WaitAssumption, IInv, RanksKept,
         \/ UNCHANGED clients
         \/ \E e \in Entity : OutdateEntity(e)
         \/ \E e \in Entity : clients' = [c \in DOMAIN clients |-> Forgotten(clients[c], e)]
         \/ \E c \in Client : clients' = Restrict(clients, DOMAIN clients \ {c})
         \/ \E c \in Client, state \in ClientState :
              Ranked(state.known, Max(Priorities)) /\ SetClient(c, state)
  PROVE  RanksKept'
<1> DEFINE q == Max(Priorities)
<1>1. q \in Nat /\ IsFiniteSet(Entity)
  BY HighestPriority DEF WaitAssumption
<1>2. ASSUME NEW c \in DOMAIN clients, NEW e \in Entity
      PROVE  /\ Ranked(Outdated(clients[c], e).known, q)
             /\ Ranked(Forgotten(clients[c], e).known, q)
  <2>1. clients[c] \in ClientState /\ Ranked(clients[c].known, q)
    BY IInvIsSoundness DEF Sound, RanksKept
  <2>2. \A d \in Entity : /\ Outdated(clients[c], e).known[d].score = clients[c].known[d].score
                          /\ Forgotten(clients[c], e).known[d] = clients[c].known[d]
                               \/ Forgotten(clients[c], e).known[d].score = 0
    BY <2>1 DEF Outdated, Forgotten, ClientState, Known, Unknown
  <2> HIDE DEF q
  <2>3. Ranked(Forgotten(clients[c], e).known, q)
    BY <1>1, <2>1, <2>2, FewerAbove
  <2>4. \A s : Above(Outdated(clients[c], e).known, s) = Above(clients[c].known, s)
    BY <2>2 DEF Above
  <2>5. Ranked(Outdated(clients[c], e).known, q)
    BY <2>1, <2>4 DEF Ranked
  <2>6. QED BY <2>3, <2>5
<1>3. CASE UNCHANGED clients
  BY <1>3 DEF RanksKept
<1>4. CASE \E e \in Entity : OutdateEntity(e)
  BY <1>2, <1>4 DEF OutdateEntity, RanksKept
<1>5. CASE \E e \in Entity : clients' = [c \in DOMAIN clients |-> Forgotten(clients[c], e)]
  BY <1>2, <1>5 DEF RanksKept
<1>6. CASE \E c \in Client : clients' = Restrict(clients, DOMAIN clients \ {c})
  BY <1>6 DEF Restrict, RanksKept
<1>7. CASE \E c \in Client, state \in ClientState : Ranked(state.known, q) /\ SetClient(c, state)
  BY <1>7 DEF SetClient, RanksKept
<1>8. QED BY <1>3, <1>4, <1>5, <1>6, <1>7

LEMMA SelectionRanked ==
  ASSUME WaitAssumption, IInv, FinitelyMany, AsGiven, RanksKept,
         NEW c \in Client, NEW desired \in [Entity -> Lod], SelectForClient(c, desired)
  PROVE  RanksKept'
<1> DEFINE q == Max(Priorities)
           known == clients[c].known
           cands == CandidatesOf(c, desired)
           chosen == SelectUpdates(cands, Budget)
<1>1. /\ c \in DOMAIN clients
      /\ clients' = [clients EXCEPT ![c].known = AfterSelection(@, cands, chosen)]
  BY DEF SelectForClient
<1>2. q \in Nat /\ IsFiniteSet(Entity) /\ Budget \in Nat
  BY HighestPriority, ReplicationAssumption DEF WaitAssumption
<1>3. clients[c] \in ClientState /\ known \in [Entity -> Known]
  BY <1>1, IInvIsSoundness DEF Sound, ClientState
<1>4. Candidates(cands)
  BY <1>1, CandidatesAre
<1>5. DOMAIN cands \subseteq DOMAIN entities /\ DOMAIN cands \subseteq Entity
  BY IInvIsSoundness DEF CandidatesOf, CandidateTable
<1>6. \A e \in DOMAIN cands : /\ cands[e].lod = desired[e]
                              /\ cands[e].bytes = entities[e].bytes
                              /\ cands[e].score = known[e].score + entities[e].priority
  BY DEF CandidatesOf, CandidateTable, Candidate
<1>7. AllFit(cands, Budget)
  BY <1>5, <1>6 DEF AllFit, AsGiven, WaitAssumption, EveryTierFits
<1>8. \A e \in DOMAIN cands : cands[e].score <= known[e].score + q
  <2> SUFFICES ASSUME NEW e \in DOMAIN cands PROVE cands[e].score <= known[e].score + q
    OBVIOUS
  <2>1. entities[e].priority \in Nat /\ entities[e].priority <= q
    BY <1>5, HighestPriority DEF AsGiven
  <2>2. known[e].score \in Nat
    BY <1>3, <1>5 DEF Known
  <2> HIDE DEF q, known, cands
  <2>3. QED BY <1>2, <1>6, <2>1, <2>2
<1>9. Ranked(known, q)
  BY <1>1 DEF RanksKept
<1> HIDE DEF q, known, cands
<1>10. Ranked(AfterSelection(known, cands, chosen), q)
  BY <1>2, <1>3, <1>4, <1>5, <1>7, <1>8, <1>9, SelectionKeepsRanks
<1>11. /\ DOMAIN clients' = DOMAIN clients
       /\ clients'[c].known = AfterSelection(known, cands, chosen)
       /\ \A d \in DOMAIN clients \ {c} : clients'[d] = clients[d]
  BY <1>1, <1>3 DEF known, ClientState
<1>12. QED BY <1>10, <1>11 DEF RanksKept, q

LEMMA StepRanksKept ==
  ASSUME WaitAssumption
  PROVE  IInv /\ FinitelyMany /\ AsGiven /\ RanksKept /\ [Next]_vars => RanksKept'
<1> SUFFICES ASSUME IInv, FinitelyMany, AsGiven, RanksKept, [Next]_vars PROVE RanksKept'
  OBVIOUS
<1>1. ASSUME NEW e \in Entity, NEW bytes \in ByteChoices, NEW p \in Priorities, NEW lod \in Lod,
             UpsertEntity(e, bytes, p, lod)
      PROVE  RanksKept'
  BY <1>1, NobodyRaised DEF UpsertEntity
<1>2. ASSUME NEW e \in Entity, NEW lod \in Lod, SetEntityLod(e, lod)
      PROVE  RanksKept'
  BY <1>2, NobodyRaised DEF SetEntityLod
<1>3. ASSUME NEW e \in Entity, MarkDirty(e)
      PROVE  RanksKept'
  BY <1>3, NobodyRaised DEF MarkDirty
<1>4. ASSUME NEW e \in Entity, RemoveEntity(e)
      PROVE  RanksKept'
  BY <1>4, NobodyRaised DEF RemoveEntity
<1>5. ASSUME NEW c \in Client
      PROVE  ClientOrNew(c) \in ClientState /\ Ranked(ClientOrNew(c).known, Max(Priorities))
  BY IInvIsSoundness, NewClientRanked, NewClientType DEF ClientOrNew, RanksKept, Sound
<1>6. ASSUME NEW c \in Client, RegisterClient(c)
      PROVE  RanksKept'
  BY <1>5, <1>6, NobodyRaised DEF RegisterClient
<1>7. ASSUME NEW c \in Client, RemoveClient(c)
      PROVE  RanksKept'
  BY <1>7, NobodyRaised DEF RemoveClient
<1>8. ASSUME NEW c \in Client, NEW S \in SUBSET Entity, SetVisibleFromIndex(c, S)
      PROVE  RanksKept'
  <2>1. Ranked(WithVisible(ClientOrNew(c), S).known, Max(Priorities))
    <3>1. \A e \in Entity : \/ WithVisible(ClientOrNew(c), S).known[e] = ClientOrNew(c).known[e]
                            \/ WithVisible(ClientOrNew(c), S).known[e].score = 0
      BY <1>5, WithVisibleType DEF Unknown
    <3>2. QED BY <1>5, <3>1, FewerAbove, HighestPriority DEF WaitAssumption
  <2>2. WithVisible(ClientOrNew(c), S) \in ClientState
    BY <1>5, WithVisibleType
  <2>3. QED BY <1>8, <2>1, <2>2, NobodyRaised DEF SetVisibleFromIndex
<1>9. ASSUME NEW c \in Client, NEW S \in SUBSET Entity, SetVisibility(c, S)
      PROVE  RanksKept'
  <2>1. S \cap DOMAIN entities \in SUBSET Entity
    OBVIOUS
  <2>2. QED BY <1>8, <1>9, <2>1 DEF SetVisibility
<1>10. ASSUME NEW c \in Client, NEW desired \in [Entity -> Lod], SelectForClient(c, desired)
       PROVE  RanksKept'
  BY <1>10, SelectionRanked
<1>11. CASE UNCHANGED vars
  BY <1>11 DEF vars, RanksKept
<1>12. QED
  BY <1>1, <1>2, <1>3, <1>4, <1>6, <1>7, <1>8, <1>9, <1>10, <1>11 DEF Next

\* Ranks bound every score.
LEMMA RanksBoundScores ==
  ASSUME WaitAssumption, IInv, RanksKept
  PROVE  WaitIsBounded
<1> SUFFICES ASSUME NEW c \in DOMAIN clients, NEW e \in Entity
             PROVE  clients[c].known[e].score <= (Cardinality(Entity) - 1) * Max(Priorities)
  BY DEF WaitIsBounded
<1> DEFINE known == clients[c].known
<1>1. PICK n \in Nat : n = Cardinality(Entity) /\ n # 0
  BY FS_CardinalityType, FS_EmptySet DEF WaitAssumption
<1>2. PICK s \in Nat : s = (n - 1) * Max(Priorities)
  BY <1>1, HighestPriority
<1>3. known[e].score \in Nat
  BY IInvIsSoundness DEF Sound, ClientState, Known
<1>4. Cardinality(Above(known, s)) <= n - 1 - (n - 1)
  BY <1>1, <1>2 DEF RanksKept, Ranked
<1> HIDE DEF known
<1>5. IsFiniteSet(Above(known, s)) /\ Cardinality(Above(known, s)) \in Nat
  BY FS_Subset, FS_CardinalityType DEF Above, WaitAssumption
<1>6. Above(known, s) = {}
  BY <1>1, <1>4, <1>5, FS_EmptySet
<1>7. ~ (known[e].score > s)
  BY <1>6 DEF Above
<1>8. QED BY <1>1, <1>2, <1>3, <1>7 DEF known

(* Where every tier fits the budget nobody waits longer than the others can    *)
(* make it: with n entities and priorities of at most q no score exceeds      *)
(* (n - 1) * q, for any number of entities and clients, any costs, any        *)
(* answers of selectors, and whatever is upserted, marked, moved in and out   *)
(* of views or removed between two selections.                                *)
THEOREM WaitsAreBounded ==
  ASSUME IsFiniteSet(Entity), IsFiniteSet(Priorities), Priorities # {}, EveryTierFits
  PROVE  Spec => []WaitIsBounded
<1>1. WaitAssumption
  BY DEF WaitAssumption
<1>2. Init => RanksKept
  BY DEF Init, RanksKept
<1>3. IInv /\ FinitelyMany /\ AsGiven /\ RanksKept /\ [Next]_vars => RanksKept'
  BY <1>1, StepRanksKept
<1>4. IInv /\ RanksKept => WaitIsBounded
  BY <1>1, RanksBoundScores
<1>5. QED BY <1>2, <1>3, <1>4, SpecIInv, SpecFinitelyMany, SpecAsGiven, PTL DEF Spec
===============================================================================
