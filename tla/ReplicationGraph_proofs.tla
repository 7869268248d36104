------------------------ MODULE ReplicationGraph_proofs ------------------------
(***************************************************************************)
(* That the counters of ReplicationGraph implement Replication's answers,  *)
(* for any clients, entities and budget.                                   *)
(***************************************************************************)
EXTENDS ReplicationGraph, Selection_proofs

-------------------------------------------------------------------------------
(* Worlds and viewers *)

\* the entities of a graph, every one with a generation of at least 1
IsWorld(world) ==
  /\ \E S \in SUBSET Entity : world \in [S -> Counted]
  /\ \A e \in DOMAIN world : world[e].generation > 0

\* what EntriesFollowGraph says of one viewer
EntriesFollow(world, viewer) ==
  \A e \in DOMAIN viewer.entries :
    e \in viewer.visible \cap DOMAIN world /\ viewer.entries[e].generation <= world[e].generation

Follows(world, viewer) == IsViewer(viewer) /\ EntriesFollow(world, viewer)

LEMMA EntryType ==
  ASSUME NEW viewer, IsViewer(viewer), NEW e
  PROVE  /\ EntryOf(viewer, e) \in Sent
         /\ EntryOf(viewer, e) = [generation |-> EntryOf(viewer, e).generation,
                                  lod |-> EntryOf(viewer, e).lod,
                                  score |-> EntryOf(viewer, e).score]
<1>1. Unsent \in Sent
  BY DEF Unsent, Sent
<1>2. EntryOf(viewer, e) \in Sent
  BY <1>1 DEF IsViewer, EntryOf
<1>3. QED BY <1>2 DEF Sent

LEMMA CountedIs ==
  ASSUME NEW world, IsWorld(world), NEW e \in DOMAIN world
  PROVE  /\ e \in Entity /\ world[e].generation \in Nat /\ world[e].generation > 0
         /\ world[e].priority \in Nat
BY DEF IsWorld, Counted

\* What is known depends on the entry and on whether it is of the present generation.
LEMMA SameKnown ==
  ASSUME NEW world, NEW viewer, NEW other, NEW viewed, NEW e, EntryOf(viewer, e) = EntryOf(viewed, e),
         (e \in DOMAIN world /\ IsSent(world[e], EntryOf(viewer, e))) <=>
         (e \in DOMAIN other /\ IsSent(other[e], EntryOf(viewer, e)))
  PROVE  KnownOf(world, viewer, e) = KnownOf(other, viewed, e)
<1>1. FreshnessOf(world, e, EntryOf(viewer, e)) = FreshnessOf(other, e, EntryOf(viewer, e))
  BY DEF FreshnessOf
<1>2. QED BY <1>1 DEF KnownOf

LEMMA UnsentIsUnknown ==
  ASSUME NEW world, NEW viewer, NEW e, EntryOf(viewer, e) = Unsent
  PROVE  KnownOf(world, viewer, e) = Unknown
BY DEF KnownOf, FreshnessOf, Unsent, Unknown

\* What an entity that exists is known as.
LEMMA KnownIs ==
  ASSUME NEW world, IsWorld(world), NEW viewer, IsViewer(viewer), NEW e \in DOMAIN world
  PROVE  LET known == KnownOf(world, viewer, e)
             sent == EntryOf(viewer, e)
         IN  /\ known \in Known /\ known.lod = sent.lod /\ known.score = sent.score
             /\ known.freshness = "current" <=> IsSent(world[e], sent)
<1>1. PICK sent \in Sent : sent = EntryOf(viewer, e)
  BY EntryType
<1>2. PICK f : f = FreshnessOf(world, e, sent)
  OBVIOUS
<1>3. f \in Freshness /\ (f = "current" <=> IsSent(world[e], sent))
  BY <1>2, CountedIs DEF FreshnessOf, Freshness, IsSent, Sent
<1>4. KnownOf(world, viewer, e) = [freshness |-> f, lod |-> sent.lod, score |-> sent.score]
  BY <1>1, <1>2 DEF KnownOf
<1>5. QED BY <1>1, <1>3, <1>4 DEF Known, Sent

LEMMA AnswersAre ==
  ASSUME NEW world, NEW viewer, IsViewer(viewer)
  PROVE  /\ AnswersOf(world, viewer) \in ClientState
         /\ AnswersOf(world, viewer).visible = viewer.visible
         /\ \A e \in Entity : AnswersOf(world, viewer).known[e] = KnownOf(world, viewer, e)
<1>1. ASSUME NEW e \in Entity PROVE KnownOf(world, viewer, e) \in Known
  <2>1. PICK sent \in Sent : sent = EntryOf(viewer, e)
    BY EntryType
  <2>2. FreshnessOf(world, e, sent) \in Freshness
    BY DEF FreshnessOf, Freshness
  <2>3. QED BY <2>1, <2>2 DEF KnownOf, Known, Sent
<1>2. viewer.visible \in SUBSET Entity
  BY DEF IsViewer
<1>3. QED BY <1>1, <1>2 DEF AnswersOf, ClientState

LEMMA SameClient ==
  ASSUME NEW s \in ClientState, NEW t \in ClientState, s.visible = t.visible,
         \A e \in Entity : s.known[e] = t.known[e]
  PROVE  s = t
<1>1. s.known = t.known
  BY DEF ClientState
<1>2. QED BY <1>1 DEF ClientState

-------------------------------------------------------------------------------
(* What each kind of step does to the answers *)

LEMMA NewViewerAnswers ==
  ASSUME NEW world
  PROVE  IsViewer(NewViewer) /\ EntriesFollow(world, NewViewer) /\ AnswersOf(world, NewViewer) = NewClient
<1>1. IsViewer(NewViewer) /\ DOMAIN NewViewer.entries = {}
  BY DEF NewViewer, IsViewer, EmptyMap
<1>2. \A e : EntryOf(NewViewer, e) = Unsent
  BY <1>1 DEF EntryOf
<1>3. \A e \in Entity : KnownOf(world, NewViewer, e) = Unknown
  BY <1>2, UnsentIsUnknown
<1>4. NewClient.visible = NewViewer.visible /\ \A e \in Entity : NewClient.known[e] = Unknown
  BY DEF NewClient, NewViewer
<1>5. AnswersOf(world, NewViewer) = NewClient
  BY <1>1, <1>3, <1>4, AnswersAre, NewClientType, SameClient
<1>6. QED BY <1>1, <1>5 DEF EntriesFollow

LEMMA OutdatedKnown ==
  ASSUME NEW state \in ClientState, NEW e \in Entity
  PROVE  LET after == Outdated(state, e).known
             k == state.known[e]
         IN  /\ \A d \in Entity \ {e} : after[d] = state.known[d]
             /\ after[e] = IF k.freshness = "current"
                             THEN [freshness |-> "stale", lod |-> k.lod, score |-> k.score]
                             ELSE k
<1>1. state.known \in [Entity -> Known]
  BY DEF ClientState
<1>2. PICK k \in Known : k = state.known[e]
  BY <1>1
<1>3. PICK f : f = IF k.freshness = "current" THEN "stale" ELSE k.freshness
  OBVIOUS
<1>4. Outdated(state, e).known = [state.known EXCEPT ![e] = [k EXCEPT !.freshness = f]]
  BY <1>1, <1>2, <1>3 DEF Outdated, ClientState
<1>5. [k EXCEPT !.freshness = f] = IF k.freshness = "current"
                                     THEN [freshness |-> "stale", lod |-> k.lod, score |-> k.score]
                                     ELSE k
  BY <1>3 DEF Known
<1>6. QED BY <1>1, <1>2, <1>4, <1>5

\* A new generation of e makes a client that was sent the last one stale.
LEMMA GenerationOutdates ==
  ASSUME NEW world, IsWorld(world), NEW viewer, Follows(world, viewer), NEW e \in DOMAIN world,
         NEW other, DOMAIN other = DOMAIN world, other[e].generation = world[e].generation + 1,
         \A d \in DOMAIN world \ {e} : other[d] = world[d]
  PROVE  Follows(other, viewer) /\ AnswersOf(other, viewer) = Outdated(AnswersOf(world, viewer), e)
<1>1. IsViewer(viewer) /\ e \in Entity /\ world[e].generation \in Nat /\ world[e].generation > 0
  BY CountedIs DEF Follows
<1>2. PICK sent \in Sent : sent = EntryOf(viewer, e)
  BY <1>1, EntryType
<1>3. sent.generation \in Nat /\ sent.generation <= world[e].generation
  BY <1>1, <1>2 DEF Follows, EntriesFollow, EntryOf, Unsent, Sent
<1>4. Follows(other, viewer)
  <2>1. ASSUME NEW d \in DOMAIN viewer.entries
        PROVE  d \in viewer.visible \cap DOMAIN other /\ viewer.entries[d].generation <= other[d].generation
    <3>1. d \in viewer.visible \cap DOMAIN world /\ viewer.entries[d].generation <= world[d].generation
      BY DEF Follows, EntriesFollow
    <3>2. CASE d = e
      <4>1. viewer.entries[e] = sent
        BY <1>2, <3>2 DEF EntryOf
      <4>2. sent.generation <= world[e].generation + 1
        BY ONLY <1>1, <1>3
      <4>3. QED BY <3>1, <3>2, <4>1, <4>2
    <3>3. QED BY <3>1, <3>2
  <2>2. QED BY <1>1, <2>1 DEF Follows, EntriesFollow
<1>5. PICK before \in ClientState, after \in ClientState :
        before = AnswersOf(world, viewer) /\ after = AnswersOf(other, viewer)
  BY <1>1, AnswersAre
<1>6. ASSUME NEW d \in Entity \ {e} PROVE after.known[d] = before.known[d]
  <2>1. KnownOf(other, viewer, d) = KnownOf(world, viewer, d)
    BY SameKnown
  <2>2. QED BY <1>1, <1>5, <2>1, AnswersAre
<1>7. before.known[e] = [freshness |-> FreshnessOf(world, e, sent), lod |-> sent.lod, score |-> sent.score]
  BY <1>1, <1>2, <1>5, AnswersAre DEF KnownOf
<1>8. after.known[e] = [freshness |-> FreshnessOf(other, e, sent), lod |-> sent.lod, score |-> sent.score]
  BY <1>1, <1>2, <1>5, AnswersAre DEF KnownOf
<1>9. FreshnessOf(other, e, sent) =
        IF FreshnessOf(world, e, sent) = "current" THEN "stale" ELSE FreshnessOf(world, e, sent)
  <2>1. ~ IsSent(other[e], sent)
    BY <1>1, <1>3 DEF IsSent
  <2>2. QED BY <2>1 DEF FreshnessOf
<1>10. PICK outdated \in ClientState :
         /\ outdated = Outdated(before, e) /\ outdated.visible = before.visible
         /\ \A d \in Entity \ {e} : outdated.known[d] = before.known[d]
         /\ outdated.known[e] = after.known[e]
  <2>1. Outdated(before, e).known[e] = after.known[e]
    <3>1. PICK f : f = FreshnessOf(world, e, sent)
      OBVIOUS
    <3>2. PICK k : k = [freshness |-> f, lod |-> sent.lod, score |-> sent.score]
      OBVIOUS
    <3>3. Outdated(before, e).known[e] =
            IF k.freshness = "current"
              THEN [freshness |-> "stale", lod |-> k.lod, score |-> k.score] ELSE k
      <4>1. before.known[e] = k
        BY <1>7, <3>1, <3>2
      <4>2. QED BY ONLY before \in ClientState, <1>1, <4>1, OutdatedKnown
    <3>4. k.freshness = f /\ k.lod = sent.lod /\ k.score = sent.score
      BY <3>2
    <3>5. after.known[e] = [freshness |-> IF f = "current" THEN "stale" ELSE f,
                            lod |-> sent.lod, score |-> sent.score]
      BY <1>8, <1>9, <3>1
    <3>6. QED BY ONLY <3>2, <3>3, <3>4, <3>5
  <2>2. QED BY <1>1, <2>1, OutdatedKnown, OutdatedType
<1>11. after.visible = before.visible
  BY <1>1, <1>5, AnswersAre
<1>12. outdated = after
  BY <1>1, <1>6, <1>10, <1>11, SameClient
<1>13. QED BY <1>4, <1>5, <1>10, <1>12

\* An entity that is new leaves every answer as it is.
LEMMA NewEntityUnknown ==
  ASSUME NEW world, NEW viewer, Follows(world, viewer), NEW e, e \notin DOMAIN world,
         NEW other, DOMAIN other = DOMAIN world \cup {e},
         \A d \in DOMAIN world : other[d] = world[d]
  PROVE  Follows(other, viewer) /\ AnswersOf(other, viewer) = AnswersOf(world, viewer)
<1>1. Follows(other, viewer)
  BY DEF Follows, EntriesFollow
<1>2. ASSUME NEW d \in Entity PROVE KnownOf(other, viewer, d) = KnownOf(world, viewer, d)
  <2>1. CASE d = e
    <3>1. EntryOf(viewer, e) = Unsent
      BY DEF Follows, EntriesFollow, EntryOf
    <3>2. QED BY <2>1, <3>1, UnsentIsUnknown
  <2>2. CASE d # e
    BY <2>2, SameKnown
  <2>3. QED BY <2>1, <2>2
<1>3. QED BY <1>1, <1>2 DEF AnswersOf

LEMMA DropIs ==
  ASSUME NEW map, NEW keys
  PROVE  /\ DOMAIN Drop(map, keys) = DOMAIN map \ keys
         /\ \A k \in DOMAIN map \ keys : Drop(map, keys)[k] = map[k]
         /\ Drop(map, keys) = [k \in DOMAIN map \ keys |-> map[k]]
<1>1. DOMAIN map \cap (DOMAIN map \ keys) = DOMAIN map \ keys
  OBVIOUS
<1>2. QED BY <1>1 DEF Drop, Restrict

LEMMA DropEntries ==
  ASSUME NEW viewer, IsViewer(viewer), NEW visible \in SUBSET Entity, NEW gone, NEW left,
         left = [visible |-> visible, entries |-> Drop(viewer.entries, gone)]
  PROVE  /\ IsViewer(left) /\ left.visible = visible
         /\ \A e : EntryOf(left, e) = IF e \in gone THEN Unsent ELSE EntryOf(viewer, e)
         /\ DOMAIN left.entries = DOMAIN viewer.entries \ gone
         /\ \A e \in DOMAIN left.entries : left.entries[e] = viewer.entries[e]
<1>1. PICK S \in SUBSET Entity : viewer.entries \in [S -> Sent]
  BY DEF IsViewer
<1>2. PICK kept : kept = Drop(viewer.entries, gone)
  OBVIOUS
<1>3. /\ DOMAIN kept = S \ gone /\ kept = [e \in S \ gone |-> viewer.entries[e]]
      /\ \A e \in S \ gone : kept[e] = viewer.entries[e]
  <2>1. /\ DOMAIN kept = DOMAIN viewer.entries \ gone
        /\ \A k \in DOMAIN viewer.entries \ gone : kept[k] = viewer.entries[k]
        /\ kept = [k \in DOMAIN viewer.entries \ gone |-> viewer.entries[k]]
    <3>1. PICK map : map = viewer.entries
      OBVIOUS
    <3>2. kept = Drop(map, gone)
      BY <1>2, <3>1
    <3>3. /\ DOMAIN kept = DOMAIN map \ gone /\ \A k \in DOMAIN map \ gone : kept[k] = map[k]
          /\ kept = [k \in DOMAIN map \ gone |-> map[k]]
      BY ONLY <3>2, DropIs
    <3>4. QED BY ONLY <3>1, <3>3
  <2>2. DOMAIN viewer.entries = S
    BY <1>1
  <2>3. QED BY ONLY <2>1, <2>2
<1>4. kept \in [S \ gone -> Sent]
  BY <1>1, <1>3
<1>5. left = [visible |-> visible, entries |-> kept] /\ left.entries = kept /\ left.visible = visible
  BY <1>2
<1>6. IsViewer(left)
  BY <1>4, <1>5 DEF IsViewer
<1>7. \A e : EntryOf(left, e) = IF e \in gone THEN Unsent ELSE EntryOf(viewer, e)
  BY <1>1, <1>3, <1>5 DEF EntryOf
<1>8. QED BY <1>1, <1>3, <1>5, <1>6, <1>7

\* With the entity its entries go, so that nothing is known of another of its id.
LEMMA RemovedIsForgotten ==
  ASSUME NEW world, IsWorld(world), NEW viewer, Follows(world, viewer), NEW e \in Entity
  PROVE  /\ Follows(Drop(world, {e}), WithoutEntity(viewer, e))
         /\ AnswersOf(Drop(world, {e}), WithoutEntity(viewer, e)) =
              Forgotten(AnswersOf(world, viewer), e)
<1>1. PICK other, left : other = Drop(world, {e}) /\ left = WithoutEntity(viewer, e)
  OBVIOUS
<1>2. DOMAIN other = DOMAIN world \ {e} /\ \A d \in DOMAIN world \ {e} : other[d] = world[d]
  BY <1>1, DropIs
<1>3. IsViewer(viewer) /\ viewer.visible \ {e} \in SUBSET Entity
  BY DEF Follows, IsViewer
<1>4. /\ IsViewer(left) /\ left.visible = viewer.visible \ {e}
      /\ \A d : EntryOf(left, d) = IF d \in {e} THEN Unsent ELSE EntryOf(viewer, d)
      /\ DOMAIN left.entries = DOMAIN viewer.entries \ {e}
      /\ \A d \in DOMAIN left.entries : left.entries[d] = viewer.entries[d]
  <2>1. PICK visible, gone : visible = viewer.visible \ {e} /\ gone = {e}
    OBVIOUS
  <2>2. left = [visible |-> visible, entries |-> Drop(viewer.entries, gone)]
    BY <1>1, <2>1 DEF WithoutEntity
  <2>3. visible \in SUBSET Entity
    BY <1>3, <2>1
  <2>4. /\ IsViewer(left) /\ left.visible = visible
        /\ \A d : EntryOf(left, d) = IF d \in gone THEN Unsent ELSE EntryOf(viewer, d)
        /\ DOMAIN left.entries = DOMAIN viewer.entries \ gone
        /\ \A d \in DOMAIN left.entries : left.entries[d] = viewer.entries[d]
    BY ONLY <1>3, <2>2, <2>3, DropEntries
  <2>5. QED BY ONLY <2>1, <2>4
<1>5. Follows(other, left)
  BY <1>2, <1>4 DEF Follows, EntriesFollow
<1>6. PICK before \in ClientState, after \in ClientState, forgotten \in ClientState :
        /\ before = AnswersOf(world, viewer) /\ after = AnswersOf(other, left)
        /\ forgotten = Forgotten(before, e)
  BY <1>3, <1>4, AnswersAre, ForgottenType
<1>7. /\ forgotten.visible = before.visible \ {e}
      /\ \A d \in Entity : forgotten.known[d] = IF d = e THEN Unknown ELSE before.known[d]
  BY <1>6, ForgottenType
<1>8. ASSUME NEW d \in Entity PROVE after.known[d] = forgotten.known[d]
  <2>1. after.known[d] = KnownOf(other, left, d) /\ before.known[d] = KnownOf(world, viewer, d)
    BY <1>3, <1>4, <1>6, AnswersAre
  <2>2. CASE d = e
    <3>1. KnownOf(other, left, d) = Unknown
      BY <1>4, <2>2, UnsentIsUnknown
    <3>2. QED BY <1>7, <2>1, <2>2, <3>1
  <2>3. CASE d # e
    <3>1. EntryOf(left, d) = EntryOf(viewer, d)
      BY <1>4, <2>3
    <3>2. KnownOf(other, left, d) = KnownOf(world, viewer, d)
      BY <1>2, <2>3, <3>1, SameKnown
    <3>3. QED BY <1>7, <2>1, <2>3, <3>2
  <2>4. QED BY <2>2, <2>3
<1>9. after.visible = forgotten.visible
  BY <1>3, <1>4, <1>6, <1>7, AnswersAre
<1>10. after = forgotten
  BY <1>6, <1>8, <1>9, SameClient
<1>11. QED BY <1>1, <1>5, <1>6, <1>10

\* What leaves the view is forgotten.
LEMMA UnseenIsForgotten ==
  ASSUME NEW world, NEW viewer, Follows(world, viewer), NEW next \in SUBSET Entity, NEW left,
         left = [visible |-> next, entries |-> Drop(viewer.entries, viewer.visible \ next)]
  PROVE  Follows(world, left) /\ AnswersOf(world, left) = WithVisible(AnswersOf(world, viewer), next)
<1>1. IsViewer(viewer)
  BY DEF Follows
<1>2. PICK gone : gone = viewer.visible \ next
  OBVIOUS
<1>3. /\ IsViewer(left) /\ left.visible = next
      /\ \A d : EntryOf(left, d) = IF d \in gone THEN Unsent ELSE EntryOf(viewer, d)
      /\ DOMAIN left.entries = DOMAIN viewer.entries \ gone
      /\ \A d \in DOMAIN left.entries : left.entries[d] = viewer.entries[d]
  <2>1. left = [visible |-> next, entries |-> Drop(viewer.entries, gone)]
    BY <1>2
  <2>2. QED BY ONLY next \in SUBSET Entity, <1>1, <2>1, DropEntries
<1>4. Follows(world, left)
  BY <1>2, <1>3 DEF Follows, EntriesFollow
<1>5. PICK before \in ClientState, after \in ClientState, seen \in ClientState :
        /\ before = AnswersOf(world, viewer) /\ after = AnswersOf(world, left)
        /\ seen = WithVisible(before, next)
  BY <1>1, <1>3, AnswersAre, WithVisibleType
<1>6. /\ seen.visible = next /\ before.visible \ next = gone
      /\ \A d \in Entity : seen.known[d] = IF d \in gone THEN Unknown ELSE before.known[d]
  <2>1. before.visible = viewer.visible
    BY <1>1, <1>5, AnswersAre
  <2>2. QED BY <1>2, <1>5, <2>1, WithVisibleType
<1>7. ASSUME NEW d \in Entity PROVE after.known[d] = seen.known[d]
  <2>1. after.known[d] = KnownOf(world, left, d) /\ before.known[d] = KnownOf(world, viewer, d)
    BY <1>1, <1>3, <1>5, AnswersAre
  <2>2. CASE d \in gone
    <3>1. KnownOf(world, left, d) = Unknown
      BY <1>3, <2>2, UnsentIsUnknown
    <3>2. QED BY <1>6, <2>1, <2>2, <3>1
  <2>3. CASE d \notin gone
    <3>1. EntryOf(left, d) = EntryOf(viewer, d)
      BY <1>3, <2>3
    <3>2. KnownOf(world, left, d) = KnownOf(world, viewer, d)
      BY <3>1, SameKnown
    <3>3. QED BY <1>6, <2>1, <2>3, <3>2
  <2>4. QED BY <2>2, <2>3
<1>8. after = seen
  <2>1. after.visible = seen.visible
    BY <1>3, <1>5, <1>6, AnswersAre
  <2>2. QED BY ONLY <1>5, <1>7, <2>1, SameClient
<1>9. QED BY <1>4, <1>5, <1>8

-------------------------------------------------------------------------------
(* Selection *)

\* The counters single out the same candidates, with the same scores.
LEMMA SameCandidates ==
  ASSUME IsWorld(entities), NEW viewer, Follows(entities, viewer), NEW desired
  PROVE  GraphCandidates(viewer, desired) =
           CandidateTable(graphEntities, viewer.visible, AnswersOf(entities, viewer).known, desired)
<1>1. PICK known, seen : /\ known = AnswersOf(entities, viewer).known
                         /\ seen = viewer.visible \cap DOMAIN entities
  OBVIOUS
<1>2. ASSUME NEW e \in seen
      PROVE  /\ e \in DOMAIN entities /\ graphEntities[e] = Uncounted(entities[e])
             /\ known[e].lod = EntryOf(viewer, e).lod
             /\ known[e].score = EntryOf(viewer, e).score
             /\ known[e].freshness = "current" <=> IsSent(entities[e], EntryOf(viewer, e))
  <2>1. IsViewer(viewer) /\ e \in DOMAIN entities /\ e \in Entity
    BY <1>1, CountedIs DEF Follows
  <2>2. known[e] = KnownOf(entities, viewer, e)
    BY <1>1, <2>1, AnswersAre
  <2>3. graphEntities[e] = Uncounted(entities[e])
    BY <2>1 DEF graphEntities
  <2>4. QED BY <2>1, <2>2, <2>3, KnownIs
<1>3. PICK D : D = {e \in seen : IsCandidate(known[e], desired[e])}
  OBVIOUS
<1>4. PICK sent : sent = [e \in seen |-> EntryOf(viewer, e)]
  OBVIOUS
<1>5. DOMAIN sent = seen /\ \A e \in seen : sent[e] = EntryOf(viewer, e)
  BY <1>4
<1>6. {e \in seen : ~ (IsSent(entities[e], sent[e]) /\ sent[e].lod = desired[e])} = D
  BY <1>2, <1>3, <1>5 DEF IsCandidate
<1>7. ASSUME NEW e \in D
      PROVE  [lod |-> desired[e], bytes |-> entities[e].bytes,
              score |-> sent[e].score + entities[e].priority,
              clean |-> IsSent(entities[e], sent[e]), lastLod |-> sent[e].lod] =
             Candidate(graphEntities[e], known[e], desired[e])
  <2>1. e \in seen
    BY <1>3
  <2>2. (known[e].freshness = "current") = IsSent(entities[e], sent[e])
    BY <1>2, <1>5, <2>1 DEF IsSent
  <2>3. /\ known[e].lod = sent[e].lod /\ known[e].score = sent[e].score
        /\ graphEntities[e].bytes = entities[e].bytes
        /\ graphEntities[e].priority = entities[e].priority
    <3>1. known[e].lod = sent[e].lod /\ known[e].score = sent[e].score
      BY <1>2, <1>5, <2>1
    <3>2. graphEntities[e] = Uncounted(entities[e])
      BY <1>2, <2>1
    <3>3. QED BY ONLY <3>1, <3>2 DEF Uncounted
  <2>4. QED BY <2>2, <2>3 DEF Candidate
<1>8. GraphCandidates(viewer, desired) =
        [e \in D |-> [lod |-> desired[e], bytes |-> entities[e].bytes,
                      score |-> sent[e].score + entities[e].priority,
                      clean |-> IsSent(entities[e], sent[e]), lastLod |-> sent[e].lod]]
  BY <1>1, <1>4, <1>5, <1>6 DEF GraphCandidates
<1>9. CandidateTable(graphEntities, viewer.visible, known, desired) =
        [e \in D |-> Candidate(graphEntities[e], known[e], desired[e])]
  <2>1. DOMAIN graphEntities = DOMAIN entities
    BY DEF graphEntities
  <2>2. QED BY <1>1, <1>3, <2>1 DEF CandidateTable
<1>10. QED BY <1>1, <1>7, <1>8, <1>9

\* A selection leaves the same known of everything, and no entry ahead.
LEMMA SameAfterSelection ==
  ASSUME IsWorld(entities), NEW viewer, Follows(entities, viewer), NEW cands, NEW chosen,
         DOMAIN cands \subseteq viewer.visible \cap DOMAIN entities,
         \A e \in DOMAIN cands : cands[e].score \in Nat,
         chosen \in [DOMAIN cands -> Choice],
         NEW after, after = [viewer EXCEPT !.entries = EntriesAfter(viewer, cands, chosen)]
  PROVE  /\ Follows(entities, after)
         /\ AnswersOf(entities, after) =
              [AnswersOf(entities, viewer) EXCEPT !.known = AfterSelection(@, cands, chosen)]
<1>1. PICK entries : entries = EntriesAfter(viewer, cands, chosen)
  OBVIOUS
<1>2. IsViewer(viewer) /\ EntriesFollow(entities, viewer)
  BY DEF Follows
<1>3. after = [visible |-> viewer.visible, entries |-> entries]
  BY <1>1, <1>2 DEF IsViewer
<1>4. PICK S \in SUBSET Entity : S = DOMAIN viewer.entries \cup (viewer.visible \cap DOMAIN entities)
  BY <1>2 DEF IsViewer
<1>5. /\ DOMAIN entries = S /\ DOMAIN cands \subseteq S
      /\ entries = [e \in S |-> entries[e]]
      /\ \A e \in S :
           entries[e] = IF e \notin DOMAIN cands THEN EntryOf(viewer, e)
                        ELSE IF chosen[e] = Deferred
                          THEN [EntryOf(viewer, e) EXCEPT !.score = cands[e].score]
                        ELSE [generation |-> entities[e].generation, lod |-> chosen[e], score |-> 0]
  BY <1>1, <1>4 DEF EntriesAfter
<1>6. ASSUME NEW e \in S
      PROVE  /\ entries[e] \in Sent /\ e \in viewer.visible \cap DOMAIN entities
             /\ entries[e].generation <= entities[e].generation
  <2>1. e \in viewer.visible \cap DOMAIN entities
    BY <1>2, <1>4 DEF EntriesFollow
  <2>2. entities[e].generation \in Nat
    BY <2>1, CountedIs
  <2>3. PICK sent \in Sent : /\ sent = EntryOf(viewer, e) /\ sent.generation <= entities[e].generation
                             /\ sent = [generation |-> sent.generation, lod |-> sent.lod,
                                        score |-> sent.score]
    <3>1. EntryOf(viewer, e).generation <= entities[e].generation
      BY <1>2, <2>2 DEF EntriesFollow, EntryOf, Unsent
    <3>2. QED BY <1>2, <3>1, EntryType
  <2>4. CASE e \notin DOMAIN cands
    BY <1>5, <2>1, <2>3, <2>4
  <2>5. CASE e \in DOMAIN cands /\ chosen[e] = Deferred
    <3>1. entries[e] = [sent EXCEPT !.score = cands[e].score]
      BY <1>5, <2>3, <2>5
    <3>2. cands[e].score \in Nat
      BY <2>5
    <3>3. QED BY <2>1, <2>3, <3>1, <3>2 DEF Sent
  <2>6. CASE e \in DOMAIN cands /\ chosen[e] # Deferred
    <3>1. entries[e] = [generation |-> entities[e].generation, lod |-> chosen[e], score |-> 0]
      BY <1>5, <2>6
    <3>2. chosen[e] \in Lod
      BY <2>6 DEF Choice
    <3>3. QED BY <2>1, <2>2, <3>1, <3>2 DEF Sent
  <2>7. QED BY <2>4, <2>5, <2>6
<1>7. Follows(entities, after)
  <2>1. entries \in [S -> Sent]
    BY <1>5, <1>6
  <2>2. IsViewer(after)
    BY <1>2, <1>3, <2>1 DEF IsViewer
  <2>3. EntriesFollow(entities, after)
    BY <1>3, <1>5, <1>6 DEF EntriesFollow
  <2>4. QED BY <2>2, <2>3 DEF Follows
<1>8. PICK before \in ClientState, now \in ClientState :
        /\ before = AnswersOf(entities, viewer) /\ now = AnswersOf(entities, after)
        /\ before.visible = now.visible
  <2>1. IsViewer(after) /\ after.visible = viewer.visible
    BY <1>3, <1>7 DEF Follows
  <2>2. PICK before \in ClientState : /\ before = AnswersOf(entities, viewer)
                                     /\ before.visible = viewer.visible
    BY ONLY <1>2, AnswersAre
  <2>3. PICK now \in ClientState : now = AnswersOf(entities, after) /\ now.visible = after.visible
    BY ONLY <2>1, AnswersAre
  <2>4. QED BY ONLY <2>1, <2>2, <2>3
<1>9. PICK known \in [Entity -> Known] :
        /\ known = AfterSelection(before.known, cands, chosen)
        /\ \A e \in Entity : known[e] =
             IF e \notin DOMAIN cands THEN before.known[e]
             ELSE IF chosen[e] = Deferred THEN [before.known[e] EXCEPT !.score = cands[e].score]
             ELSE [freshness |-> "current", lod |-> chosen[e], score |-> 0]
  <2>1. before.known \in [Entity -> Known]
    BY DEF ClientState
  <2>2. AfterSelection(before.known, cands, chosen) \in [Entity -> Known]
    BY <2>1, AfterSelectionType
  <2>3. QED BY <2>2 DEF AfterSelection
<1>10. ASSUME NEW e \in Entity PROVE now.known[e] = known[e]
  <2>1. before.known[e] = KnownOf(entities, viewer, e) /\ now.known[e] = KnownOf(entities, after, e)
    BY <1>2, <1>7, <1>8, AnswersAre DEF Follows
  <2>2. EntryOf(after, e) = IF e \in S THEN entries[e] ELSE EntryOf(viewer, e)
    BY <1>3, <1>4, <1>5 DEF EntryOf
  <2>3. CASE e \notin DOMAIN cands
    <3>1. EntryOf(after, e) = EntryOf(viewer, e)
      BY <1>5, <2>2, <2>3
    <3>2. KnownOf(entities, after, e) = KnownOf(entities, viewer, e)
      BY <3>1, SameKnown
    <3>3. QED BY <1>9, <2>1, <2>3, <3>2
  <2>4. CASE e \in DOMAIN cands /\ chosen[e] = Deferred
    <3>1. PICK sent \in Sent : sent = EntryOf(viewer, e)
      BY <1>2, EntryType
    <3>2. PICK f : f = FreshnessOf(entities, e, sent)
      OBVIOUS
    <3>3. PICK n : n = cands[e].score
      OBVIOUS
    <3>4. EntryOf(after, e) = [generation |-> sent.generation, lod |-> sent.lod, score |-> n]
      BY <1>5, <2>2, <2>4, <3>1, <3>3 DEF Sent
    <3>5. FreshnessOf(entities, e, EntryOf(after, e)) = f
      BY <3>2, <3>4 DEF FreshnessOf, IsSent
    <3>6. KnownOf(entities, after, e) = [freshness |-> f, lod |-> sent.lod, score |-> n]
      BY <3>4, <3>5 DEF KnownOf
    <3>7. before.known[e] = [freshness |-> f, lod |-> sent.lod, score |-> sent.score]
      BY <2>1, <3>1, <3>2 DEF KnownOf
    <3>8. known[e] = [before.known[e] EXCEPT !.score = n]
      BY <1>9, <2>4, <3>3
    <3>9. QED BY <2>1, <3>6, <3>7, <3>8
  <2>5. CASE e \in DOMAIN cands /\ chosen[e] # Deferred
    <3>1. PICK sent : sent = [generation |-> entities[e].generation, lod |-> chosen[e], score |-> 0]
      OBVIOUS
    <3>2. EntryOf(after, e) = sent
      BY <1>5, <2>2, <2>5, <3>1
    <3>3. e \in DOMAIN entities /\ entities[e].generation \in Nat /\ entities[e].generation > 0
      BY <2>5, CountedIs
    <3>4. FreshnessOf(entities, e, sent) = "current"
      BY <3>1, <3>3 DEF FreshnessOf, IsSent
    <3>5. KnownOf(entities, after, e) = [freshness |-> "current", lod |-> chosen[e], score |-> 0]
      BY <3>1, <3>2, <3>4 DEF KnownOf
    <3>6. QED BY <1>9, <2>1, <2>5, <3>5
  <2>6. QED BY <2>3, <2>4, <2>5
<1>11. PICK result \in ClientState : /\ result = [before EXCEPT !.known = known]
                                     /\ result.visible = before.visible /\ result.known = known
  <2>1. PICK result : result = [visible |-> before.visible, known |-> known]
    OBVIOUS
  <2>2. result \in ClientState /\ result.visible = before.visible /\ result.known = known
    BY <2>1 DEF ClientState
  <2>3. result = [before EXCEPT !.known = known]
    BY <2>1 DEF ClientState
  <2>4. QED BY <2>2, <2>3
<1>12. now = result
  <2>1. result.visible = now.visible /\ \A e \in Entity : result.known[e] = now.known[e]
    BY <1>8, <1>10, <1>11
  <2>2. QED BY ONLY result \in ClientState, now \in ClientState, <2>1, SameClient
<1>13. QED BY <1>7, <1>8, <1>9, <1>11, <1>12
-------------------------------------------------------------------------------
(* Replication's operators, as its instance has them, are this module's. *)

LEMMA SameTiers ==
  /\ Graph!Lod = Lod /\ Graph!NoLod = NoLod /\ Graph!Deferred = Deferred /\ Graph!Choice = Choice
  /\ Graph!Freshness = Freshness /\ Graph!Unknown = Unknown /\ Graph!NewClient = NewClient
  /\ \A l : Graph!DetailRank(l) = DetailRank(l) /\ Graph!LodFallbacks(l) = LodFallbacks(l)
<1>1. Graph!Lod = Lod /\ Graph!NoLod = NoLod
  BY DEF Graph!Lod, Lod, Graph!NoLod, NoLod
<1>2. Graph!Deferred = Deferred /\ Graph!Choice = Choice
  BY <1>1 DEF Graph!Deferred, Deferred, Graph!Choice, Choice
<1>3. Graph!Freshness = Freshness /\ Graph!Unknown = Unknown /\ Graph!NewClient = NewClient
  BY <1>1 DEF Graph!Freshness, Freshness, Graph!Unknown, Unknown, Graph!NewClient, NewClient
<1>4. ASSUME NEW l PROVE Graph!DetailRank(l) = DetailRank(l)
  BY DEF Graph!DetailRank, DetailRank
<1>5. ASSUME NEW l PROVE Graph!LodFallbacks(l) = LodFallbacks(l)
  BY <1>1, <1>4 DEF Graph!LodFallbacks, LodFallbacks
<1>6. QED BY <1>1, <1>2, <1>3, <1>4, <1>5

LEMMA SameSteps ==
  ASSUME NEW state, NEW e, NEW next
  PROVE  /\ Graph!Outdated(state, e) = Outdated(state, e)
         /\ Graph!Forgotten(state, e) = Forgotten(state, e)
         /\ Graph!WithVisible(state, next) = WithVisible(state, next)
<1>1. Graph!Outdated(state, e) = Outdated(state, e)
  BY DEF Graph!Outdated, Outdated
<1>2. Graph!Forgotten(state, e) = Forgotten(state, e)
  BY SameTiers DEF Graph!Forgotten, Forgotten
<1>3. Graph!WithVisible(state, next) = WithVisible(state, next)
  BY SameTiers DEF Graph!WithVisible, WithVisible
<1>4. QED BY <1>1, <1>2, <1>3

LEMMA SameTables ==
  ASSUME NEW table, NEW visible, NEW known, NEW desired
  PROVE  Graph!CandidateTable(table, visible, known, desired) =
           CandidateTable(table, visible, known, desired)
<1>1. \A k, l : Graph!IsCandidate(k, l) = IsCandidate(k, l)
  BY DEF Graph!IsCandidate, IsCandidate
<1>2. \A entity, k, l : Graph!Candidate(entity, k, l) = Candidate(entity, k, l)
  BY DEF Graph!Candidate, Candidate
<1>3. QED BY <1>1, <1>2 DEF Graph!CandidateTable, CandidateTable

LEMMA SameResults ==
  ASSUME NEW known, NEW cands, NEW chosen
  PROVE  Graph!AfterSelection(known, cands, chosen) = AfterSelection(known, cands, chosen)
BY SameTiers DEF Graph!AfterSelection, AfterSelection

LEMMA SameSums ==
  ASSUME NEW f
  PROVE  Graph!SumFunction(f) = SumFunction(f)
BY DEF Graph!SumFunction, SumFunction, Graph!SumFunctionOnSet, SumFunctionOnSet,
       Graph!FoldFunctionOnSet, FoldFunctionOnSet, Graph!MapThenFoldSet, MapThenFoldSet

LEMMA SameTurns ==
  ASSUME NEW cands, NEW e
  PROVE  Graph!Turn(cands, e) = Turn(cands, e)
<1>1. Graph!MinSelectableBytes(cands) = MinSelectableBytes(cands)
  BY DEF Graph!MinSelectableBytes, MinSelectableBytes, Graph!Min, Min
<1>2. ASSUME NEW cand, NEW left PROVE Graph!FittingLods(cand, left) = FittingLods(cand, left)
  BY SameTiers DEF Graph!FittingLods, FittingLods
<1>3. ASSUME NEW cand PROVE Graph!WaitingForUpgrade(cand) = WaitingForUpgrade(cand)
  BY SameTiers DEF Graph!WaitingForUpgrade, WaitingForUpgrade
<1>4. ASSUME NEW cand, NEW left
      PROVE  Graph!SelectLodForBudget(cand, left) = SelectLodForBudget(cand, left)
  BY DEF Graph!SelectLodForBudget, SelectLodForBudget, Graph!FittingLods, FittingLods,
         Graph!WaitingForUpgrade, WaitingForUpgrade, Graph!LodFallbacks, LodFallbacks, Graph!Lod, Lod,
         Graph!DetailRank, DetailRank, Graph!Deferred, Deferred
<1>5. QED BY <1>1, <1>4, SameTiers DEF Graph!Turn, Turn

LEMMA SameSelections ==
  ASSUME NEW cands, NEW budget
  PROVE  Graph!SelectUpdates(cands, budget) = SelectUpdates(cands, budget)
BY DEF Graph!SelectUpdates, SelectUpdates, Graph!PoppedBefore, PoppedBefore,
       Graph!ChoiceBytes, ChoiceBytes, Graph!SumFunction, SumFunction,
       Graph!SumFunctionOnSet, SumFunctionOnSet, Graph!FoldFunctionOnSet, FoldFunctionOnSet,
       Graph!MapThenFoldSet, MapThenFoldSet, Graph!Turn, Turn,
       Graph!MinSelectableBytes, MinSelectableBytes, Graph!Min, Min,
       Graph!SelectLodForBudget, SelectLodForBudget, Graph!FittingLods, FittingLods,
       Graph!WaitingForUpgrade, WaitingForUpgrade, Graph!LodFallbacks, LodFallbacks, Graph!Lod, Lod,
       Graph!DetailRank, DetailRank, Graph!Deferred, Deferred

-------------------------------------------------------------------------------
(* The invariant *)

AreClients(map) == \E C \in SUBSET Client : map = [c \in C |-> map[c]]

IInv ==
  /\ IsWorld(entities) /\ AreClients(clients)
  /\ \A c \in DOMAIN clients : Follows(entities, clients[c])

LEMMA IInvImplies == IInv => TypeOK /\ EntriesFollowGraph
BY DEF IInv, IsWorld, AreClients, Follows, EntriesFollow, TypeOK, EntriesFollowGraph

LEMMA InitIInv == Init => IInv
<1> SUFFICES ASSUME Init PROVE IInv
  OBVIOUS
<1>1. DOMAIN entities = {} /\ entities \in [{} -> Counted] /\ DOMAIN clients = {}
  BY DEF Init, EmptyMap
<1>2. AreClients(clients)
  <2>1. clients = [c \in {} |-> clients[c]]
    BY DEF Init, EmptyMap
  <2>2. QED BY <2>1 DEF AreClients
<1>3. QED BY <1>1, <1>2 DEF IInv, IsWorld

LEMMA ClientsAre ==
  ASSUME IInv
  PROVE  /\ DOMAIN clients \subseteq Client /\ clients = [c \in DOMAIN clients |-> clients[c]]
         /\ DOMAIN graphClients = DOMAIN clients
         /\ \A c \in DOMAIN clients : graphClients[c] = AnswersOf(entities, clients[c])
BY DEF IInv, AreClients, graphClients

LEMMA PutIs ==
  ASSUME NEW map, NEW key, NEW value
  PROVE  /\ DOMAIN Put(map, key, value) = DOMAIN map \cup {key}
         /\ \A k \in DOMAIN map \cup {key} :
              Put(map, key, value)[k] = IF k = key THEN value ELSE map[k]
         /\ Put(map, key, value) =
              [k \in DOMAIN map \cup {key} |-> IF k = key THEN value ELSE map[k]]
BY DEF Put

\* An entity given to the graph
LEMMA WorldGrows ==
  ASSUME IInv, NEW e \in Entity, NEW entity \in Counted, entity.generation > 0,
         entities' = Put(entities, e, entity)
  PROVE  /\ IsWorld(entities') /\ entities'[e] = entity
         /\ DOMAIN entities' = DOMAIN entities \cup {e}
         /\ \A d \in DOMAIN entities \ {e} : entities'[d] = entities[d]
         /\ graphEntities' = [d \in DOMAIN graphEntities \cup {e} |->
                                IF d = e THEN Uncounted(entity) ELSE graphEntities[d]]
<1>1. PICK world : world = entities'
  OBVIOUS
<1>2. /\ DOMAIN world = DOMAIN entities \cup {e} /\ world[e] = entity
      /\ \A d \in DOMAIN entities \ {e} : world[d] = entities[d]
      /\ world = [d \in DOMAIN world |-> world[d]]
  <2>1. /\ DOMAIN world = DOMAIN entities \cup {e}
        /\ \A d \in DOMAIN entities \cup {e} : world[d] = IF d = e THEN entity ELSE entities[d]
    BY <1>1 DEF Put
  <2>2. world = [d \in DOMAIN entities \cup {e} |-> IF d = e THEN entity ELSE entities[d]]
    BY <1>1 DEF Put
  <2>3. QED BY ONLY <2>1, <2>2
<1>3. PICK S \in SUBSET Entity : entities \in [S -> Counted]
  BY DEF IInv, IsWorld
<1>4. world \in [S \cup {e} -> Counted] /\ \A d \in DOMAIN world : world[d].generation > 0
  BY <1>2, <1>3 DEF IInv, IsWorld
<1>5. IsWorld(world)
  BY <1>4 DEF IsWorld
<1>6. graphEntities' = [d \in DOMAIN world |-> Uncounted(world[d])]
  BY <1>1 DEF graphEntities
<1>7. DOMAIN graphEntities = DOMAIN entities
      /\ \A d \in DOMAIN entities : graphEntities[d] = Uncounted(entities[d])
  BY DEF graphEntities
<1>8. \A d \in DOMAIN world : Uncounted(world[d]) =
        IF d = e THEN Uncounted(entity) ELSE graphEntities[d]
  BY <1>2, <1>7
<1>9. QED BY <1>1, <1>2, <1>5, <1>6, <1>7, <1>8

\* An entity of the graph that is given with the next generation
LEMMA ChangeRefines ==
  ASSUME IInv, NEW e \in DOMAIN entities, NEW entity \in Counted,
         entity.generation = entities[e].generation + 1,
         entities' = Put(entities, e, entity), UNCHANGED clients
  PROVE  IInv' /\ Graph!OutdateEntity(e)
<1>1. e \in Entity /\ entity.generation > 0
  BY CountedIs DEF IInv
<1>2. PICK world : world = entities'
  OBVIOUS
<1>3. /\ IsWorld(world) /\ DOMAIN world = DOMAIN entities /\ world[e] = entity
      /\ \A d \in DOMAIN entities \ {e} : world[d] = entities[d]
  BY <1>1, <1>2, WorldGrows
<1>4. ASSUME NEW c \in DOMAIN clients
      PROVE  /\ Follows(world, clients[c])
             /\ AnswersOf(world, clients[c]) = Outdated(graphClients[c], e)
  <2>1. IsWorld(entities) /\ Follows(entities, clients[c]) /\ world[e].generation = entities[e].generation + 1
    BY <1>3 DEF IInv
  <2>2. PICK viewer : viewer = clients[c]
    OBVIOUS
  <2>3. Follows(world, viewer) /\ AnswersOf(world, viewer) = Outdated(AnswersOf(entities, viewer), e)
    BY ONLY e \in DOMAIN entities, <1>3, <2>1, <2>2, GenerationOutdates
  <2>4. QED BY <2>2, <2>3, ClientsAre
<1>5. IInv'
  BY <1>2, <1>3, <1>4 DEF IInv
<1>6. graphClients' = [c \in DOMAIN clients |-> AnswersOf(world, clients[c])]
  BY <1>2 DEF graphClients
<1>7. graphClients' = [c \in DOMAIN graphClients |-> Graph!Outdated(graphClients[c], e)]
  BY <1>4, <1>6, ClientsAre, SameSteps
<1>8. QED BY <1>5, <1>7 DEF Graph!OutdateEntity

LEMMA UpsertRefines ==
  ASSUME IInv, NEW e \in Entity, NEW bytes \in ByteChoices, NEW p \in Priorities, NEW lod \in Lod,
         UpsertEntity(e, bytes, p, lod)
  PROVE  IInv' /\ Graph!UpsertEntity(e, bytes, p, lod)
<1>1. PICK g, entity :
        /\ g \in Nat
        /\ entity = [bytes |-> bytes, priority |-> p, lod |-> lod, generation |-> g] /\ g > 0
        /\ entities' = Put(entities, e, entity) /\ UNCHANGED clients
        /\ e \in DOMAIN entities => g = entities[e].generation + 1
  <2>1. CASE e \notin DOMAIN entities
    BY <2>1 DEF UpsertEntity, MayChange
  <2>2. CASE e \in DOMAIN entities
    <3>1. entities[e].generation + 1 \in Nat /\ entities[e].generation + 1 > 0
      BY <2>2, CountedIs DEF IInv
    <3>2. QED BY <2>2, <3>1 DEF UpsertEntity, NextGeneration
  <2>3. QED BY <2>1, <2>2
<1>2. entity \in Counted /\ entity.generation = g
  BY <1>1, ReplicationGraphAssumption DEF Counted
<1>3. Uncounted(entity) = [bytes |-> bytes, priority |-> p, lod |-> lod]
  BY <1>1 DEF Uncounted
<1>4. DOMAIN graphEntities = DOMAIN entities
  BY DEF graphEntities
<1>5. graphEntities' = [d \in DOMAIN graphEntities \cup {e} |->
                          IF d = e THEN Uncounted(entity) ELSE graphEntities[d]]
  BY <1>1, <1>2, WorldGrows
<1>6. IInv' /\ IF e \in DOMAIN graphEntities THEN Graph!OutdateEntity(e) ELSE UNCHANGED graphClients
  <2>1. CASE e \in DOMAIN entities
    BY <1>1, <1>2, <1>4, <2>1, ChangeRefines
  <2>2. CASE e \notin DOMAIN entities
    <3>1. PICK world : /\ world = entities' /\ IsWorld(world)
                       /\ DOMAIN world = DOMAIN entities \cup {e}
                       /\ \A d \in DOMAIN entities : world[d] = entities[d]
      BY <1>1, <1>2, <2>2, WorldGrows
    <3>2. ASSUME NEW c \in DOMAIN clients
          PROVE  Follows(world, clients[c]) /\ AnswersOf(world, clients[c]) = graphClients[c]
      <4>1. PICK viewer : viewer = clients[c]
        OBVIOUS
      <4>2. Follows(entities, viewer)
        BY <4>1 DEF IInv
      <4>3. Follows(world, viewer) /\ AnswersOf(world, viewer) = AnswersOf(entities, viewer)
        BY ONLY <2>2, <3>1, <4>2, NewEntityUnknown
      <4>4. QED BY <4>1, <4>3, ClientsAre
    <3>3. IInv'
      BY <1>1, <3>1, <3>2 DEF IInv
    <3>4. graphClients' = [c \in DOMAIN clients |-> AnswersOf(world, clients[c])]
      BY <1>1, <3>1 DEF graphClients
    <3>5. graphClients = [c \in DOMAIN clients |-> graphClients[c]]
      BY DEF graphClients
    <3>6. UNCHANGED graphClients
      BY <3>2, <3>4, <3>5
    <3>7. QED BY <1>4, <2>2, <3>3, <3>6
  <2>3. QED BY <2>1, <2>2
<1>7. QED BY <1>3, <1>5, <1>6 DEF Graph!UpsertEntity

\* A tier or a mark gives the entity the next generation, and nothing else changes.
LEMMA NextGenerationRefines ==
  ASSUME IInv, NEW e \in DOMAIN entities, NEW lod \in Lod,
         entities' = Put(entities, e, NextGeneration([entities[e] EXCEPT !.lod = lod])),
         UNCHANGED clients
  PROVE  IInv' /\ Graph!OutdateEntity(e) /\ graphEntities' = [graphEntities EXCEPT ![e].lod = lod]
<1>1. PICK old \in Counted : old = entities[e]
  BY DEF IInv, IsWorld
<1>2. PICK new \in Counted :
        /\ new = NextGeneration([old EXCEPT !.lod = lod]) /\ new.generation = old.generation + 1
        /\ Uncounted(new) = [Uncounted(old) EXCEPT !.lod = lod]
  <2>1. PICK new : new = [bytes |-> old.bytes, priority |-> old.priority, lod |-> lod,
                          generation |-> old.generation + 1]
    OBVIOUS
  <2>2. new \in Counted
    BY <2>1 DEF Counted
  <2>3. NextGeneration([old EXCEPT !.lod = lod]) = new
    <3>1. old = [bytes |-> old.bytes, priority |-> old.priority, lod |-> old.lod,
                 generation |-> old.generation]
      BY DEF Counted
    <3>2. PICK mid : mid = [bytes |-> old.bytes, priority |-> old.priority, lod |-> lod,
                            generation |-> old.generation]
      OBVIOUS
    <3>3. [old EXCEPT !.lod = lod] = mid
      BY <3>1, <3>2
    <3>4. NextGeneration(mid) = new
      BY <2>1, <3>2 DEF NextGeneration
    <3>5. QED BY <3>3, <3>4
  <2>4. Uncounted(new) = [Uncounted(old) EXCEPT !.lod = lod]
    BY <2>1 DEF Uncounted
  <2>5. QED BY <2>1, <2>2, <2>3, <2>4
<1>3. /\ entities' = Put(entities, e, new) /\ new.generation = entities[e].generation + 1
      /\ e \in Entity /\ new.generation > 0
  BY <1>1, <1>2, CountedIs DEF IInv
<1>4. IInv' /\ Graph!OutdateEntity(e)
  BY <1>3, ChangeRefines
<1>5. graphEntities' = [d \in DOMAIN graphEntities \cup {e} |->
                          IF d = e THEN Uncounted(new) ELSE graphEntities[d]]
  BY <1>3, WorldGrows
<1>6. /\ e \in DOMAIN graphEntities /\ graphEntities[e] = Uncounted(old)
      /\ graphEntities = [d \in DOMAIN graphEntities |-> graphEntities[d]]
  BY <1>1 DEF graphEntities
<1>7. graphEntities' = [graphEntities EXCEPT ![e] = [Uncounted(old) EXCEPT !.lod = lod]]
  BY <1>2, <1>5, <1>6
<1>8. QED BY <1>4, <1>6, <1>7

LEMMA SetEntityLodRefines ==
  ASSUME IInv, NEW e \in Entity, NEW lod \in Lod, SetEntityLod(e, lod)
  PROVE  IInv' /\ Graph!SetEntityLod(e, lod)
<1>1. e \in DOMAIN entities /\ entities[e].lod # lod
  BY DEF SetEntityLod, MayChange
<1>2. IInv' /\ Graph!OutdateEntity(e) /\ graphEntities' = [graphEntities EXCEPT ![e].lod = lod]
  BY <1>1, NextGenerationRefines DEF SetEntityLod
<1>3. e \in DOMAIN graphEntities /\ graphEntities[e].lod # lod
  BY <1>1 DEF graphEntities, Uncounted
<1>4. QED BY <1>2, <1>3 DEF Graph!SetEntityLod

LEMMA MarkDirtyRefines ==
  ASSUME IInv, NEW e \in Entity, MarkDirty(e)
  PROVE  IInv' /\ Graph!MarkDirty(e)
<1>1. e \in DOMAIN entities
  BY DEF MarkDirty, MayChange
<1>2. PICK lod \in Lod : lod = entities[e].lod /\ [entities[e] EXCEPT !.lod = lod] = entities[e]
  BY <1>1 DEF IInv, IsWorld, Counted
<1>3. IInv' /\ Graph!OutdateEntity(e) /\ graphEntities' = [graphEntities EXCEPT ![e].lod = lod]
  BY <1>1, <1>2, NextGenerationRefines DEF MarkDirty
<1>4. /\ graphEntities[e] = Uncounted(entities[e]) /\ e \in DOMAIN graphEntities
      /\ graphEntities = [d \in DOMAIN graphEntities |-> graphEntities[d]]
  BY <1>1 DEF graphEntities
<1>5. [graphEntities[e] EXCEPT !.lod = lod] = graphEntities[e]
  BY <1>2, <1>4 DEF Uncounted
<1>6. UNCHANGED graphEntities
  BY <1>3, <1>4, <1>5
<1>7. QED BY <1>3, <1>4, <1>6 DEF Graph!MarkDirty

LEMMA RestrictIs ==
  ASSUME NEW map, NEW S
  PROVE  Graph!Restrict(map, DOMAIN map \ S) = Drop(map, S)
<1>1. DOMAIN map \cap (DOMAIN map \ S) = DOMAIN map \ S
  OBVIOUS
<1>2. QED BY <1>1 DEF Graph!Restrict, Drop, Restrict

LEMMA RemoveEntityRefines ==
  ASSUME IInv, NEW e \in Entity, RemoveEntity(e)
  PROVE  IInv' /\ Graph!RemoveEntity(e)
<1>1. PICK world : world = entities' /\ world = Drop(entities, {e})
  BY DEF RemoveEntity
<1>2. /\ DOMAIN world = DOMAIN entities \ {e}
      /\ \A d \in DOMAIN entities \ {e} : world[d] = entities[d]
      /\ world = [d \in DOMAIN entities \ {e} |-> entities[d]]
  BY <1>1 DEF Drop, Restrict
<1>3. IsWorld(world)
  <2>1. PICK S \in SUBSET Entity : entities \in [S -> Counted]
    BY DEF IInv, IsWorld
  <2>2. world \in [S \ {e} -> Counted]
    BY <1>2, <2>1
  <2>3. QED BY <1>2, <2>2 DEF IInv, IsWorld
<1>4. clients' = [c \in DOMAIN clients |-> WithoutEntity(clients[c], e)]
  BY DEF RemoveEntity
<1>5. ASSUME NEW c \in DOMAIN clients
      PROVE  /\ Follows(world, clients'[c])
             /\ AnswersOf(world, clients'[c]) = Forgotten(graphClients[c], e)
  <2>1. PICK viewer : viewer = clients[c] /\ Follows(entities, viewer)
    BY DEF IInv
  <2>2. IsWorld(entities) /\ clients'[c] = WithoutEntity(viewer, e)
    BY <1>4, <2>1 DEF IInv
  <2>3. /\ Follows(world, WithoutEntity(viewer, e))
        /\ AnswersOf(world, WithoutEntity(viewer, e)) = Forgotten(AnswersOf(entities, viewer), e)
    BY ONLY e \in Entity, <1>1, <2>1, <2>2, RemovedIsForgotten
  <2>4. graphClients[c] = AnswersOf(entities, viewer)
    BY <2>1, ClientsAre
  <2>5. QED BY <2>2, <2>3, <2>4
<1>6. IInv'
  <2>1. DOMAIN clients' = DOMAIN clients /\ clients' = [c \in DOMAIN clients |-> clients'[c]]
    BY <1>4
  <2>2. AreClients(clients')
    BY <2>1, ClientsAre DEF AreClients
  <2>3. QED BY <1>1, <1>3, <1>5, <2>1, <2>2 DEF IInv
<1>7. graphClients' = [c \in DOMAIN graphClients |-> Graph!Forgotten(graphClients[c], e)]
  <2>1. graphClients' = [c \in DOMAIN clients |-> AnswersOf(world, clients'[c])]
    BY <1>1, <1>4 DEF graphClients
  <2>2. QED BY <1>5, <2>1, ClientsAre, SameSteps
<1>8. graphEntities' = Graph!Restrict(graphEntities, DOMAIN graphEntities \ {e})
  <2>1. graphEntities' = [d \in DOMAIN entities \ {e} |-> Uncounted(entities[d])]
    BY <1>1, <1>2 DEF graphEntities
  <2>2. PICK graph : /\ graph = graphEntities /\ DOMAIN graph = DOMAIN entities
                     /\ \A d \in DOMAIN entities : graph[d] = Uncounted(entities[d])
    <3>1. /\ DOMAIN graphEntities = DOMAIN entities
          /\ \A d \in DOMAIN entities : graphEntities[d] = Uncounted(entities[d])
      BY DEF graphEntities
    <3>2. PICK graph : graph = graphEntities
      OBVIOUS
    <3>3. QED BY ONLY <3>1, <3>2
  <2>3. Graph!Restrict(graph, DOMAIN graph \ {e}) = [d \in DOMAIN graph \ {e} |-> graph[d]]
    BY DEF Graph!Restrict
  <2>4. QED BY <2>1, <2>2, <2>3
<1>9. QED BY <1>6, <1>7, <1>8 DEF Graph!RemoveEntity

-------------------------------------------------------------------------------
(* Client steps *)

\* One client is given another state, the world stays.
LEMMA PutClientRefines ==
  ASSUME IInv, NEW c \in Client, NEW viewer, Follows(entities, viewer), NEW state,
         state = AnswersOf(entities, viewer),
         clients' = [d \in DOMAIN clients \cup {c} |-> IF d = c THEN viewer ELSE clients[d]],
         UNCHANGED entities
  PROVE  IInv' /\ Graph!SetClient(c, state) /\ UNCHANGED graphEntities
<1>1. /\ DOMAIN clients' = DOMAIN clients \cup {c}
      /\ \A d \in DOMAIN clients' : clients'[d] = IF d = c THEN viewer ELSE clients[d]
      /\ clients' = [d \in DOMAIN clients' |-> clients'[d]]
  OBVIOUS
<1>2. IInv'
  <2>1. AreClients(clients')
    BY <1>1, ClientsAre DEF AreClients
  <2>2. \A d \in DOMAIN clients' : Follows(entities, clients'[d])
    BY <1>1 DEF IInv
  <2>3. QED BY <2>1, <2>2 DEF IInv
<1>3. graphClients' = [d \in DOMAIN clients \cup {c} |-> AnswersOf(entities, clients'[d])]
  BY <1>1 DEF graphClients
<1>4. ASSUME NEW d \in DOMAIN clients \cup {c}
      PROVE  AnswersOf(entities, clients'[d]) = IF d = c THEN state ELSE graphClients[d]
  BY <1>1, ClientsAre
<1>5. Graph!SetClient(c, state)
  BY <1>3, <1>4, ClientsAre DEF Graph!SetClient
<1>6. UNCHANGED graphEntities
  BY DEF graphEntities
<1>7. QED BY <1>2, <1>5, <1>6

LEMMA ViewerOrNew ==
  ASSUME IInv, NEW c
  PROVE  /\ Follows(entities, ViewerOf(c))
         /\ Graph!ClientOrNew(c) = AnswersOf(entities, ViewerOf(c))
<1>1. CASE c \in DOMAIN clients
  <2>1. ViewerOf(c) = clients[c] /\ Graph!ClientOrNew(c) = graphClients[c]
    BY <1>1, ClientsAre DEF ViewerOf, Graph!ClientOrNew
  <2>2. QED BY <1>1, <2>1, ClientsAre DEF IInv
<1>2. CASE c \notin DOMAIN clients
  <2>1. ViewerOf(c) = NewViewer /\ Graph!ClientOrNew(c) = NewClient
    BY <1>2, ClientsAre, SameTiers DEF ViewerOf, Graph!ClientOrNew
  <2>2. QED BY <2>1, NewViewerAnswers DEF Follows
<1>3. QED BY <1>1, <1>2

LEMMA RegisterClientRefines ==
  ASSUME IInv, NEW c \in Client, RegisterClient(c)
  PROVE  IInv' /\ Graph!RegisterClient(c)
<1>1. PICK viewer : viewer = ViewerOf(c)
  OBVIOUS
<1>2. Follows(entities, viewer) /\ Graph!ClientOrNew(c) = AnswersOf(entities, viewer)
  BY <1>1, ViewerOrNew
<1>3. /\ clients' = [d \in DOMAIN clients \cup {c} |-> IF d = c THEN viewer ELSE clients[d]]
      /\ UNCHANGED entities
  BY <1>1 DEF RegisterClient, Put
<1>4. IInv' /\ Graph!SetClient(c, Graph!ClientOrNew(c)) /\ UNCHANGED graphEntities
  BY <1>2, <1>3, PutClientRefines
<1>5. QED BY <1>4 DEF Graph!RegisterClient

LEMMA RemoveClientRefines ==
  ASSUME IInv, NEW c \in Client, RemoveClient(c)
  PROVE  IInv' /\ Graph!RemoveClient(c)
<1>1. clients' = [d \in DOMAIN clients \ {c} |-> clients[d]] /\ UNCHANGED entities
  BY DEF RemoveClient, Drop, Restrict
<1>2. DOMAIN clients' = DOMAIN clients \ {c} /\ \A d \in DOMAIN clients' : clients'[d] = clients[d]
  BY <1>1
<1>3. IInv'
  <2>1. AreClients(clients')
    BY <1>1, <1>2, ClientsAre DEF AreClients
  <2>2. QED BY <1>1, <1>2, <2>1 DEF IInv
<1>4. graphClients' = [d \in DOMAIN clients \ {c} |-> AnswersOf(entities, clients[d])]
  BY <1>1, <1>2 DEF graphClients
<1>5. graphClients' = Graph!Restrict(graphClients, DOMAIN graphClients \ {c})
  BY <1>4, ClientsAre DEF Graph!Restrict
<1>6. UNCHANGED graphEntities
  BY <1>1 DEF graphEntities
<1>7. QED BY <1>3, <1>5, <1>6 DEF Graph!RemoveClient

LEMMA SetVisibleRefines ==
  ASSUME IInv, NEW c \in Client, NEW next \in SUBSET Entity, SetVisibleFromIndex(c, next)
  PROVE  IInv' /\ Graph!SetVisibleFromIndex(c, next)
<1>1. PICK viewer : viewer = ViewerOf(c)
  OBVIOUS
<1>2. Follows(entities, viewer) /\ Graph!ClientOrNew(c) = AnswersOf(entities, viewer)
  BY <1>1, ViewerOrNew
<1>3. PICK left : left = [visible |-> next, entries |-> Drop(viewer.entries, viewer.visible \ next)]
  OBVIOUS
<1>4. Follows(entities, left) /\ AnswersOf(entities, left) = WithVisible(AnswersOf(entities, viewer), next)
  BY ONLY next \in SUBSET Entity, <1>2, <1>3, UnseenIsForgotten
<1>5. /\ clients' = [d \in DOMAIN clients \cup {c} |-> IF d = c THEN left ELSE clients[d]]
      /\ UNCHANGED entities
  BY <1>1, <1>3 DEF SetVisibleFromIndex, Put
<1>6. PICK state : /\ state = AnswersOf(entities, left)
                   /\ state = Graph!WithVisible(Graph!ClientOrNew(c), next)
  BY <1>2, <1>4, SameSteps
<1>7. IInv' /\ Graph!SetClient(c, state) /\ UNCHANGED graphEntities
  BY <1>4, <1>5, <1>6, PutClientRefines
<1>8. QED BY <1>6, <1>7 DEF Graph!SetVisibleFromIndex

LEMMA SetVisibilityRefines ==
  ASSUME IInv, NEW c \in Client, NEW wanted \in SUBSET Entity, SetVisibility(c, wanted)
  PROVE  IInv' /\ Graph!SetVisibility(c, wanted)
<1>1. PICK next \in SUBSET Entity : next = wanted \cap DOMAIN entities
  OBVIOUS
<1>2. next = wanted \cap DOMAIN graphEntities
  BY <1>1 DEF graphEntities
<1>3. IInv' /\ Graph!SetVisibleFromIndex(c, next)
  BY <1>1, SetVisibleRefines DEF SetVisibility
<1>4. QED BY <1>2, <1>3 DEF Graph!SetVisibility

LEMMA SelectRefines ==
  ASSUME IInv, NEW c \in Client, NEW desired, SelectForClient(c, desired)
  PROVE  IInv' /\ Graph!SelectForClient(c, desired)
<1>1. PICK viewer : viewer = clients[c] /\ Follows(entities, viewer) /\ c \in DOMAIN clients
  BY DEF SelectForClient, IInv
<1>2. PICK cands : /\ cands = GraphCandidates(viewer, desired)
                   /\ \A e \in DOMAIN cands : cands[e].score <= MaxScore
                   /\ \E chosen \in {SelectUpdates(cands, Budget)} \cap [DOMAIN cands -> Choice] :
                        clients' = [clients EXCEPT ![c].entries =
                                      EntriesAfter(clients[c], cands, chosen)]
  BY <1>1 DEF SelectForClient
<1>3. PICK chosen \in [DOMAIN cands -> Choice] :
        /\ chosen = SelectUpdates(cands, Budget)
        /\ clients' = [clients EXCEPT ![c].entries = EntriesAfter(clients[c], cands, chosen)]
  BY <1>2
<1>4. PICK state : state = graphClients[c] /\ state = AnswersOf(entities, viewer)
  BY <1>1, ClientsAre
<1>5. IsWorld(entities) /\ IsViewer(viewer)
  BY <1>1 DEF IInv, Follows
<1>6. cands = CandidateTable(graphEntities, viewer.visible, state.known, desired)
  BY <1>1, <1>2, <1>4, <1>5, SameCandidates
<1>7. cands = Graph!CandidatesOf(c, desired)
  <2>1. state.visible = viewer.visible
    BY <1>4, <1>5, AnswersAre
  <2>2. QED BY <1>4, <1>6, <2>1, SameTables DEF Graph!CandidatesOf
<1>8. /\ DOMAIN cands \subseteq viewer.visible \cap DOMAIN entities
      /\ \A e \in DOMAIN cands : cands[e].score \in Nat
  <2>1. viewer.visible \in SUBSET Entity /\ state.known \in [Entity -> Known]
    BY <1>4, <1>5, AnswersAre DEF IsViewer, ClientState
  <2>2. /\ DOMAIN graphEntities = DOMAIN entities
        /\ \A e \in DOMAIN graphEntities : graphEntities[e].priority \in Nat
    BY <1>5, CountedIs DEF graphEntities, Uncounted
  <2>3. QED BY <1>6, <2>1, <2>2, CandidateTableScores
<1>9. PICK after : after = [viewer EXCEPT !.entries = EntriesAfter(viewer, cands, chosen)]
  OBVIOUS
<1>10. PICK next : /\ next = AnswersOf(entities, after) /\ Follows(entities, after)
                   /\ next = [state EXCEPT !.known = AfterSelection(@, cands, chosen)]
  BY SMTT(30), <1>1, <1>3, <1>4, <1>5, <1>8, <1>9, SameAfterSelection
<1>11. /\ clients' = [d \in DOMAIN clients \cup {c} |-> IF d = c THEN after ELSE clients[d]]
       /\ UNCHANGED entities
  <2>1. clients = [d \in DOMAIN clients |-> clients[d]] /\ c \in DOMAIN clients
    BY <1>1, ClientsAre
  <2>2. clients' = [clients EXCEPT ![c] = after]
    BY <1>1, <1>3, <1>9
  <2>3. clients' = [d \in DOMAIN clients \cup {c} |-> IF d = c THEN after ELSE clients[d]]
    BY ONLY <2>1, <2>2
  <2>4. QED BY <2>3 DEF SelectForClient
<1>12. IInv' /\ Graph!SetClient(c, next) /\ UNCHANGED graphEntities
  BY <1>10, <1>11, PutClientRefines
<1>13. graphClients' = [graphClients EXCEPT ![c].known = Graph!AfterSelection(@, cands, chosen)]
  <2>1. graphClients' = [d \in DOMAIN graphClients \cup {c} |-> IF d = c THEN next ELSE graphClients[d]]
    BY <1>12 DEF Graph!SetClient
  <2>2. next = [graphClients[c] EXCEPT !.known = Graph!AfterSelection(@, cands, chosen)]
    BY <1>4, <1>10, SameResults
  <2>3. c \in DOMAIN graphClients /\ graphClients = [d \in DOMAIN graphClients |-> graphClients[d]]
    BY <1>1 DEF graphClients
  <2>4. QED BY <2>1, <2>2, <2>3
<1>14. chosen \in {Graph!SelectUpdates(cands, Budget)} \cap [DOMAIN cands -> Graph!Choice]
  BY <1>3, SameSelections, SameTiers
<1>15. c \in DOMAIN graphClients
  BY <1>1, ClientsAre
<1>16. QED BY <1>2, <1>7, <1>12, <1>13, <1>14, <1>15 DEF Graph!SelectForClient

-------------------------------------------------------------------------------
(* Theorems *)

\* Every step keeps the invariant and is a step of Replication or none.
LEMMA StepRefines ==
  IInv /\ [Next]_vars => IInv' /\ [Graph!Next]_<<graphEntities, graphClients>>
<1> SUFFICES ASSUME IInv, [Next]_vars
    PROVE IInv' /\ (Graph!Next \/ UNCHANGED <<graphEntities, graphClients>>)
  OBVIOUS
<1>1. CASE UNCHANGED vars
  BY <1>1 DEF vars, IInv, graphEntities, graphClients
<1>2. CASE \E e \in Entity, bytes \in ByteChoices, p \in Priorities, lod \in Lod :
             UpsertEntity(e, bytes, p, lod)
  BY <1>2, UpsertRefines, SameTiers DEF Graph!Next
<1>3. CASE \E e \in Entity, lod \in Lod : SetEntityLod(e, lod)
  BY <1>3, SetEntityLodRefines, SameTiers DEF Graph!Next
<1>4. CASE \E e \in Entity : MarkDirty(e)
  BY <1>4, MarkDirtyRefines DEF Graph!Next
<1>5. CASE \E e \in Entity : RemoveEntity(e)
  BY <1>5, RemoveEntityRefines DEF Graph!Next
<1>6. CASE \E c \in Client : RegisterClient(c)
  BY <1>6, RegisterClientRefines DEF Graph!Next
<1>7. CASE \E c \in Client : RemoveClient(c)
  BY <1>7, RemoveClientRefines DEF Graph!Next
<1>8. CASE \E c \in Client, S \in SUBSET Entity : SetVisibility(c, S)
  BY <1>8, SetVisibilityRefines DEF Graph!Next
<1>9. CASE \E c \in Client, S \in SUBSET Entity : SetVisibleFromIndex(c, S)
  BY <1>9, SetVisibleRefines DEF Graph!Next
<1>10. CASE \E c \in Client, desired \in [Entity -> Lod] : SelectForClient(c, desired)
  BY <1>10, SelectRefines, SameTiers DEF Graph!Next
<1>11. QED BY <1>1, <1>2, <1>3, <1>4, <1>5, <1>6, <1>7, <1>8, <1>9, <1>10 DEF Next

LEMMA SpecIInv == Spec => []IInv
<1>1. IInv /\ [Next]_vars => IInv'
  BY StepRefines
<1>2. QED BY InitIInv, <1>1, PTL DEF Spec

(* The graph with counters keeps its types under any operations:             *)
(* ReplicationGraph's maps, the records in them and the generations.         *)
THEOREM TypeCorrect == Spec => []TypeOK
BY SpecIInv, IInvImplies, PTL

(* Every entry of a client is of an entity that it sees and that exists, and  *)
(* of a generation that this has reached, however visibility changes and ids  *)
(* are removed and used again.                                                *)
THEOREM EntriesAlwaysFollow == Spec => []EntriesFollowGraph
BY SpecIInv, IInvImplies, PTL

(* ReplicationGraph's generation counters implement the three answers that   *)
(* Replication keeps, for any operations on any clients and entities.        *)
THEOREM ReplicationImplemented == Spec => ImplementsReplication
<1>1. Init => Graph!Init
  BY DEF Init, EmptyMap, Graph!Init, graphEntities, graphClients
<1>2. QED BY <1>1, SpecIInv, StepRefines, PTL DEF Spec, ImplementsReplication, Graph!Spec, Graph!vars
===============================================================================
