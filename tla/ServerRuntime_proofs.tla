-------------------------- MODULE ServerRuntime_proofs --------------------------
(***************************************************************************)
(* What holds of the server runtime for any number of clients and          *)
(* entities, any payloads, budget and history capacity, and whatever       *)
(* sequences clients acknowledge; and, in the last part, what holds        *)
(* between the runtime and its clients in the two environments in which at *)
(* most one delta per client is under way.                                 *)
(***************************************************************************)
EXTENDS ClientSync, Selection_proofs, SequenceTheorems

-------------------------------------------------------------------------------
(* Deltas *)

LEMMA OpKinds ==
  ASSUME NEW p
  PROVE  /\ SpawnOrEnter(p).op = "SpawnOrEnter" /\ SpawnOrEnter(p).payload = p
         /\ Update(p).op = "Update" /\ Update(p).payload = p
         /\ DespawnOrExit.op = "DespawnOrExit"
BY DEF SpawnOrEnter, Update, DespawnOrExit

\* A payload is an op's payload; a function on entities to payloads is Contents.
LEMMA ContentsIntro ==
  ASSUME NEW S \in SUBSET Entity, NEW f \in [S -> Payload]
  PROVE  f \in Contents
BY DEF Contents

LEMMA ContentsElim ==
  ASSUME NEW f \in Contents
  PROVE  /\ DOMAIN f \subseteq Entity
         /\ f \in [DOMAIN f -> Payload]
         /\ f = [e \in DOMAIN f |-> f[e]]
BY DEF Contents

(* What the operations of BuildDelta are, entity by entity. *)
LEMMA BuildDeltaOps ==
  ASSUME NEW b \in Contents, NEW n \in Contents
  PROVE  LET ops == BuildDelta(b, n)
         IN  /\ \A e \in DOMAIN ops \ DOMAIN n : e \in DOMAIN b /\ ops[e] = DespawnOrExit
             /\ \A e \in DOMAIN ops \cap DOMAIN n :
                  ops[e] \in {SpawnOrEnter(n[e]), Update(n[e])}
             /\ \A e \in DOMAIN n \ DOMAIN ops : e \in DOMAIN b /\ b[e] = n[e]
             /\ \A e \in DOMAIN b \ DOMAIN n : e \in DOMAIN ops
             /\ DOMAIN ops \subseteq DOMAIN b \cup DOMAIN n
<1> DEFINE changed == {e \in DOMAIN n : e \notin DOMAIN b \/ b[e] # n[e]}
           gone == DOMAIN b \ DOMAIN n
           ops == BuildDelta(b, n)
<1>1. ops = [e \in changed \cup gone |->
               CASE e \in gone -> DespawnOrExit
                 [] e \in changed \cap DOMAIN b -> Update(n[e])
                 [] OTHER -> SpawnOrEnter(n[e])]
  BY DEF BuildDelta
<1>2. DOMAIN ops = changed \cup gone
  BY <1>1
<1>3. \A e \in gone : ops[e] = DespawnOrExit
  BY <1>1
<1>4. \A e \in changed : ops[e] \in {SpawnOrEnter(n[e]), Update(n[e])}
  BY <1>1
<1>5. QED BY <1>2, <1>3, <1>4

(* If operations remove what a new frame lacks, write what they name as the   *)
(* frame has it and leave alone only what is the same in both, then applying  *)
(* them to the old contents gives the new.                                    *)
LEMMA ApplyGives ==
  ASSUME NEW b \in Contents, NEW n \in Contents, NEW ops,
         \A e \in DOMAIN ops \ DOMAIN n : ops[e] = DespawnOrExit,
         \A e \in DOMAIN ops \cap DOMAIN n : ops[e] \in {SpawnOrEnter(n[e]), Update(n[e])},
         \A e \in DOMAIN n \ DOMAIN ops : e \in DOMAIN b /\ b[e] = n[e],
         \A e \in DOMAIN b \ DOMAIN n : e \in DOMAIN ops
  PROVE  ApplyOps(b, ops) = n
<1>1. Removed(ops) = DOMAIN ops \ DOMAIN n
  BY OpKinds DEF Removed
<1>2. Written(ops) = DOMAIN ops \cap DOMAIN n
  BY <1>1 DEF Written
<1>3. (DOMAIN b \cup Written(ops)) \ Removed(ops) = DOMAIN n
  BY <1>1, <1>2
<1>4. \A e \in DOMAIN n : (IF e \in DOMAIN ops THEN ops[e].payload ELSE b[e]) = n[e]
  BY OpKinds
<1>5. ApplyOps(b, ops) = [e \in DOMAIN n |-> IF e \in DOMAIN ops THEN ops[e].payload ELSE b[e]]
  BY <1>3 DEF ApplyOps
<1>6. QED BY <1>4, <1>5, ContentsElim

(* A delta between two frames, applied to the one, gives the other. *)
THEOREM DeltaRoundTrip ==
  ASSUME NEW b \in Contents, NEW n \in Contents
  PROVE  ApplyOps(b, BuildDelta(b, n)) = n
BY BuildDeltaOps, ApplyGives

LEMMA OpsIntro ==
  ASSUME NEW S \in SUBSET Entity, NEW ops, ops = [e \in S |-> ops[e]],
         \A e \in S : \/ ops[e] = DespawnOrExit
                      \/ \E p \in Payload : ops[e] \in {SpawnOrEnter(p), Update(p)}
  PROVE  ops \in Ops
<1>1. ops \in [S -> DeltaOp]
  BY DEF DeltaOp, SpawnOrEnter, Update
<1>2. QED BY <1>1 DEF Ops

\* Contents stay contents when the operations of a delta are applied to them.
LEMMA ApplyOpsType ==
  ASSUME NEW b \in Contents, NEW ops \in Ops
  PROVE  ApplyOps(b, ops) \in Contents
<1> DEFINE D == (DOMAIN b \cup Written(ops)) \ Removed(ops)
<1>1. DOMAIN ops \subseteq Entity /\ \A e \in DOMAIN ops : ops[e] \in DeltaOp
  BY DEF Ops
<1>2. DOMAIN b \subseteq Entity /\ \A e \in DOMAIN b : b[e] \in Payload
  BY ContentsElim
<1>3. D \in SUBSET Entity
  BY <1>1, <1>2 DEF Written
<1>4. \A e \in D : (IF e \in DOMAIN ops THEN ops[e].payload ELSE b[e]) \in Payload
  <2>1. ASSUME NEW e \in DOMAIN ops, e \notin Removed(ops) PROVE ops[e].payload \in Payload
    <3>1. ops[e] \in DeltaOp /\ ops[e].op # "DespawnOrExit"
      BY <1>1, <2>1 DEF Removed
    <3>2. QED BY <3>1, OpKinds DEF DeltaOp
  <2>2. QED BY <1>2, <2>1 DEF Written
<1>5. ApplyOps(b, ops) \in [D -> Payload]
  BY <1>4 DEF ApplyOps
<1>6. QED BY <1>3, <1>5, ContentsIntro

-------------------------------------------------------------------------------
(* Histories *)

\* The frame last inserted is the latest; those before keep their order, the
\* first of them dropped or not.
LEMMA HistoryInsertFrames ==
  ASSUME NEW frames \in Seq(Frame), NEW frame \in Frame, NEW capacity \in Nat \ {0},
         Len(frames) <= capacity
  PROVE  LET next == HistoryInsert(frames, frame, capacity)
         IN  /\ next \in Seq(Frame)
             /\ Len(next) \in 1..capacity
             /\ next[Len(next)] = frame
             /\ \E k \in {0, 1} : \A i \in 1..(Len(next) - 1) :
                  i + k \in 1..Len(frames) /\ next[i] = frames[i + k]
<1> DEFINE pushed == Append(frames, frame)
           excess == Len(pushed) - capacity
           next == HistoryInsert(frames, frame, capacity)
<1>1. /\ pushed \in Seq(Frame)
      /\ Len(pushed) = Len(frames) + 1
      /\ pushed[Len(pushed)] = frame
      /\ \A i \in 1..Len(frames) : pushed[i] = frames[i]
  OBVIOUS
<1>2. CASE Len(frames) = capacity
  <2>1. excess = 1
    BY <1>1, <1>2
  <2>2. next = SubSeq(pushed, 2, Len(pushed))
    BY <2>1 DEF HistoryInsert
  <2>3. /\ next \in Seq(Frame)
        /\ Len(next) = Len(pushed) - 1
        /\ \A i \in 1..Len(next) : next[i] = pushed[i + 1]
    BY <1>1, <1>2, <2>2, SubSeqProperties
  <2>4. /\ Len(next) \in 1..capacity /\ next[Len(next)] = frame
        /\ \A i \in 1..(Len(next) - 1) : i + 1 \in 1..Len(frames) /\ next[i] = frames[i + 1]
    BY <1>1, <1>2, <2>3
  <2>5. QED BY <2>3, <2>4
<1>3. CASE Len(frames) # capacity
  <2>1. ~ excess > 0
    BY <1>1, <1>3
  <2>2. next = pushed
    BY <2>1 DEF HistoryInsert
  <2>3. /\ Len(next) \in 1..capacity /\ next[Len(next)] = frame
        /\ \A i \in 1..(Len(next) - 1) : i + 0 \in 1..Len(frames) /\ next[i] = frames[i + 0]
    BY <1>1, <1>3, <2>2
  <2>4. QED BY <1>1, <2>2, <2>3
<1>4. QED BY <1>2, <1>3

LEMMA LatestInserted ==
  ASSUME NEW frames \in Seq(Frame), NEW frame \in Frame, NEW capacity \in Nat \ {0},
         Len(frames) <= capacity
  PROVE  /\ LatestSequence(HistoryInsert(frames, frame, capacity)) = frame.sequence
         /\ LatestContents(HistoryInsert(frames, frame, capacity)) = frame.contents
<1> DEFINE next == HistoryInsert(frames, frame, capacity)
<1>1. next \in Seq(Frame) /\ Len(next) \in 1..capacity /\ next[Len(next)] = frame
  BY HistoryInsertFrames
<1>2. next # <<>>
  BY <1>1
<1> HIDE DEF next
<1>3. LatestSequence(next) = frame.sequence /\ LatestContents(next) = frame.contents
  BY <1>1, <1>2 DEF LatestSequence, LatestContents
<1>4. QED BY <1>3 DEF next

\* The frames of a history are numbered upwards.
Ordered(frames) ==
  \A i, j \in DOMAIN frames : i < j => frames[i].sequence < frames[j].sequence

\* Then a lookup finds the one frame of that number.
LEMMA HistoryGetFrame ==
  ASSUME NEW frames \in Seq(Frame), Ordered(frames), NEW i \in DOMAIN frames
  PROVE  HistoryGet(frames, frames[i].sequence) = frames[i]
<1>1. ASSUME NEW j \in DOMAIN frames, frames[j].sequence = frames[i].sequence
      PROVE  j = i
  <2>1. /\ frames[i] \in Frame /\ frames[j] \in Frame
        /\ i \in Nat /\ j \in Nat
    OBVIOUS
  <2>2. frames[i].sequence \in Nat
    BY <2>1 DEF Frame
  <2>3. ~ i < j /\ ~ j < i
    BY <1>1, <2>2 DEF Ordered
  <2>4. QED BY <2>1, <2>3
<1>2. QED BY <1>1 DEF HistoryGet

\* A frame that is still kept after an insertion is the one it was before.
LEMMA HistoryGetKept ==
  ASSUME NEW frames \in Seq(Frame), Ordered(frames), NEW frame \in Frame,
         NEW capacity \in Nat \ {0}, Len(frames) <= capacity,
         Ordered(HistoryInsert(frames, frame, capacity)),
         NEW s \in HistorySequences(HistoryInsert(frames, frame, capacity)),
         s # frame.sequence
  PROVE  /\ s \in HistorySequences(frames)
         /\ HistoryGet(HistoryInsert(frames, frame, capacity), s) = HistoryGet(frames, s)
<1> DEFINE next == HistoryInsert(frames, frame, capacity)
<1>1. /\ next \in Seq(Frame) /\ Len(next) \in 1..capacity /\ next[Len(next)] = frame
      /\ \E k \in {0, 1} : \A i \in 1..(Len(next) - 1) :
           i + k \in 1..Len(frames) /\ next[i] = frames[i + k]
  BY HistoryInsertFrames
<1> HIDE DEF next
<1>2. PICK i \in DOMAIN next : s = next[i].sequence
  BY DEF HistorySequences, next
<1>3. i \in 1..(Len(next) - 1)
  BY <1>1, <1>2
<1>4. PICK j \in 1..Len(frames) : next[i] = frames[j]
  BY <1>1, <1>3
<1>5. j \in DOMAIN frames /\ s = frames[j].sequence
  BY <1>2, <1>4
<1>6. HistoryGet(frames, s) = frames[j]
  BY <1>5, HistoryGetFrame
<1>7. HistoryGet(next, s) = next[i]
  BY <1>1, <1>2, HistoryGetFrame DEF next
<1>8. QED BY <1>4, <1>5, <1>6, <1>7 DEF next, HistorySequences

\* Where there is room for two, the latest frame outlives an insertion.
LEMMA LatestOutlives ==
  ASSUME NEW frames \in Seq(Frame), frames # <<>>, NEW frame \in Frame,
         NEW capacity \in Nat, capacity > 1, Len(frames) <= capacity
  PROVE  LatestSequence(frames) \in HistorySequences(HistoryInsert(frames, frame, capacity))
<1> DEFINE pushed == Append(frames, frame)
           next == HistoryInsert(frames, frame, capacity)
           n == Len(frames)
<1>1. n \in Nat /\ n >= 1 /\ LatestSequence(frames) = frames[n].sequence
  BY DEF LatestSequence
<1>2. /\ pushed \in Seq(Frame)
      /\ Len(pushed) = n + 1
      /\ pushed[n] = frames[n]
  BY <1>1
<1> HIDE DEF pushed, n
<1>3. \E i \in DOMAIN next : next[i] = frames[n]
  <2>1. CASE n = capacity
    <3>1. next = SubSeq(pushed, 2, Len(pushed))
      BY <1>1, <1>2, <2>1 DEF HistoryInsert, pushed
    <3>2. /\ next \in Seq(Frame) /\ Len(next) = Len(pushed) - 1
          /\ \A i \in 1..Len(next) : next[i] = pushed[i + 1]
      BY <1>1, <1>2, <2>1, <3>1, SubSeqProperties
    <3> HIDE DEF next
    <3>3. n - 1 \in DOMAIN next /\ next[n - 1] = pushed[(n - 1) + 1]
      BY <1>1, <1>2, <2>1, <3>2
    <3>4. (n - 1) + 1 = n
      BY <1>1
    <3>5. QED BY <1>2, <3>3, <3>4
  <2>2. CASE n # capacity
    <3>1. next = pushed
      BY <1>1, <1>2, <2>2 DEF HistoryInsert, pushed, n
    <3> HIDE DEF next
    <3>2. n \in DOMAIN pushed
      BY <1>1, <1>2
    <3>3. QED BY <1>2, <3>1, <3>2
  <2>3. QED BY <2>1, <2>2
<1> HIDE DEF next
<1>4. LatestSequence(frames) \in HistorySequences(next)
  BY <1>1, <1>3 DEF HistorySequences
<1>5. QED BY <1>4 DEF next

-------------------------------------------------------------------------------
(* The invariant, in two parts that different actions disturb *)

WorldInv ==
  /\ \E C \in SUBSET Client : clients \in [C -> Position] /\ graph \in [C -> ClientState]
  /\ \E S \in SUBSET Entity : entities \in [S -> ServerEntity]
  /\ GraphFollowsWorld

SyncInv ==
  /\ tick \in 0..MaxTick
  /\ history \in [Client -> Seq(Frame)]
  /\ acks \in [Client -> Nat]
  /\ received \in [Client -> Nat]
  /\ sent \in [Client -> SUBSET Delta]
  /\ HistoryIsOrdered

IInv == WorldInv /\ SyncInv

LEMMA InitIInv == Init => IInv
<1> SUFFICES ASSUME Init PROVE IInv
  OBVIOUS
<1>1. /\ clients \in [{} -> Position] /\ graph \in [{} -> ClientState]
      /\ entities \in [{} -> ServerEntity]
  BY DEF Init
<1>2. WorldInv
  BY <1>1 DEF WorldInv, GraphFollowsWorld
<1>3. history \in [Client -> Seq(Frame)] /\ \A c \in Client : history[c] = <<>>
  BY DEF Init
<1>4. HistoryIsOrdered
  <2>1. ASSUME NEW c \in Client
        PROVE  Len(history[c]) = 0 /\ DOMAIN history[c] = {}
    <3>1. history[c] \in Seq(Frame) /\ history[c] = <<>>
      BY <1>3
    <3>2. QED BY <3>1
  <2>2. 0 <= HistoryCapacity
    BY ServerAssumption
  <2>3. QED BY <2>1, <2>2 DEF HistoryIsOrdered
<1>5. SyncInv
  BY <1>3, <1>4, ServerAssumption DEF Init, SyncInv, NoSnapshot
<1>6. QED BY <1>2, <1>5 DEF IInv

-------------------------------------------------------------------------------
(* Clients *)

\* What the graph knows of one client is right and about spawned entities.
LEMMA GraphIsSound ==
  ASSUME WorldInv, NEW c \in DOMAIN graph
  PROVE  Sound(graph[c]) /\ graph[c].visible \subseteq DOMAIN entities
BY DEF WorldInv, GraphFollowsWorld, Sound

\* A graph of sound states over the connected clients and the spawned entities
LEMMA WorldInvIntro ==
  ASSUME \E C \in SUBSET Client : clients' \in [C -> Position],
         \E S \in SUBSET Entity : entities' \in [S -> ServerEntity],
         graph' = [c \in DOMAIN clients' |-> graph'[c]],
         \A c \in DOMAIN clients' :
           Sound(graph'[c]) /\ graph'[c].visible \subseteq DOMAIN entities'
  PROVE  WorldInv'
<1>1. PICK C \in SUBSET Client : clients' \in [C -> Position]
  OBVIOUS
<1>2. graph' \in [C -> ClientState]
  BY <1>1 DEF Sound
<1>3. GraphFollowsWorld'
  BY <1>1, <1>2 DEF GraphFollowsWorld, Sound
<1>4. QED BY <1>1, <1>2, <1>3 DEF WorldInv

LEMMA ConnectKeeps ==
  ASSUME WorldInv, NEW c \in Client, NEW p \in Position, ConnectClient(c, p)
  PROVE  WorldInv'
<1>1. Sound(NewClient) /\ NewClient.visible = {}
  BY NewClientType DEF Sound, NewClient
<1>2. /\ \E C \in SUBSET Client : clients' \in [C -> Position]
      /\ DOMAIN graph' = DOMAIN clients' /\ UNCHANGED entities
      /\ graph' = [d \in DOMAIN clients' |-> graph'[d]]
  BY DEF ConnectClient, WorldInv
<1>3. \A d \in DOMAIN graph' : graph'[d] = IF d \in DOMAIN graph THEN graph[d] ELSE NewClient
  BY DEF ConnectClient
<1>4. \A d \in DOMAIN clients' :
        Sound(graph'[d]) /\ graph'[d].visible \subseteq DOMAIN entities'
  BY <1>1, <1>2, <1>3, GraphIsSound
<1>5. \E S \in SUBSET Entity : entities' \in [S -> ServerEntity]
  BY <1>2 DEF WorldInv
<1>6. QED BY <1>2, <1>4, <1>5, WorldInvIntro

LEMMA DisconnectKeeps ==
  ASSUME WorldInv, NEW c \in Client, DisconnectClient(c)
  PROVE  WorldInv'
<1>1. /\ \E C \in SUBSET Client : clients' \in [C -> Position]
      /\ graph' = [d \in DOMAIN clients' |-> graph'[d]]
      /\ \A d \in DOMAIN clients' : d \in DOMAIN graph /\ graph'[d] = graph[d]
      /\ UNCHANGED entities
  BY DEF DisconnectClient, WorldInv, Restrict
<1>2. \E S \in SUBSET Entity : entities' \in [S -> ServerEntity]
  BY <1>1 DEF WorldInv
<1>3. \A d \in DOMAIN clients' :
        Sound(graph'[d]) /\ graph'[d].visible \subseteq DOMAIN entities'
  BY <1>1, GraphIsSound
<1>4. QED BY <1>1, <1>2, <1>3, WorldInvIntro

LEMMA UpdatePositionKeeps ==
  ASSUME WorldInv, NEW c \in Client, NEW p \in Position, UpdateClientPosition(c, p)
  PROVE  WorldInv'
BY DEF UpdateClientPosition, WorldInv, GraphFollowsWorld

-------------------------------------------------------------------------------
(* Entities *)

LEMMA UpsertKeeps ==
  ASSUME WorldInv, NEW e \in Entity, NEW entity \in ServerEntity, UpsertEntity(e, entity)
  PROVE  WorldInv'
<1>1. /\ \E S \in SUBSET Entity : entities' \in [S -> ServerEntity]
      /\ DOMAIN entities \subseteq DOMAIN entities' /\ UNCHANGED clients
  BY DEF UpsertEntity, WorldInv
<1>2. DOMAIN graph = DOMAIN clients /\ \E C \in SUBSET Client : clients \in [C -> Position]
  BY DEF WorldInv
<1>3. CASE e \in DOMAIN entities
  <2>1. graph' = [c \in DOMAIN graph |-> Outdated(graph[c], e)]
    BY <1>3 DEF UpsertEntity, OutdateEntity
  <2>2. ASSUME NEW c \in DOMAIN graph
        PROVE  /\ Sound(Outdated(graph[c], e))
               /\ Outdated(graph[c], e).visible = graph[c].visible
    <3>1. Sound(graph[c])
      BY GraphIsSound
    <3>2. QED BY <3>1, SoundOperators, OutdatedType DEF Sound
  <2>3. QED BY <1>1, <1>2, <2>1, <2>2, GraphIsSound, WorldInvIntro
<1>4. CASE e \notin DOMAIN entities
  <2>1. UNCHANGED graph
    BY <1>4 DEF UpsertEntity
  <2>2. graph' = [c \in DOMAIN clients' |-> graph'[c]]
    BY <1>1, <2>1 DEF WorldInv
  <2>3. QED BY <1>1, <1>2, <2>1, <2>2, GraphIsSound, WorldInvIntro
<1>5. QED BY <1>3, <1>4

LEMMA DespawnKeeps ==
  ASSUME WorldInv, NEW e \in Entity, DespawnEntity(e)
  PROVE  WorldInv'
<1>1. /\ \E S \in SUBSET Entity : entities' \in [S -> ServerEntity]
      /\ DOMAIN entities' = DOMAIN entities \ {e} /\ UNCHANGED clients
  BY DEF DespawnEntity, WorldInv, Restrict
<1>2. /\ DOMAIN graph = DOMAIN clients /\ \E C \in SUBSET Client : clients \in [C -> Position]
      /\ graph' = [c \in DOMAIN graph |-> Forgotten(graph[c], e)]
  BY DEF WorldInv, DespawnEntity
<1>3. ASSUME NEW c \in DOMAIN graph
      PROVE  /\ Sound(Forgotten(graph[c], e))
             /\ Forgotten(graph[c], e).visible = graph[c].visible \ {e}
  <2>1. Sound(graph[c])
    BY GraphIsSound
  <2>2. Sound(Forgotten(graph[c], e))
    BY <2>1, SoundOperators
  <2>3. Forgotten(graph[c], e).visible = graph[c].visible \ {e}
    BY <2>1, ForgottenType DEF Sound
  <2>4. QED BY <2>2, <2>3
<1>4. QED BY <1>1, <1>2, <1>3, GraphIsSound, WorldInvIntro

LEMMA GameKeeps ==
  ASSUME WorldInv, GameStep
  PROVE  WorldInv'
<1> USE ServerAssumption
<1>1. PICK e \in Entity : EntityStep(e) \/ DespawnEntity(e)
  BY DEF GameStep
<1>2. \A v \in Variants : v \in [Lod -> Payload] /\ Uniform(v["Full"]) \in [Lod -> Payload]
  BY DEF Uniform, Lod
<1>3. \A v \in [Lod -> Payload] : PayloadLengths(v) \in [Lod -> Nat]
  BY SnapshotAssumption DEF PayloadLengths
<1>4. \A v \in Variants : ScaledBytes(PayloadBytes[v["Full"]]) \in [Lod -> Nat]
  <2>1. ASSUME NEW n \in Nat
        PROVE  n \in Nat /\ (n + 1) \div 2 \in Nat /\ (n + 3) \div 4 \in Nat
    OBVIOUS
  <2>2. ASSUME NEW n \in Nat PROVE ScaledBytes(n) \in [Lod -> Nat]
    BY <2>1 DEF ScaledBytes
  <2>3. \A v \in Variants : PayloadBytes[v["Full"]] \in Nat
    BY SnapshotAssumption DEF Lod
  <2>4. QED BY <2>2, <2>3
<1>5. ASSUME NEW v \in [Lod -> Payload], SetEntityLodPayloads(e, v)
      PROVE  WorldInv'
  <2>1. entities[e] \in ServerEntity
    BY <1>5 DEF SetEntityLodPayloads, WorldInv
  <2>2. [entities[e] EXCEPT !.payloads = v, !.bytes = PayloadLengths(v)] \in ServerEntity
    BY <1>3, <2>1 DEF ServerEntity
  <2>3. QED BY <1>5, <2>2, UpsertKeeps DEF SetEntityLodPayloads
<1>6. CASE \E p \in Position, v \in Variants, r \in Priorities : SpawnEntity(e, p, v["Full"], r)
  <2>1. PICK p \in Position, v \in Variants, r \in Priorities : SpawnEntity(e, p, v["Full"], r)
    BY <1>6
  <2>2. [position |-> p, payloads |-> Uniform(v["Full"]),
         bytes |-> ScaledBytes(PayloadBytes[v["Full"]]),
         priority |-> r, lod |-> "Full"] \in ServerEntity
    BY <1>2, <1>4 DEF ServerEntity, Lod
  <2>3. QED BY <2>1, <2>2, UpsertKeeps DEF SpawnEntity
<1>7. CASE \E p \in Position, v \in Variants, r \in Priorities, lod \in Lod :
             SpawnEntityWithLodPayloads(e, p, v, r, lod)
  <2>1. PICK p \in Position, v \in Variants, r \in Priorities, lod \in Lod :
          SpawnEntityWithLodPayloads(e, p, v, r, lod)
    BY <1>7
  <2>2. [position |-> p, payloads |-> v, bytes |-> PayloadLengths(v),
         priority |-> r, lod |-> lod] \in ServerEntity
    BY <1>2, <1>3 DEF ServerEntity
  <2>3. QED BY <2>1, <2>2, UpsertKeeps DEF SpawnEntityWithLodPayloads
<1>8. CASE DespawnEntity(e)
  BY <1>8, DespawnKeeps
<1>9. ASSUME NEW p \in Position, e \in DOMAIN entities
      PROVE  [entities[e] EXCEPT !.position = p] \in ServerEntity
  BY <1>9 DEF WorldInv, ServerEntity
<1>10. CASE \E p \in Position : MoveEntity(e, p)
  BY <1>9, <1>10, UpsertKeeps DEF MoveEntity
<1>11. CASE \E v \in Variants : SetEntityPayload(e, v["Full"])
  BY <1>2, <1>5, <1>11 DEF SetEntityPayload
<1>12. CASE \E v \in Variants : SetEntityLodPayloads(e, v)
  BY <1>2, <1>5, <1>12
<1>13. CASE \E p \in Position, v \in Variants : MoveEntityWithLodPayloads(e, p, v)
  <2>1. PICK p \in Position, v \in Variants : MoveEntityWithLodPayloads(e, p, v)
    BY <1>13
  <2> DEFINE moved == [entities[e] EXCEPT !.position = p]
  <2>2. moved \in ServerEntity
    BY <1>9, <2>1 DEF MoveEntityWithLodPayloads
  <2>3. [moved EXCEPT !.payloads = v, !.bytes = PayloadLengths(v)] \in ServerEntity
    <3> HIDE DEF moved
    <3>1. QED BY <1>2, <1>3, <2>2 DEF ServerEntity
  <2>4. UpsertEntity(e, moved) \/
        UpsertEntity(e, [moved EXCEPT !.payloads = v, !.bytes = PayloadLengths(v)])
    BY <2>1 DEF MoveEntityWithLodPayloads
  <2>5. QED BY <2>2, <2>3, <2>4, UpsertKeeps
<1>14. CASE \E lod \in Lod : SetEntityLod(e, lod)
  <2>1. PICK lod \in Lod : SetEntityLod(e, lod)
    BY <1>14
  <2>2. entities[e] \in ServerEntity
    BY <2>1 DEF SetEntityLod, WorldInv
  <2>3. [entities[e] EXCEPT !.lod = lod] \in ServerEntity
    BY <2>2 DEF ServerEntity
  <2>4. QED BY <2>1, <2>3, UpsertKeeps DEF SetEntityLod
<1>15. QED
  BY <1>1, <1>6, <1>7, <1>8, <1>10, <1>11, <1>12, <1>13, <1>14 DEF EntityStep

-------------------------------------------------------------------------------
(* One client's part of a tick *)

\* What a choice for each candidate of c gives: the exits and the updates are
\* apart, and the frame is made of payloads.
LEMMA TickParts ==
  ASSUME IInv, NEW c \in DOMAIN clients, NEW chosen \in [DOMAIN CandidatesOf(c) -> Choice]
  PROVE  /\ c \in Client
         /\ DOMAIN CandidatesOf(c) \subseteq InInterest(c)
         /\ \A e \in DOMAIN CandidatesOf(c) : CandidatesOf(c)[e].score \in Nat
         /\ Updated(chosen) \subseteq InInterest(c)
         /\ InInterest(c) \subseteq Entity /\ Exited(c) \subseteq Entity
         /\ Updated(chosen) \cap Exited(c) = {}
         /\ \A e \in Updated(chosen) : PayloadForLod(chosen, e) \in Payload
         /\ Sound(Seen(c)) /\ Seen(c).visible = InInterest(c)
<1>1. c \in Client /\ c \in DOMAIN graph
  BY DEF IInv, WorldInv
<1>2. /\ Sound(graph[c]) /\ graph[c].visible \subseteq DOMAIN entities
      /\ DOMAIN entities \subseteq Entity
  BY <1>1, GraphIsSound DEF IInv, WorldInv
<1>3. InInterest(c) \subseteq DOMAIN entities
  BY DEF InInterest
<1>4. Sound(Seen(c)) /\ Seen(c).visible = InInterest(c)
  BY <1>2, <1>3, WithVisibleType DEF Seen, Sound
<1>5. \A e \in DOMAIN entities : entities[e] \in ServerEntity
  BY DEF IInv, WorldInv
<1>6. \A e \in DOMAIN entities : entities[e].priority \in Nat
  BY <1>5 DEF ServerEntity
<1>7. /\ DOMAIN CandidatesOf(c) \subseteq InInterest(c)
      /\ \A e \in DOMAIN CandidatesOf(c) : CandidatesOf(c)[e].score \in Nat
  <2>1. Seen(c).known \in [Entity -> Known] /\ InInterest(c) \in SUBSET Entity
    BY <1>2, <1>3, <1>4 DEF Sound, ClientState
  <2>2. QED BY <1>6, <2>1, CandidateTableScores DEF CandidatesOf
<1>8. Updated(chosen) \subseteq InInterest(c)
  BY <1>7 DEF Updated
<1>9. Exited(c) \subseteq Entity /\ Exited(c) \cap InInterest(c) = {}
  BY <1>2 DEF Exited
<1>10. ASSUME NEW e \in Updated(chosen)
       PROVE  PayloadForLod(chosen, e) \in Payload
  <2>1. chosen[e] \in Lod
    BY DEF Updated, Choice
  <2>2. e \in DOMAIN entities
    BY <1>3, <1>8
  <2>3. entities[e].payloads \in [Lod -> Payload]
    BY <1>5, <2>2 DEF ServerEntity
  <2>4. QED BY <2>1, <2>3 DEF PayloadForLod
<1>11. QED BY <1>1, <1>2, <1>3, <1>4, <1>7, <1>8, <1>9, <1>10

\* What a selection leaves in the graph is sound.
LEMMA TickGraphSound ==
  ASSUME IInv, NEW c \in DOMAIN clients, NEW chosen \in [DOMAIN CandidatesOf(c) -> Choice]
  PROVE  Sound(TickGraph(c, chosen)) /\ TickGraph(c, chosen).visible \subseteq DOMAIN entities
<1> DEFINE after == AfterSelection(Seen(c).known, CandidatesOf(c), chosen)
<1>1. /\ Seen(c) \in ClientState /\ Seen(c).visible = InInterest(c)
      /\ \A e \in Entity \ InInterest(c) : Seen(c).known[e] = Unknown
      /\ InInterest(c) \subseteq Entity /\ InInterest(c) \subseteq DOMAIN entities
      /\ DOMAIN CandidatesOf(c) \subseteq InInterest(c)
      /\ \A e \in DOMAIN CandidatesOf(c) : CandidatesOf(c)[e].score \in Nat
  BY TickParts DEF Sound, InInterest
<1>2. Seen(c).known \in [Entity -> Known]
  BY <1>1 DEF ClientState
<1>3. /\ after \in [Entity -> Known]
      /\ \A e \in Entity \ DOMAIN CandidatesOf(c) : after[e] = Seen(c).known[e]
  BY <1>1, <1>2, AfterSelectionType
<1>4. TickGraph(c, chosen) = [visible |-> InInterest(c), known |-> after]
  BY DEF TickGraph
<1> HIDE DEF after
<1>5. QED BY <1>1, <1>3, <1>4 DEF Sound, ClientState

LEMMA LatestContentsType ==
  ASSUME SyncInv, NEW c \in Client
  PROVE  LatestContents(history[c]) \in Contents /\ LatestSequence(history[c]) \in Nat
<1>1. CASE history[c] = <<>>
  <2>1. NoContents \in [{} -> Payload]
    BY DEF NoContents
  <2>2. NoContents \in Contents
    BY <2>1, ContentsIntro
  <2>3. QED BY <1>1, <2>2 DEF LatestContents, LatestSequence, NoSnapshot
<1>2. CASE history[c] # <<>>
  <2>1. history[c] \in Seq(Frame) /\ Len(history[c]) \in 1..Len(history[c])
    BY <1>2 DEF SyncInv
  <2>2. history[c][Len(history[c])] \in Frame
    BY <2>1
  <2>3. QED BY <1>2, <2>2 DEF LatestContents, LatestSequence, Frame
<1>3. QED BY <1>1, <1>2

LEMMA NextContentsFacts ==
  ASSUME IInv, NEW c \in DOMAIN clients, NEW chosen \in [DOMAIN CandidatesOf(c) -> Choice]
  PROVE  LET latest == LatestContents(history[c])
             next == NextContents(c, chosen)
         IN  /\ next \in Contents
             /\ DOMAIN next = (DOMAIN latest \ Exited(c)) \cup Updated(chosen)
             /\ \A e \in DOMAIN next : next[e] = IF e \in Updated(chosen)
                                               THEN PayloadForLod(chosen, e) ELSE latest[e]
<1> DEFINE latest == LatestContents(history[c])
           next == NextContents(c, chosen)
<1>1. c \in Client /\ latest \in Contents
  BY TickParts, LatestContentsType DEF IInv
<1>2. DOMAIN latest \subseteq Entity /\ \A e \in DOMAIN latest : latest[e] \in Payload
  BY <1>1, ContentsElim
<1>3. /\ DOMAIN next = (DOMAIN latest \ Exited(c)) \cup Updated(chosen)
      /\ next = [e \in DOMAIN next |-> IF e \in Updated(chosen)
                                       THEN PayloadForLod(chosen, e) ELSE latest[e]]
  BY DEF NextContents
<1>4. DOMAIN next \in SUBSET Entity
  BY <1>2, <1>3, TickParts
<1>5. \A e \in DOMAIN next : next[e] = IF e \in Updated(chosen)
                                         THEN PayloadForLod(chosen, e) ELSE latest[e]
  BY <1>3
<1>6. \A e \in DOMAIN next : next[e] \in Payload
  BY <1>2, <1>3, <1>5, TickParts
<1> HIDE DEF next
<1>7. next \in [DOMAIN next -> Payload]
  BY <1>3, <1>6
<1>8. next \in Contents
  BY <1>4, <1>7, ContentsIntro
<1>9. QED BY <1>3, <1>5, <1>8 DEF next

\* The baseline a delta names is a frame of the history, found by its sequence.
LEMMA BaselineFacts ==
  ASSUME SyncInv, NEW c \in Client
  PROVE  /\ BaselineSequence(c) \in {NoSnapshot, acks[c]}
         /\ BaselineContents(c) \in Contents
         /\ BaselineContents(c) = IF BaselineSequence(c) = NoSnapshot THEN NoContents
                                 ELSE HistoryGet(history[c], BaselineSequence(c)).contents
         /\ CanBuildDirectDelta(c) => BaselineContents(c) = LatestContents(history[c])
<1>1. /\ history[c] \in Seq(Frame) /\ acks[c] \in Nat
      /\ \A i \in DOMAIN history[c] : history[c][i].sequence \in 1..tick
      /\ \A i, j \in DOMAIN history[c] : i < j => history[c][i].sequence < history[c][j].sequence
  BY DEF SyncInv, HistoryIsOrdered
<1>2. Ordered(history[c])
  BY <1>1 DEF Ordered
<1>3. NoContents \in Contents
  <2>1. NoContents \in [{} -> Payload]
    BY DEF NoContents
  <2>2. QED BY <2>1, ContentsIntro
<1>4. CASE acks[c] \notin HistorySequences(history[c])
  <2>1. BaselineSequence(c) = NoSnapshot /\ BaselineContents(c) = NoContents
    BY <1>4 DEF BaselineSequence, BaselineContents
  <2>2. CanBuildDirectDelta(c) => history[c] = <<>>
    <3>1. SUFFICES ASSUME history[c] # <<>> PROVE LatestSequence(history[c]) # NoSnapshot
      BY <2>1 DEF CanBuildDirectDelta
    <3>2. Len(history[c]) \in DOMAIN history[c]
      BY <1>1, <3>1
    <3>3. LatestSequence(history[c]) = history[c][Len(history[c])].sequence
      BY <3>1 DEF LatestSequence
    <3>4. QED BY <1>1, <3>2, <3>3 DEF NoSnapshot, SyncInv
  <2>3. QED BY <1>3, <2>1, <2>2 DEF LatestContents
<1>5. CASE acks[c] \in HistorySequences(history[c])
  <2>1. PICK i \in DOMAIN history[c] : history[c][i].sequence = acks[c]
    BY <1>5 DEF HistorySequences
  <2>2. acks[c] # NoSnapshot
    BY <1>1, <2>1 DEF NoSnapshot, SyncInv
  <2>3. HistoryGet(history[c], acks[c]) = history[c][i]
    BY <1>1, <1>2, <2>1, HistoryGetFrame
  <2>4. /\ BaselineSequence(c) = acks[c]
        /\ BaselineContents(c) = history[c][i].contents
    BY <1>5, <2>2, <2>3 DEF BaselineSequence, BaselineContents
  <2>5. history[c][i] \in Frame
    BY <1>1, <2>1
  <2>6. ASSUME CanBuildDirectDelta(c)
        PROVE  BaselineContents(c) = LatestContents(history[c])
    <3>1. history[c] # <<>> /\ Len(history[c]) \in DOMAIN history[c]
      BY <1>1, <2>1
    <3>2. history[c][Len(history[c])].sequence = acks[c]
      BY <2>4, <2>6, <3>1 DEF CanBuildDirectDelta, LatestSequence
    <3>3. HistoryGet(history[c], acks[c]) = history[c][Len(history[c])]
      BY <1>1, <1>2, <3>1, <3>2, HistoryGetFrame
    <3>4. QED BY <2>3, <2>4, <3>1, <3>3 DEF LatestContents
  <2>7. history[c][i].contents \in Contents
    BY <2>5 DEF Frame
  <2>8. QED BY <2>2, <2>3, <2>4, <2>6, <2>7
<1>6. QED BY <1>4, <1>5

(* The operations of a tick, applied to the baseline, give the next frame.    *)
LEMMA TickOpsMeanFrame ==
  ASSUME IInv, NEW c \in DOMAIN clients, NEW chosen \in [DOMAIN CandidatesOf(c) -> Choice],
         DOMAIN TickOps(c, chosen) # {}
  PROVE  /\ TickOps(c, chosen) \in Ops
         /\ ApplyOps(BaselineContents(c), TickOps(c, chosen)) = NextContents(c, chosen)
<1> DEFINE b == BaselineContents(c)
           latest == LatestContents(history[c])
           next == NextContents(c, chosen)
           ops == TickOps(c, chosen)
           built == BuildDelta(b, next)
           exits == IF BaselineSequence(c) = NoSnapshot THEN Exited(c) ELSE {}
<1>1. /\ c \in Client /\ b \in Contents /\ latest \in Contents /\ next \in Contents
      /\ CanBuildDirectDelta(c) => b = latest
  BY TickParts, BaselineFacts, LatestContentsType, NextContentsFacts DEF IInv
<1>2. /\ DOMAIN next = (DOMAIN latest \ Exited(c)) \cup Updated(chosen)
      /\ \A e \in DOMAIN next : next[e] = IF e \in Updated(chosen)
                                        THEN PayloadForLod(chosen, e) ELSE latest[e]
  BY NextContentsFacts
<1>3. /\ Updated(chosen) \subseteq Entity /\ Exited(c) \subseteq Entity
      /\ Updated(chosen) \cap Exited(c) = {}
      /\ DOMAIN b \subseteq Entity /\ DOMAIN next \subseteq Entity
      /\ \A e \in DOMAIN next : next[e] \in Payload
  BY <1>1, TickParts, ContentsElim
<1>4. ~ (Updated(chosen) = {} /\ Exited(c) = {})
  <2>1. DOMAIN NoContents = {}
    BY DEF NoContents
  <2>2. QED BY <2>1 DEF TickOps
<1>5. CASE CanBuildDirectDelta(c)
  <2>1. ops = DirectOps(c, chosen)
    BY <1>4, <1>5 DEF TickOps
  <2>2. DOMAIN ops = Updated(chosen) \cup Exited(c) /\ ops = [e \in DOMAIN ops |-> ops[e]]
    BY <2>1 DEF DirectOps
  <2>3. \A e \in Exited(c) : ops[e] = DespawnOrExit
    BY <1>3, <2>1 DEF DirectOps
  <2>4. \A e \in Updated(chosen) :
          ops[e] \in {SpawnOrEnter(PayloadForLod(chosen, e)), Update(PayloadForLod(chosen, e))}
    BY <1>3, <2>1 DEF DirectOps
  <2> HIDE DEF ops, next, latest, b
  <2>5. /\ \A e \in DOMAIN ops \ DOMAIN next : ops[e] = DespawnOrExit
        /\ \A e \in DOMAIN ops \cap DOMAIN next :
             ops[e] \in {SpawnOrEnter(next[e]), Update(next[e])}
        /\ \A e \in DOMAIN next \ DOMAIN ops : e \in DOMAIN b /\ b[e] = next[e]
        /\ \A e \in DOMAIN b \ DOMAIN next : e \in DOMAIN ops
    <3>1. b = latest
      BY <1>1, <1>5
    <3>2. \A e \in DOMAIN ops \ DOMAIN next : e \in Exited(c)
      BY <1>2, <2>2
    <3>3. \A e \in DOMAIN ops \cap DOMAIN next :
            e \in Updated(chosen) /\ next[e] = PayloadForLod(chosen, e)
      BY <1>2, <1>3, <2>2
    <3>4. \A e \in DOMAIN next \ DOMAIN ops :
            e \in DOMAIN latest /\ next[e] = latest[e]
      BY <1>2, <2>2
    <3>5. \A e \in DOMAIN latest \ DOMAIN next : e \in DOMAIN ops
      BY <1>2, <2>2
    <3>6. QED BY <2>3, <2>4, <3>1, <3>2, <3>3, <3>4, <3>5
  <2>6. ApplyOps(b, ops) = next
    BY <1>1, <2>5, ApplyGives
  <2>7. ops \in Ops
    <3>1. DOMAIN ops \in SUBSET Entity
      BY <1>3, <2>2
    <3>2. \A e \in DOMAIN ops : \/ ops[e] = DespawnOrExit
                               \/ \E p \in Payload : ops[e] \in {SpawnOrEnter(p), Update(p)}
      BY <1>3, <2>5
    <3>3. QED BY <2>2, <3>1, <3>2, OpsIntro
  <2>8. QED BY <2>6, <2>7 DEF ops, next, b
<1>6. CASE ~ CanBuildDirectDelta(c)
  <2>1. ops = CatchUpOps(c, chosen)
    BY <1>4, <1>6 DEF TickOps
  <2>2. ops = [e \in DOMAIN built \cup exits |-> IF e \in exits THEN DespawnOrExit ELSE built[e]]
    BY <2>1 DEF CatchUpOps
  <2>3. exits \subseteq Entity /\ exits \cap DOMAIN next = {}
    <3>1. Exited(c) \cap DOMAIN next = {}
      BY <1>2, <1>3
    <3>2. QED BY <1>3, <3>1
  <2>4. /\ DOMAIN ops = DOMAIN built \cup exits /\ ops = [e \in DOMAIN ops |-> ops[e]]
        /\ \A e \in DOMAIN ops : ops[e] = IF e \in exits THEN DespawnOrExit ELSE built[e]
    BY <2>2
  <2>5. /\ \A e \in DOMAIN built \ DOMAIN next : e \in DOMAIN b /\ built[e] = DespawnOrExit
        /\ \A e \in DOMAIN built \cap DOMAIN next :
             built[e] \in {SpawnOrEnter(next[e]), Update(next[e])}
        /\ \A e \in DOMAIN next \ DOMAIN built : e \in DOMAIN b /\ b[e] = next[e]
        /\ \A e \in DOMAIN b \ DOMAIN next : e \in DOMAIN built
        /\ DOMAIN built \subseteq DOMAIN b \cup DOMAIN next
    BY <1>1, BuildDeltaOps
  <2> HIDE DEF ops, next, latest, b, built, exits
  <2>6. /\ \A e \in DOMAIN ops \ DOMAIN next : ops[e] = DespawnOrExit
        /\ \A e \in DOMAIN ops \cap DOMAIN next :
             ops[e] \in {SpawnOrEnter(next[e]), Update(next[e])}
        /\ \A e \in DOMAIN next \ DOMAIN ops : e \in DOMAIN b /\ b[e] = next[e]
        /\ \A e \in DOMAIN b \ DOMAIN next : e \in DOMAIN ops
    <3>1. \A e \in DOMAIN ops \ DOMAIN next : ops[e] = DespawnOrExit
      BY <2>4, <2>5
    <3>2. \A e \in DOMAIN ops \cap DOMAIN next : e \notin exits /\ e \in DOMAIN built
      BY <2>3, <2>4
    <3>3. \A e \in DOMAIN ops \cap DOMAIN next : ops[e] = built[e]
      BY <2>4, <3>2
    <3>4. QED BY <2>4, <2>5, <3>1, <3>2, <3>3
  <2>7. ApplyOps(b, ops) = next
    BY <1>1, <2>6, ApplyGives
  <2>8. ops \in Ops
    <3>1. DOMAIN ops \in SUBSET Entity
      BY <1>3, <2>3, <2>4, <2>5
    <3>2. \A e \in DOMAIN ops : \/ ops[e] = DespawnOrExit
                               \/ \E p \in Payload : ops[e] \in {SpawnOrEnter(p), Update(p)}
      BY <1>3, <2>6
    <3>3. QED BY <2>4, <3>1, <3>2, OpsIntro
  <2>9. QED BY <2>7, <2>8 DEF ops, next, b
<1>7. QED BY <1>5, <1>6

-------------------------------------------------------------------------------
(* The tick *)

\* What a tick does to c, if it is connected and something is sent to it
TickFor(c, chosen) ==
  /\ history'[c] = TickHistory(c, chosen, tick + 1)
  /\ sent'[c] = TickDeltas(c, chosen, tick + 1)

LEMMA TickPicks ==
  ASSUME IInv, AdvanceTick
  PROVE  \E chosen :
           /\ \A c \in DOMAIN clients : chosen[c] \in [DOMAIN CandidatesOf(c) -> Choice]
           /\ graph' = [c \in DOMAIN clients |-> TickGraph(c, chosen[c])]
           /\ \A c \in DOMAIN clients : TickFor(c, chosen[c])
           /\ \A c \in Client \ DOMAIN clients : history'[c] = history[c] /\ sent'[c] = {}
           /\ DOMAIN history' = Client /\ history' = [c \in Client |-> history'[c]]
           /\ DOMAIN sent' = Client /\ sent' = [c \in Client |-> sent'[c]]
<1>1. PICK chosen \in {[c \in DOMAIN clients |-> SelectUpdates(CandidatesOf(c), Budget)]}
                      \cap [DOMAIN clients -> Selections] :
        /\ graph' = [c \in DOMAIN clients |-> TickGraph(c, chosen[c])]
        /\ history' = [c \in Client |->
                         IF c \in DOMAIN clients THEN TickHistory(c, chosen[c], tick + 1)
                                                 ELSE history[c]]
        /\ sent' = [c \in Client |->
                      IF c \in DOMAIN clients THEN TickDeltas(c, chosen[c], tick + 1)
                                              ELSE {}]
  BY DEF AdvanceTick
<1>2. ASSUME NEW c \in DOMAIN clients
      PROVE  chosen[c] \in [DOMAIN CandidatesOf(c) -> Choice]
  <2>1. chosen[c] = SelectUpdates(CandidatesOf(c), Budget) /\ chosen[c] \in Selections
    OBVIOUS
  <2>2. DOMAIN chosen[c] = DOMAIN CandidatesOf(c)
    BY <2>1, SelectUpdatesDomain
  <2>3. QED BY <2>1, <2>2 DEF Selections
<1>3. DOMAIN clients \subseteq Client
  BY DEF IInv, WorldInv
<1>4. \A c \in DOMAIN clients : TickFor(c, chosen[c])
  BY <1>1, <1>3 DEF TickFor
<1>5. QED BY <1>1, <1>2, <1>4

\* The frame of this tick, put into c's history, keeps it in order.
LEMMA TickHistoryOrdered ==
  ASSUME SyncInv, NEW c \in Client, NEW contents \in Contents
  PROVE  LET next == HistoryInsert(history[c], [sequence |-> tick + 1, contents |-> contents],
                                   HistoryCapacity)
         IN  /\ next \in Seq(Frame)
             /\ Len(next) <= HistoryCapacity
             /\ \A i \in DOMAIN next :
                  /\ next[i].sequence \in 1..(tick + 1)
                  /\ \A j \in DOMAIN next : i < j => next[i].sequence < next[j].sequence
<1> DEFINE frame == [sequence |-> tick + 1, contents |-> contents]
           frames == history[c]
           next == HistoryInsert(frames, frame, HistoryCapacity)
<1>1. tick \in Nat /\ HistoryCapacity \in Nat \ {0}
  BY ServerAssumption DEF SyncInv
<1>2. /\ frames \in Seq(Frame) /\ Len(frames) <= HistoryCapacity
      /\ \A i \in DOMAIN frames : frames[i].sequence \in 1..tick
      /\ \A i, j \in DOMAIN frames : i < j => frames[i].sequence < frames[j].sequence
  BY DEF SyncInv, HistoryIsOrdered
<1>3. frame \in Frame /\ frame.sequence = tick + 1
  BY <1>1 DEF Frame
<1> HIDE DEF frame, frames
<1>4. /\ next \in Seq(Frame) /\ Len(next) \in 1..HistoryCapacity
      /\ next[Len(next)] = frame
  BY <1>1, <1>2, <1>3, HistoryInsertFrames
<1>k. PICK k \in {0, 1} :
        \A i \in 1..(Len(next) - 1) : i + k \in 1..Len(frames) /\ next[i] = frames[i + k]
  BY SMTT(30), <1>1, <1>2, <1>3, HistoryInsertFrames
<1> HIDE DEF next
<1>5. /\ k \in Nat /\ Len(next) \in Nat
      /\ DOMAIN next = 1..Len(next) /\ DOMAIN frames = 1..Len(frames)
  BY <1>2, <1>4
<1>6. \A i \in 1..(Len(next) - 1) : next[i].sequence \in 1..tick
  BY <1>2, <1>k, <1>5
<1>7. \A i, j \in 1..(Len(next) - 1) : i < j => next[i].sequence < next[j].sequence
  <2>1. SUFFICES ASSUME NEW i \in 1..(Len(next) - 1), NEW j \in 1..(Len(next) - 1), i < j
                 PROVE  next[i].sequence < next[j].sequence
    OBVIOUS
  <2>2. /\ i + k \in DOMAIN frames /\ j + k \in DOMAIN frames /\ i + k < j + k
        /\ next[i] = frames[i + k] /\ next[j] = frames[j + k]
    BY <1>k, <1>5, <2>1
  <2>3. QED BY <1>2, <2>2
<1>8. next[Len(next)].sequence = tick + 1
  BY <1>3, <1>4
<1>9. ASSUME NEW i \in DOMAIN next
      PROVE  /\ next[i].sequence \in 1..(tick + 1)
             /\ \A j \in DOMAIN next : i < j => next[i].sequence < next[j].sequence
  <2>1. CASE i = Len(next)
    <3>1. \A j \in DOMAIN next : ~ i < j
      BY <1>4, <1>5, <2>1
    <3>2. next[i].sequence \in 1..(tick + 1)
      BY <1>1, <1>8, <2>1
    <3>3. QED BY <3>1, <3>2
  <2>2. CASE i # Len(next)
    <3>1. i \in 1..(Len(next) - 1)
      BY <1>4, <1>5, <2>2
    <3>2. next[i].sequence \in 1..tick
      BY <1>6, <3>1
    <3>3. ASSUME NEW j \in DOMAIN next, i < j
          PROVE  next[i].sequence < next[j].sequence
      <4>1. CASE j = Len(next)
        BY <1>1, <1>8, <3>2, <4>1
      <4>2. CASE j # Len(next)
        BY <1>4, <1>5, <1>7, <3>1, <3>3, <4>2
      <4>3. QED BY <4>1, <4>2
    <3>4. QED BY <1>1, <3>2, <3>3
  <2>3. QED BY <2>1, <2>2
<1>10. QED BY <1>4, <1>9 DEF next, frames, frame

\* A delta sent to c and the frame kept of it
LEMMA SentMeansFrame ==
  ASSUME IInv, NEW c \in DOMAIN clients, NEW chosen \in [DOMAIN CandidatesOf(c) -> Choice],
         NEW d \in TickDeltas(c, chosen, tick + 1)
  PROVE  /\ d \in Delta
         /\ d.sequence = tick + 1 /\ d.baseline = BaselineSequence(c)
         /\ d.ops = TickOps(c, chosen) /\ DOMAIN TickOps(c, chosen) # {}
         /\ TickHistory(c, chosen, tick + 1) =
              HistoryInsert(history[c],
                            [sequence |-> tick + 1, contents |-> NextContents(c, chosen)],
                            HistoryCapacity)
<1>1. /\ DOMAIN TickOps(c, chosen) # {}
      /\ d = [sequence |-> tick + 1, baseline |-> BaselineSequence(c), ops |-> TickOps(c, chosen)]
  BY DEF TickDeltas
<1>2. TickOps(c, chosen) \in Ops
  BY <1>1, TickOpsMeanFrame
<1>3. c \in Client /\ tick \in Nat
  BY TickParts, ServerAssumption DEF IInv, SyncInv
<1>4. BaselineSequence(c) \in Nat
  BY <1>3, BaselineFacts DEF IInv, SyncInv, NoSnapshot
<1>5. d \in Delta
  BY <1>1, <1>2, <1>3, <1>4 DEF Delta
<1>6. QED BY <1>1, <1>5 DEF TickHistory

LEMMA TickKeeps ==
  ASSUME IInv, AdvanceTick
  PROVE  IInv'
<1>1. PICK chosen :
        /\ \A c \in DOMAIN clients : chosen[c] \in [DOMAIN CandidatesOf(c) -> Choice]
        /\ graph' = [c \in DOMAIN clients |-> TickGraph(c, chosen[c])]
        /\ \A c \in DOMAIN clients : TickFor(c, chosen[c])
        /\ \A c \in Client \ DOMAIN clients : history'[c] = history[c] /\ sent'[c] = {}
        /\ DOMAIN history' = Client /\ history' = [c \in Client |-> history'[c]]
        /\ DOMAIN sent' = Client /\ sent' = [c \in Client |-> sent'[c]]
  BY TickPicks
<1>2. tick' = tick + 1 /\ tick' \in 0..MaxTick /\ UNCHANGED <<clients, entities, acks, received>>
  BY ServerAssumption DEF AdvanceTick, IInv, SyncInv
<1>3. WorldInv'
  <2>1. /\ \E C \in SUBSET Client : clients' \in [C -> Position]
        /\ \E S \in SUBSET Entity : entities' \in [S -> ServerEntity]
    BY <1>2 DEF IInv, WorldInv
  <2>2. graph' = [c \in DOMAIN clients' |-> graph'[c]]
    BY <1>1, <1>2
  <2>3. \A c \in DOMAIN clients' : Sound(graph'[c]) /\ graph'[c].visible \subseteq DOMAIN entities'
    BY <1>1, <1>2, TickGraphSound
  <2>4. QED BY <2>1, <2>2, <2>3, WorldInvIntro
<1>4. ASSUME NEW c \in Client
      PROVE  /\ history'[c] \in Seq(Frame)
             /\ Len(history'[c]) <= HistoryCapacity
             /\ \A i \in DOMAIN history'[c] :
                  /\ history'[c][i].sequence \in 1..(tick + 1)
                  /\ \A j \in DOMAIN history'[c] :
                       i < j => history'[c][i].sequence < history'[c][j].sequence
             /\ sent'[c] \subseteq Delta
  <2>1. /\ history[c] \in Seq(Frame)
        /\ Len(history[c]) <= HistoryCapacity
        /\ \A i \in DOMAIN history[c] :
             /\ history[c][i].sequence \in 1..(tick + 1)
             /\ \A j \in DOMAIN history[c] :
                  i < j => history[c][i].sequence < history[c][j].sequence
    BY ServerAssumption DEF IInv, SyncInv, HistoryIsOrdered
  <2>2. CASE c \notin DOMAIN clients
    BY <1>1, <2>1, <2>2
  <2>3. CASE c \in DOMAIN clients
    <3>1. /\ chosen[c] \in [DOMAIN CandidatesOf(c) -> Choice]
          /\ history'[c] = TickHistory(c, chosen[c], tick + 1)
          /\ sent'[c] = TickDeltas(c, chosen[c], tick + 1)
      BY <1>1, <2>3 DEF TickFor
    <3>2. sent'[c] \subseteq Delta
      BY <2>3, <3>1, SentMeansFrame
    <3>3. CASE DOMAIN TickOps(c, chosen[c]) = {}
      BY <2>1, <3>1, <3>2, <3>3 DEF TickHistory
    <3>4. CASE DOMAIN TickOps(c, chosen[c]) # {}
      <4>1. NextContents(c, chosen[c]) \in Contents
        BY <2>3, <3>1, NextContentsFacts
      <4>2. history'[c] =
              HistoryInsert(history[c],
                            [sequence |-> tick + 1, contents |-> NextContents(c, chosen[c])],
                            HistoryCapacity)
        BY <3>1, <3>4 DEF TickHistory
      <4>3. QED BY <3>2, <4>1, <4>2, TickHistoryOrdered DEF IInv
    <3>5. QED BY <3>3, <3>4
  <2>4. QED BY <2>2, <2>3
<1>5. history' \in [Client -> Seq(Frame)] /\ sent' \in [Client -> SUBSET Delta]
  BY <1>1, <1>4
<1>6. HistoryIsOrdered'
  BY <1>2, <1>4 DEF HistoryIsOrdered
<1>7. SyncInv'
  BY <1>2, <1>5, <1>6 DEF IInv, SyncInv
<1>8. QED BY <1>3, <1>7 DEF IInv

LEMMA TickDeltasMeanFrames ==
  ASSUME IInv, AdvanceTick
  PROVE  DeltaMeansFrame
<1> SUFFICES ASSUME NEW c \in Client, NEW d \in sent'[c]
             PROVE  /\ LatestSequence(history'[c]) = d.sequence
                    /\ d.baseline \in {NoSnapshot, acks[c]}
                    /\ LatestContents(history'[c]) =
                         ApplyOps(IF d.baseline = NoSnapshot THEN NoContents
                                  ELSE HistoryGet(history[c], d.baseline).contents, d.ops)
  BY DEF DeltaMeansFrame
<1>1. PICK chosen :
        /\ \A b \in DOMAIN clients : chosen[b] \in [DOMAIN CandidatesOf(b) -> Choice]
        /\ \A b \in DOMAIN clients : TickFor(b, chosen[b])
        /\ \A b \in Client \ DOMAIN clients : sent'[b] = {}
  BY TickPicks
<1>2. /\ c \in DOMAIN clients
      /\ chosen[c] \in [DOMAIN CandidatesOf(c) -> Choice]
      /\ history'[c] = TickHistory(c, chosen[c], tick + 1)
      /\ d \in TickDeltas(c, chosen[c], tick + 1)
  BY <1>1 DEF TickFor
<1>3. /\ d.sequence = tick + 1 /\ d.baseline = BaselineSequence(c)
      /\ d.ops = TickOps(c, chosen[c]) /\ DOMAIN TickOps(c, chosen[c]) # {}
      /\ history'[c] =
           HistoryInsert(history[c],
                         [sequence |-> tick + 1, contents |-> NextContents(c, chosen[c])],
                         HistoryCapacity)
  BY <1>2, SentMeansFrame
<1>4. /\ NextContents(c, chosen[c]) \in Contents
      /\ ApplyOps(BaselineContents(c), d.ops) = NextContents(c, chosen[c])
  BY <1>2, <1>3, NextContentsFacts, TickOpsMeanFrame
<1>5. /\ history[c] \in Seq(Frame) /\ Len(history[c]) <= HistoryCapacity
      /\ HistoryCapacity \in Nat \ {0} /\ tick + 1 \in Nat
  BY ServerAssumption DEF IInv, SyncInv, HistoryIsOrdered
<1>6. [sequence |-> tick + 1, contents |-> NextContents(c, chosen[c])] \in Frame
  BY <1>4, <1>5 DEF Frame
<1>7. /\ LatestSequence(history'[c]) = tick + 1
      /\ LatestContents(history'[c]) = NextContents(c, chosen[c])
  BY <1>3, <1>5, <1>6, LatestInserted
<1>8. /\ BaselineSequence(c) \in {NoSnapshot, acks[c]}
      /\ BaselineContents(c) = IF BaselineSequence(c) = NoSnapshot THEN NoContents
                              ELSE HistoryGet(history[c], BaselineSequence(c)).contents
  BY BaselineFacts DEF IInv
<1>9. QED BY <1>3, <1>4, <1>7, <1>8

-------------------------------------------------------------------------------
(* The theorems *)

LEMMA StepIInv == IInv /\ [Next]_vars => IInv'
<1> SUFFICES ASSUME IInv, [Next]_vars PROVE IInv'
  OBVIOUS
<1>1. ASSUME UNCHANGED <<tick, sync, transport>> PROVE SyncInv'
  BY <1>1 DEF IInv, SyncInv, HistoryIsOrdered, sync, transport
<1>2. ASSUME UNCHANGED world PROVE WorldInv'
  BY <1>2 DEF IInv, WorldInv, GraphFollowsWorld, world
<1>3. CASE GameStep
  <2>1. UNCHANGED <<tick, sync, transport>>
    BY <1>3 DEF GameStep, EntityStep, SpawnEntity, SpawnEntityWithLodPayloads, DespawnEntity, MoveEntity,
                SetEntityPayload, SetEntityLodPayloads, MoveEntityWithLodPayloads, SetEntityLod,
                UpsertEntity
  <2>2. QED BY <1>1, <1>3, <2>1, GameKeeps DEF IInv
<1>4. CASE SessionStep
  <2>1. UNCHANGED <<tick, sync, transport>>
    BY <1>4 DEF SessionStep, ConnectClient, DisconnectClient, UpdateClientPosition
  <2>2. WorldInv'
    BY <1>4, ConnectKeeps, DisconnectKeeps, UpdatePositionKeeps DEF SessionStep, IInv
  <2>3. QED BY <1>1, <2>1, <2>2 DEF IInv
<1>5. ASSUME NEW c \in Client, NEW s \in 1..MaxTick, ReceiveAck(c, s)
      PROVE  IInv'
  <2>1. received' \in [Client -> Nat]
    BY <1>5, ServerAssumption DEF ReceiveAck, Ack, IInv, SyncInv
  <2>2. UNCHANGED <<tick, world, sync, sent>>
    BY <1>5 DEF ReceiveAck
  <2>3. QED BY <1>2, <2>1, <2>2 DEF IInv, SyncInv, HistoryIsOrdered, sync
<1>6. CASE PumpTransport
  <2>1. received' \in [Client -> Nat] /\ acks' \in [Client -> Nat]
    BY <1>6 DEF PumpTransport, Ack, IInv, SyncInv, NoSnapshot
  <2>2. UNCHANGED <<tick, world, history, sent>>
    BY <1>6 DEF PumpTransport
  <2>3. QED BY <1>2, <2>1, <2>2 DEF IInv, SyncInv, HistoryIsOrdered
<1>7. CASE AdvanceTick
  BY <1>7, TickKeeps
<1>8. CASE UNCHANGED vars
  BY <1>1, <1>2, <1>8 DEF vars, IInv
<1>9. QED BY <1>3, <1>4, <1>5, <1>6, <1>7, <1>8 DEF Next

THEOREM SpecIInv == Spec => []IInv
BY InitIInv, StepIInv, PTL DEF Spec

(* Every table of the runtime keeps its type, whatever game code, sessions    *)
(* and acknowledgements do; in particular every delta sent is well formed.    *)
THEOREM TypeCorrect == Spec => []TypeOK
<1>1. IInv => TypeOK
  BY DEF IInv, WorldInv, SyncInv, TypeOK
<1>2. QED BY <1>1, SpecIInv, PTL

(* The graph never refers to an entity that is not spawned, and knows nothing *)
(* of one a client does not see.                                              *)
THEOREM GraphAlwaysFollowsWorld == Spec => []GraphFollowsWorld
<1>1. IInv => GraphFollowsWorld
  BY DEF IInv, WorldInv
<1>2. QED BY <1>1, SpecIInv, PTL

(* The frames kept are bounded in number and numbered upwards by past ticks,  *)
(* also when a client leaves and comes back under the same id.                *)
THEOREM HistoryStaysOrdered == Spec => []HistoryIsOrdered
<1>1. IInv => HistoryIsOrdered
  BY DEF IInv, SyncInv
<1>2. QED BY <1>1, SpecIInv, PTL

(* Every delta the runtime sends, direct or built against a baseline, turns   *)
(* the contents of the baseline it names into the frame kept under its        *)
(* sequence, whatever was acknowledged, lost or evicted before.               *)
THEOREM DeltasAlwaysMeanFrames == Spec => DeltasMeanFrames
<1>1. IInv /\ [Next]_vars => [AdvanceTick => DeltaMeansFrame]_vars
  BY TickDeltasMeanFrames
<1>2. QED BY <1>1, SpecIInv, PTL DEF Spec, DeltasMeanFrames

-------------------------------------------------------------------------------
(* The budget *)

FinitelyMany == IsFiniteSet(DOMAIN entities)

\* Everything that is not game code leaves the entities alone.
LEMMA OnlyGamesChangeEntities ==
  ASSUME [Next]_vars, ~ GameStep
  PROVE  UNCHANGED entities
BY DEF Next, vars, world, SessionStep, ConnectClient, DisconnectClient, UpdateClientPosition,
       ReceiveAck, PumpTransport, AdvanceTick

\* An operation on e inserts it, or takes it out.
LEMMA GameEntities ==
  ASSUME NEW e \in Entity, EntityStep(e) \/ DespawnEntity(e)
  PROVE  /\ DOMAIN entities' \subseteq DOMAIN entities \cup {e}
         /\ \A d \in DOMAIN entities' \ {e} : d \in DOMAIN entities /\ entities'[d] = entities[d]
<1>1. ASSUME NEW entity, UpsertEntity(e, entity)
      PROVE  /\ DOMAIN entities' \subseteq DOMAIN entities \cup {e}
             /\ \A d \in DOMAIN entities' \ {e} :
                  d \in DOMAIN entities /\ entities'[d] = entities[d]
  BY <1>1 DEF UpsertEntity
<1>2. CASE DespawnEntity(e)
  BY <1>2 DEF DespawnEntity, Restrict
<1>3. CASE EntityStep(e)
  BY <1>1, <1>3
     DEF EntityStep, SpawnEntity, SpawnEntityWithLodPayloads, MoveEntity, SetEntityPayload,
         SetEntityLodPayloads, MoveEntityWithLodPayloads, SetEntityLod
<1>4. QED BY <1>2, <1>3

LEMMA SpecFinitelyMany == Spec => []FinitelyMany
<1>1. Init => FinitelyMany
  <2>1. Init => DOMAIN entities = {}
    BY DEF Init
  <2>2. QED BY <2>1, FS_EmptySet DEF FinitelyMany
<1>2. FinitelyMany /\ [Next]_vars => FinitelyMany'
  <2> SUFFICES ASSUME FinitelyMany, [Next]_vars PROVE FinitelyMany'
    OBVIOUS
  <2>1. CASE GameStep
    <3>1. PICK e \in Entity : EntityStep(e) \/ DespawnEntity(e)
      BY <2>1 DEF GameStep
    <3>2. DOMAIN entities' \subseteq DOMAIN entities \cup {e}
      BY <3>1, GameEntities
    <3>3. QED BY <3>2, FS_AddElement, FS_Subset DEF FinitelyMany
  <2>2. CASE ~ GameStep
    BY <2>2, OnlyGamesChangeEntities DEF FinitelyMany
  <2>3. QED BY <2>1, <2>2
<1>3. QED BY <1>1, <1>2, PTL DEF Spec

\* What the tick selects from are candidates in the sense of the walk.
LEMMA TickCandidates ==
  ASSUME IInv, FinitelyMany, NEW c \in DOMAIN clients
  PROVE  /\ Candidates(CandidatesOf(c))
         /\ \A e \in DOMAIN CandidatesOf(c) :
              e \in DOMAIN entities /\ CandidatesOf(c)[e].bytes = entities[e].bytes
<1> DEFINE cands == CandidatesOf(c)
<1>1. c \in DOMAIN graph /\ Sound(graph[c])
  BY GraphIsSound DEF IInv, WorldInv
<1>2. /\ InInterest(c) \subseteq DOMAIN entities /\ DOMAIN entities \subseteq Entity
      /\ \A e \in DOMAIN entities : entities[e] \in ServerEntity
  BY DEF InInterest, IInv, WorldInv
<1>3. Seen(c).known \in [Entity -> Known]
  BY <1>1, <1>2, WithVisibleType DEF Seen, Sound, ClientState
<1>4. /\ DOMAIN cands \subseteq DOMAIN entities
      /\ \A e \in DOMAIN cands : cands[e].score \in Nat
  <2>1. InInterest(c) \in SUBSET Entity /\ \A e \in DOMAIN entities : entities[e].priority \in Nat
    BY <1>2 DEF ServerEntity
  <2>2. QED BY <1>3, <2>1, CandidateTableScores DEF CandidatesOf
<1>5. \A e \in DOMAIN cands : cands[e].bytes = entities[e].bytes
  BY DEF CandidatesOf, CandidateTable, Candidate
<1>6. IsFiniteSet(DOMAIN cands) /\ DOMAIN cands \subseteq Nat
  BY <1>2, <1>4, FS_Subset, IdAssumption DEF FinitelyMany
<1> HIDE DEF cands
<1>7. \A e \in DOMAIN cands : cands[e].bytes \in [Lod -> Nat]
  BY <1>2, <1>4, <1>5 DEF ServerEntity
<1>8. QED BY <1>4, <1>5, <1>6, <1>7 DEF Candidates, cands

\* Every candidate is decided, and what the choices are reckoned to cost is
\* within the budget.
SelectionInBudget ==
  \A c \in DOMAIN clients :
    /\ NextSelection(c) \in [DOMAIN CandidatesOf(c) -> Choice]
    /\ BytesUsed(CandidatesOf(c), NextSelection(c)) <= Budget

(* Whatever the worlds and the clients, the next tick decides every candidate *)
(* of every client, and what it takes by the costs the game gave is within    *)
(* the budget: no choice of the tick is one the model leaves out.             *)
THEOREM TicksStayInBudget == Spec => []SelectionInBudget
<1>1. IInv /\ FinitelyMany => SelectionInBudget
  <2> SUFFICES ASSUME IInv, FinitelyMany, NEW c \in DOMAIN clients
               PROVE  /\ NextSelection(c) \in [DOMAIN CandidatesOf(c) -> Choice]
                      /\ BytesUsed(CandidatesOf(c), NextSelection(c)) <= Budget
    BY DEF SelectionInBudget
  <2>1. Candidates(CandidatesOf(c)) /\ Budget \in Nat
    BY TickCandidates, ServerAssumption
  <2>2. QED BY <2>1, SelectUpdatesIsWalk, SelectionWithinBudget DEF NextSelection
<1>2. QED BY <1>1, SpecIInv, SpecFinitelyMany, PTL

(* The costs are those of the payloads unless spawn_entity estimates them.    *)
ExactBytes ==
  \A e \in DOMAIN entities : entities[e].bytes = PayloadLengths(entities[e].payloads)

Estimate ==
  \E e \in Entity, p \in Position, v \in Variants, r \in Priorities : SpawnEntity(e, p, v["Full"], r)

LEMMA StepExact ==
  ASSUME IInv, ExactBytes, [Next]_vars, ~ Estimate
  PROVE  ExactBytes'
<1>1. CASE ~ GameStep
  BY <1>1, OnlyGamesChangeEntities DEF ExactBytes
<1>2. CASE GameStep
  <2>1. PICK e \in Entity : EntityStep(e) \/ DespawnEntity(e)
    BY <1>2 DEF GameStep
  <2>2. ASSUME NEW d \in DOMAIN entities', d # e
        PROVE  entities'[d].bytes = PayloadLengths(entities'[d].payloads)
    BY <2>1, <2>2, GameEntities DEF ExactBytes
  <2>3. ASSUME NEW entity, UpsertEntity(e, entity), entity.bytes = PayloadLengths(entity.payloads)
        PROVE  ExactBytes'
    <3>1. entities'[e] = entity
      BY <2>3 DEF UpsertEntity
    <3>2. QED BY <2>2, <2>3, <3>1 DEF ExactBytes
  <2>4. CASE DespawnEntity(e)
    <3>1. e \notin DOMAIN entities'
      BY <2>4 DEF DespawnEntity, Restrict
    <3>2. QED BY <2>2, <3>1 DEF ExactBytes
  <2>5. ASSUME e \in DOMAIN entities, NEW p, NEW v, NEW lod
        PROVE  LET entity == entities[e]
                   moved == [entity EXCEPT !.position = p]
               IN  /\ moved.bytes = PayloadLengths(moved.payloads)
                   /\ [entity EXCEPT !.payloads = v, !.bytes = PayloadLengths(v)].bytes =
                        PayloadLengths([entity EXCEPT !.payloads = v, !.bytes = PayloadLengths(v)].payloads)
                   /\ [moved EXCEPT !.payloads = v, !.bytes = PayloadLengths(v)].bytes =
                        PayloadLengths([moved EXCEPT !.payloads = v, !.bytes = PayloadLengths(v)].payloads)
                   /\ [entity EXCEPT !.lod = lod].bytes = PayloadLengths([entity EXCEPT !.lod = lod].payloads)
    <3>1. PICK entity : entity = entities[e]
      OBVIOUS
    <3>2. entity \in ServerEntity /\ entity.bytes = PayloadLengths(entity.payloads)
      BY <2>5, <3>1 DEF ExactBytes, IInv, WorldInv
    <3>3. PICK lengths : lengths = PayloadLengths(v)
      OBVIOUS
    <3>4. QED BY <3>1, <3>2, <3>3 DEF ServerEntity
  <2>6. CASE \E p \in Position, v \in Variants, r \in Priorities, lod \in Lod :
               SpawnEntityWithLodPayloads(e, p, v, r, lod)
    BY <2>3, <2>6 DEF SpawnEntityWithLodPayloads
  <2>7. CASE \E p \in Position : MoveEntity(e, p)
    BY <2>3, <2>5, <2>7 DEF MoveEntity
  <2>8. ASSUME NEW v, SetEntityLodPayloads(e, v) PROVE ExactBytes'
    BY <2>3, <2>5, <2>8 DEF SetEntityLodPayloads
  <2>9. CASE \E p \in Position, v \in Variants : MoveEntityWithLodPayloads(e, p, v)
    <3>1. PICK p \in Position, v \in Variants : MoveEntityWithLodPayloads(e, p, v)
      BY <2>9
    <3>2. PICK moved : moved = [entities[e] EXCEPT !.position = p]
      OBVIOUS
    <3>3. e \in DOMAIN entities /\ UpsertEntity(e, IF moved.payloads = v THEN moved
            ELSE [moved EXCEPT !.payloads = v, !.bytes = PayloadLengths(v)])
      BY <3>1, <3>2 DEF MoveEntityWithLodPayloads
    <3>4. /\ moved.bytes = PayloadLengths(moved.payloads)
          /\ [moved EXCEPT !.payloads = v, !.bytes = PayloadLengths(v)].bytes =
               PayloadLengths([moved EXCEPT !.payloads = v, !.bytes = PayloadLengths(v)].payloads)
      BY <2>5, <3>2, <3>3
    <3>5. QED BY <2>3, <3>3, <3>4
  <2>10. CASE \E lod \in Lod : SetEntityLod(e, lod)
    BY <2>3, <2>5, <2>10 DEF SetEntityLod
  <2>11. ~ \E p \in Position, v \in Variants, r \in Priorities : SpawnEntity(e, p, v["Full"], r)
    BY DEF Estimate
  <2>12. QED
    BY <2>1, <2>4, <2>6, <2>7, <2>8, <2>9, <2>10, <2>11 DEF EntityStep, SetEntityPayload
<1>3. QED BY <1>1, <1>2

\* With exact costs, what the updates carry is what was reckoned for them.
LEMMA ExactSelection ==
  ASSUME IInv, FinitelyMany, ExactBytes, SelectionInBudget
  PROVE  PayloadsWithinBudget
<1> SUFFICES ASSUME NEW c \in DOMAIN clients, NEW chosen, chosen = NextSelection(c)
             PROVE  SumFunction([e \in Updated(chosen) |-> PayloadBytes[PayloadForLod(chosen, e)]])
                      <= Budget
  BY DEF PayloadsWithinBudget
<1> DEFINE cands == CandidatesOf(c)
           carried == [e \in Updated(chosen) |-> PayloadBytes[PayloadForLod(chosen, e)]]
           reckoned == [e \in DOMAIN cands |-> ChoiceBytes(cands[e], chosen[e])]
<1>1. /\ Candidates(cands)
      /\ \A e \in DOMAIN cands : e \in DOMAIN entities /\ cands[e].bytes = entities[e].bytes
      /\ chosen \in [DOMAIN cands -> Choice] /\ BytesUsed(cands, chosen) <= Budget
  BY TickCandidates DEF SelectionInBudget
<1>2. Updated(chosen) \in SUBSET DOMAIN cands /\ IsFiniteSet(Updated(chosen))
      /\ IsFiniteSet(DOMAIN cands)
  BY <1>1, FS_Subset DEF Updated, Candidates
<1>3. ASSUME NEW e \in DOMAIN cands PROVE reckoned[e] \in Nat
  BY <1>1 DEF ChoiceBytes, Choice, Candidates
<1>4. ASSUME NEW e \in Updated(chosen) PROVE carried[e] = reckoned[e]
  <2>1. e \in DOMAIN cands /\ chosen[e] \in Lod /\ chosen[e] # Deferred
    BY <1>1 DEF Updated, Choice
  <2>2. cands[e].bytes = PayloadLengths(entities[e].payloads)
    BY <1>1, <2>1 DEF ExactBytes
  <2>3. cands[e].bytes[chosen[e]] = PayloadBytes[entities[e].payloads[chosen[e]]]
    BY <2>1, <2>2 DEF PayloadLengths
  <2>4. QED BY <2>1, <2>3 DEF ChoiceBytes, PayloadForLod
<1>5. /\ SumFunction(carried) = SumFunctionOnSet(carried, Updated(chosen))
      /\ BytesUsed(cands, chosen) = SumFunctionOnSet(reckoned, DOMAIN cands)
  <2>1. DOMAIN carried = Updated(chosen) /\ DOMAIN reckoned = DOMAIN cands
    OBVIOUS
  <2>2. QED BY <2>1 DEF SumFunction, BytesUsed
<1> HIDE DEF carried, reckoned, cands
<1>6. SumFunctionOnSet(carried, Updated(chosen)) = SumFunctionOnSet(reckoned, Updated(chosen))
  <2>1. \A e \in Updated(chosen) : reckoned[e] \in Nat
    BY <1>2, <1>3
  <2>2. QED BY <1>2, <1>4, <2>1, SumSame
<1>7. SumFunctionOnSet(reckoned, Updated(chosen)) <= SumFunctionOnSet(reckoned, DOMAIN cands)
  BY <1>2, <1>3, SumOfPart
<1>8. SumFunctionOnSet(reckoned, Updated(chosen)) \in Nat /\ SumFunctionOnSet(reckoned, DOMAIN cands) \in Nat
  <2>1. \A e \in Updated(chosen) : reckoned[e] \in Nat
    BY <1>2, <1>3
  <2>2. QED BY <1>2, <1>3, <2>1, SumType
<1>9. SumFunction(carried) <= Budget
  BY <1>1, <1>5, <1>6, <1>7, <1>8, ServerAssumption
<1>10. QED BY <1>9 DEF carried

(* Unless spawn_entity gives an entity one payload and an estimate of its     *)
(* cheaper tiers, the payload bytes of the next selection are within the      *)
(* client's budget, for any payloads, worlds and later changes.  (With such   *)
(* an entity they may not be: run server_budget.)                             *)
THEOREM PayloadsInBudget == Spec /\ [][~ Estimate]_vars => []PayloadsWithinBudget
<1>1. Init => ExactBytes
  BY DEF Init, ExactBytes
<1>2. IInv /\ ExactBytes /\ [Next]_vars /\ [~ Estimate]_vars => ExactBytes'
  <2>1. IInv /\ ExactBytes /\ UNCHANGED vars => ExactBytes'
    BY DEF ExactBytes, vars, world
  <2>2. QED BY <2>1, StepExact
<1>3. IInv /\ FinitelyMany /\ ExactBytes /\ SelectionInBudget => PayloadsWithinBudget
  BY ExactSelection
<1>4. QED BY <1>1, <1>2, <1>3, SpecIInv, SpecFinitelyMany, TicksStayInBudget, PTL DEF Spec

-------------------------------------------------------------------------------
(* One delta at a time *)

Latest(c) == LatestSequence(history[c])

\* c has an acknowledgement under way, or received and not yet pumped.
Answered(c) == (\E m \in acksInFlight : m[1] = c) \/ received[c] # NoSnapshot

Quiet(c) == inFlight[c] = {} /\ ~ Answered(c)

(* All that is under way between the server and c is about the newest frame;  *)
(* nothing is if c is not connected.                                          *)
AboutLatest(c) ==
  /\ \A d, other \in inFlight[c] : d = other
  /\ \A d \in inFlight[c] : d.sequence = Latest(c) /\ Latest(c) # NoSnapshot
  /\ \A m \in acksInFlight : m[1] = c => m[2] = Latest(c) /\ Latest(c) # NoSnapshot
  /\ received[c] \in {NoSnapshot, Latest(c)}
  /\ acks[c] <= Latest(c)
  /\ c \notin DOMAIN clients => Quiet(c)

NetworkInv ==
  /\ IInv
  /\ view \in [Client -> Contents]
  /\ inFlight \in [Client -> SUBSET Delta]
  /\ acksInFlight \subseteq Client \X Nat
  /\ \A c \in Client : AboutLatest(c)

\* the steps of both environments
Step ==
  Games \/ Despawns \/ Walks \/ TicksWhenSettled \/ Delivers \/ Acks \/ Pump
    \/ Joins \/ Leaves \/ Loses

LEMMA EnvironmentSteps == (SessionNext => Step) /\ (LossyNext => Step)
BY DEF SessionNext, LossyNext, Step

-------------------------------------------------------------------------------
(* Frames *)

LEMMA EmptyContents == NoContents \in Contents /\ DOMAIN NoContents = {}
<1>1. NoContents \in [{} -> Payload]
  BY DEF NoContents
<1>2. QED BY <1>1, ContentsIntro

\* The newest frame is found by its sequence; before the first there is none.
LEMMA LatestFrame ==
  ASSUME SyncInv, NEW c \in Client
  PROVE  /\ Latest(c) \in 0..tick
         /\ HistorySequences(history[c]) \subseteq 1..tick
         /\ Latest(c) # NoSnapshot =>
              /\ Latest(c) \in HistorySequences(history[c])
              /\ HistoryGet(history[c], Latest(c)).contents = LatestContents(history[c])
         /\ Latest(c) = NoSnapshot =>
              /\ HistorySequences(history[c]) = {}
              /\ LatestContents(history[c]) = NoContents
<1>1. /\ history[c] \in Seq(Frame)
      /\ \A i \in DOMAIN history[c] : history[c][i].sequence \in 1..tick
      /\ \A i, j \in DOMAIN history[c] : i < j => history[c][i].sequence < history[c][j].sequence
  BY DEF SyncInv, HistoryIsOrdered
<1>2. Ordered(history[c]) /\ tick \in Nat
  BY <1>1, ServerAssumption DEF Ordered, SyncInv
<1>3. HistorySequences(history[c]) \subseteq 1..tick
  BY <1>1 DEF HistorySequences
<1>4. CASE history[c] = <<>>
  <2>1. DOMAIN history[c] = {}
    BY <1>4
  <2>2. HistorySequences(history[c]) = {}
    BY <2>1 DEF HistorySequences
  <2>3. Latest(c) = NoSnapshot /\ LatestContents(history[c]) = NoContents
    BY <1>4 DEF Latest, LatestSequence, LatestContents
  <2>4. QED BY <1>2, <2>2, <2>3 DEF NoSnapshot
<1>5. CASE history[c] # <<>>
  <2>1. Len(history[c]) \in DOMAIN history[c]
    BY <1>1, <1>5
  <2>2. /\ Latest(c) = history[c][Len(history[c])].sequence
        /\ LatestContents(history[c]) = history[c][Len(history[c])].contents
    BY <1>5 DEF Latest, LatestSequence, LatestContents
  <2>3. Latest(c) \in 1..tick
    BY <1>1, <2>1, <2>2
  <2>4. Latest(c) \in HistorySequences(history[c])
    BY <2>1, <2>2 DEF HistorySequences
  <2>5. HistoryGet(history[c], Latest(c)) = history[c][Len(history[c])]
    BY <1>1, <1>2, <2>1, <2>2, HistoryGetFrame
  <2>6. Latest(c) # NoSnapshot /\ Latest(c) \in 0..tick
    BY <1>2, <2>3 DEF NoSnapshot
  <2>7. QED BY <1>3, <2>2, <2>4, <2>5, <2>6
<1>6. QED BY <1>4, <1>5

-------------------------------------------------------------------------------
(* Steps of the runtime *)

\* what a tick does for c: nothing, or a delta that means the frame it keeps
SentNothing(c) == history'[c] = history[c] /\ inFlight'[c] = {}

SentOne(c, chosen) ==
  \E d \in Delta :
    /\ inFlight'[c] = {d}
    /\ d.sequence = tick + 1 /\ d.ops = TickOps(c, chosen)
    /\ history'[c] =
         HistoryInsert(history[c],
                       [sequence |-> tick + 1, contents |-> NextContents(c, chosen)],
                       HistoryCapacity)
    /\ LatestSequence(history'[c]) = tick + 1
    /\ LatestContents(history'[c]) = NextContents(c, chosen)
    /\ ApplyOps(BaselineContents(c), d.ops) = NextContents(c, chosen)

LEMMA TickOutcome ==
  ASSUME NetworkInv, Settled, ServerTick
  PROVE  /\ IInv'
         /\ tick' = tick + 1
         /\ UNCHANGED <<clients, entities, acks, received, view, acksInFlight>>
         /\ DOMAIN inFlight' = Client /\ inFlight' = [c \in Client |-> inFlight'[c]]
         /\ \A c \in Client \ DOMAIN clients : SentNothing(c)
         /\ \E chosen : \A c \in DOMAIN clients :
              /\ chosen[c] \in [DOMAIN CandidatesOf(c) -> Choice]
              /\ graph'[c] = TickGraph(c, chosen[c])
              /\ \/ DOMAIN TickOps(c, chosen[c]) = {} /\ SentNothing(c)
                 \/ DOMAIN TickOps(c, chosen[c]) # {} /\ SentOne(c, chosen[c])
<1>1. AdvanceTick /\ IInv
  BY DEF ServerTick, NetworkInv
<1>2. IInv'
  BY <1>1, TickKeeps
<1>3. tick' = tick + 1 /\ UNCHANGED <<clients, entities, acks, received, view, acksInFlight>>
  BY <1>1 DEF ServerTick, AdvanceTick
<1>4. PICK chosen :
        /\ \A c \in DOMAIN clients : chosen[c] \in [DOMAIN CandidatesOf(c) -> Choice]
        /\ graph' = [c \in DOMAIN clients |-> TickGraph(c, chosen[c])]
        /\ \A c \in DOMAIN clients : TickFor(c, chosen[c])
        /\ \A c \in Client \ DOMAIN clients : history'[c] = history[c] /\ sent'[c] = {}
  BY <1>1, TickPicks
<1>5. /\ inFlight' = [c \in Client |-> inFlight[c] \cup sent'[c]]
      /\ \A c \in Client : inFlight[c] = {}
  BY DEF ServerTick, Settled
<1>6. \A c \in Client : inFlight'[c] = sent'[c]
  BY <1>5
<1>7. DOMAIN inFlight' = Client /\ inFlight' = [c \in Client |-> inFlight'[c]]
  BY <1>5
<1>8. \A c \in Client \ DOMAIN clients : SentNothing(c)
  BY <1>4, <1>6 DEF SentNothing
<1>9. ASSUME NEW c \in DOMAIN clients
      PROVE  \/ DOMAIN TickOps(c, chosen[c]) = {} /\ SentNothing(c)
             \/ DOMAIN TickOps(c, chosen[c]) # {} /\ SentOne(c, chosen[c])
  <2>1. c \in Client /\ chosen[c] \in [DOMAIN CandidatesOf(c) -> Choice]
    BY <1>1, <1>4 DEF IInv, WorldInv
  <2>2. /\ inFlight'[c] = TickDeltas(c, chosen[c], tick + 1)
        /\ history'[c] = TickHistory(c, chosen[c], tick + 1)
    BY <1>4, <1>6, <2>1 DEF TickFor
  <2>3. CASE DOMAIN TickOps(c, chosen[c]) = {}
    BY <2>2, <2>3 DEF TickDeltas, TickHistory, SentNothing
  <2>4. CASE DOMAIN TickOps(c, chosen[c]) # {}
    <3>1. PICK d : d = [sequence |-> tick + 1, baseline |-> BaselineSequence(c),
                        ops |-> TickOps(c, chosen[c])]
      OBVIOUS
    <3>2. TickDeltas(c, chosen[c], tick + 1) = {d}
      BY <2>4, <3>1 DEF TickDeltas
    <3>3. /\ d \in Delta /\ d.sequence = tick + 1 /\ d.ops = TickOps(c, chosen[c])
          /\ history'[c] =
               HistoryInsert(history[c],
                             [sequence |-> tick + 1, contents |-> NextContents(c, chosen[c])],
                             HistoryCapacity)
      BY <1>1, <2>1, <2>2, <3>2, SentMeansFrame
    <3>4. /\ NextContents(c, chosen[c]) \in Contents
          /\ ApplyOps(BaselineContents(c), d.ops) = NextContents(c, chosen[c])
      BY <1>1, <2>1, <2>4, <3>3, NextContentsFacts, TickOpsMeanFrame
    <3>5. /\ history[c] \in Seq(Frame) /\ Len(history[c]) <= HistoryCapacity
          /\ HistoryCapacity \in Nat \ {0} /\ tick + 1 \in Nat
      BY <1>1, <2>1, ServerAssumption DEF IInv, SyncInv, HistoryIsOrdered
    <3>6. [sequence |-> tick + 1, contents |-> NextContents(c, chosen[c])] \in Frame
      BY <3>4, <3>5 DEF Frame
    <3>7. /\ LatestSequence(history'[c]) = tick + 1
          /\ LatestContents(history'[c]) = NextContents(c, chosen[c])
      BY <3>3, <3>5, <3>6, LatestInserted
    <3>8. SentOne(c, chosen[c])
      BY <2>2, <3>2, <3>3, <3>4, <3>7 DEF SentOne
    <3>9. QED BY <2>4, <3>8
  <2>5. QED BY <2>3, <2>4
<1>10. QED BY <1>2, <1>3, <1>4, <1>7, <1>8, <1>9

-------------------------------------------------------------------------------
(* The network invariant *)

LEMMA InitNetworkInv == SyncInit => NetworkInv
<1> SUFFICES ASSUME SyncInit PROVE NetworkInv
  OBVIOUS
<1>1. IInv
  BY InitIInv DEF SyncInit
<1>2. /\ view \in [Client -> Contents]
      /\ inFlight \in [Client -> SUBSET Delta]
      /\ acksInFlight \subseteq Client \X Nat
  BY EmptyContents DEF SyncInit
<1>3. ASSUME NEW c \in Client
      PROVE  AboutLatest(c)
  <2>1. inFlight[c] = {} /\ acksInFlight = {} /\ received[c] = NoSnapshot /\ acks[c] = NoSnapshot
    BY DEF SyncInit, Init
  <2>2. Latest(c) \in Nat
    BY <1>1, LatestContentsType DEF Latest, IInv
  <2>3. QED BY <2>1, <2>2 DEF AboutLatest, Quiet, Answered, NoSnapshot
<1>4. QED BY <1>1, <1>2, <1>3 DEF NetworkInv

\* Sessions and game code touch nothing of what is under way.
LEMMA SameNetwork ==
  ASSUME NetworkInv, IInv', view' \in [Client -> Contents],
         UNCHANGED <<history, acks, received, inFlight, acksInFlight>>,
         \A c \in Client \ DOMAIN clients' : Quiet(c)
  PROVE  NetworkInv'
<1>1. ASSUME NEW c \in Client PROVE AboutLatest(c)'
  BY DEF NetworkInv, AboutLatest, Quiet, Answered, Latest
<1>2. QED BY <1>1 DEF NetworkInv

LEMMA SettledIsQuiet ==
  ASSUME Settled PROVE \A c \in Client : Quiet(c)
BY DEF Settled, Quiet, Answered

LEMMA TickNetwork ==
  ASSUME NetworkInv, TicksWhenSettled
  PROVE  NetworkInv'
<1>1. Settled /\ ServerTick
  BY DEF TicksWhenSettled
<1>2. /\ IInv' /\ tick' = tick + 1
      /\ UNCHANGED <<clients, acks, received, view, acksInFlight>>
      /\ inFlight' = [c \in Client |-> inFlight'[c]]
      /\ \A c \in Client \ DOMAIN clients : SentNothing(c)
      /\ \E chosen : \A c \in DOMAIN clients : SentNothing(c) \/ SentOne(c, chosen[c])
  BY <1>1, TickOutcome
<1>3. PICK chosen : \A c \in DOMAIN clients : SentNothing(c) \/ SentOne(c, chosen[c])
  BY <1>2
<1>4. ASSUME NEW c \in Client
      PROVE  inFlight'[c] \subseteq Delta /\ AboutLatest(c)'
  <2>1. /\ acksInFlight = {} /\ received[c] = NoSnapshot /\ acks[c] <= Latest(c)
        /\ acks[c] \in Nat /\ tick \in Nat /\ Latest(c) \in 0..tick
    BY <1>1, LatestFrame, ServerAssumption
       DEF Settled, NetworkInv, AboutLatest, IInv, SyncInv
  <2>2. CASE SentNothing(c)
    BY <1>2, <2>1, <2>2 DEF SentNothing, AboutLatest, Quiet, Answered, Latest
  <2>3. CASE ~ SentNothing(c)
    <3>1. c \in DOMAIN clients /\ SentOne(c, chosen[c])
      BY <1>2, <1>3, <2>3
    <3>2. PICK d \in Delta : /\ inFlight'[c] = {d} /\ d.sequence = tick + 1
                             /\ LatestSequence(history'[c]) = tick + 1
      BY <3>1 DEF SentOne
    <3>3. Latest(c)' = tick + 1
      BY <3>2 DEF Latest
    <3>4. acks[c] <= tick + 1 /\ tick + 1 # 0
      BY <2>1
    <3>5. QED BY <1>2, <2>1, <3>1, <3>2, <3>3, <3>4 DEF AboutLatest, NoSnapshot
  <2>4. QED BY <2>2, <2>3
<1>5. QED BY <1>2, <1>4 DEF NetworkInv

\* What a delivery changes: the delta was the only one under way to c.
LEMMA DeliveryOf ==
  ASSUME NetworkInv, NEW c \in Client, NEW d \in inFlight[c], ApplySnapshot(c, d)
  PROVE  /\ d \in Delta /\ inFlight[c] = {d} /\ d.sequence = Latest(c) /\ Latest(c) # NoSnapshot
         /\ inFlight' \in [Client -> SUBSET Delta] /\ inFlight'[c] = {}
         /\ view' \in [Client -> Contents] /\ view'[c] = ApplyOps(view[c], d.ops)
         /\ \A b \in Client \ {c} : inFlight'[b] = inFlight[b] /\ view'[b] = view[b]
         /\ acksInFlight' = acksInFlight \cup {<<c, Latest(c)>>}
         /\ UNCHANGED vars
<1>1. /\ inFlight[c] \subseteq Delta /\ view[c] \in Contents
      /\ inFlight[c] = {d} /\ d.sequence = Latest(c) /\ Latest(c) # NoSnapshot
  BY DEF NetworkInv, AboutLatest
<1>2. ApplyOps(view[c], d.ops) \in Contents
  BY <1>1, ApplyOpsType DEF Delta
<1>3. view' \in [Client -> Contents] /\ view'[c] = ApplyOps(view[c], d.ops)
  BY <1>2 DEF ApplySnapshot, NetworkInv
<1>4. inFlight' \in [Client -> SUBSET Delta] /\ inFlight'[c] = {}
  BY <1>1 DEF ApplySnapshot, NetworkInv
<1>5. QED BY <1>1, <1>3, <1>4 DEF ApplySnapshot, NetworkInv

LEMMA DeliverNetwork ==
  ASSUME NetworkInv, NEW c \in Client, NEW d \in inFlight[c], ApplySnapshot(c, d)
  PROVE  NetworkInv'
<1>1. /\ d \in Delta /\ inFlight[c] = {d} /\ d.sequence = Latest(c) /\ Latest(c) # NoSnapshot
      /\ inFlight' \in [Client -> SUBSET Delta] /\ inFlight'[c] = {}
      /\ view' \in [Client -> Contents]
      /\ \A b \in Client \ {c} : inFlight'[b] = inFlight[b]
      /\ acksInFlight' = acksInFlight \cup {<<c, Latest(c)>>}
      /\ UNCHANGED vars
  BY DeliveryOf
<1>2. IInv'
  BY <1>1, StepIInv DEF NetworkInv
<1>3. Latest(c) \in Nat
  BY LatestContentsType DEF Latest, NetworkInv, IInv
<1>4. acksInFlight' \subseteq Client \X Nat
  BY <1>1, <1>3 DEF NetworkInv
<1>5. ASSUME NEW b \in Client PROVE AboutLatest(b)'
  <2>1. UNCHANGED <<clients, history, acks, received>> /\ Latest(b)' = Latest(b)
    BY <1>1 DEF vars, world, sync, transport, Latest
  <2>2. AboutLatest(b)
    BY DEF NetworkInv
  <2>3. CASE b = c
    <3>1. c \in DOMAIN clients
      BY <1>1, <2>2, <2>3 DEF AboutLatest, Quiet
    <3>2. QED BY <1>1, <2>1, <2>2, <2>3, <3>1 DEF AboutLatest
  <2>4. CASE b # c
    <3>1. inFlight'[b] = inFlight[b]
      BY <1>1, <2>4
    <3>2. \A m \in acksInFlight' : m[1] = b => m \in acksInFlight
      BY <1>1, <2>4
    <3>3. QED BY <2>1, <2>2, <3>1, <3>2 DEF AboutLatest, Quiet, Answered
  <2>5. QED BY <2>3, <2>4
<1>6. QED BY <1>1, <1>2, <1>4, <1>5 DEF NetworkInv

\* What the arrival of an acknowledgement changes.
LEMMA ArrivalOf ==
  ASSUME NetworkInv, NEW m \in acksInFlight, AckArrives(m)
  PROVE  /\ m[1] \in Client /\ m[2] = Latest(m[1]) /\ m[2] \in 1..tick /\ m[1] \in DOMAIN clients
         /\ ReceiveAck(m[1], m[2])
         /\ received' \in [Client -> Nat] /\ received'[m[1]] = Latest(m[1])
         /\ \A b \in Client \ {m[1]} : received'[b] = received[b]
         /\ acksInFlight' = acksInFlight \ {m}
         /\ UNCHANGED <<tick, world, sync, sent, view, inFlight>>
<1>1. m[1] \in Client /\ m[2] \in Nat /\ acksInFlight' = acksInFlight \ {m}
  BY DEF NetworkInv, AckArrives
<1>2. AboutLatest(m[1])
  BY <1>1 DEF NetworkInv
<1>3. m[2] = Latest(m[1]) /\ m[2] # NoSnapshot /\ received[m[1]] \in {NoSnapshot, m[2]}
  BY <1>2 DEF AboutLatest
<1>4. m[2] \in 1..tick
  <2>1. Latest(m[1]) \in 0..tick
    BY <1>1, LatestFrame DEF NetworkInv, IInv
  <2>2. tick \in Nat
    BY ServerAssumption DEF NetworkInv, IInv, SyncInv
  <2>3. QED BY <1>3, <2>1, <2>2 DEF NoSnapshot
<1>5. m[1] \in DOMAIN clients
  BY <1>1, <1>2 DEF AboutLatest, Quiet, Answered
<1>6. /\ received' = [received EXCEPT ![m[1]] = Ack(received[m[1]], m[2])]
      /\ UNCHANGED <<tick, world, sync, sent, view, inFlight>>
  BY DEF AckArrives, ReceiveAck
<1>7. Ack(received[m[1]], m[2]) = m[2]
  BY <1>1, <1>3, <1>4 DEF Ack, NoSnapshot
<1>8. received \in [Client -> Nat]
  BY DEF NetworkInv, IInv, SyncInv
<1>9. QED BY <1>1, <1>3, <1>4, <1>5, <1>6, <1>7, <1>8 DEF AckArrives

LEMMA AckNetwork ==
  ASSUME NetworkInv, NEW m \in acksInFlight, AckArrives(m)
  PROVE  NetworkInv'
<1>1. /\ m[1] \in Client /\ m[2] \in 1..tick /\ m[1] \in DOMAIN clients
      /\ ReceiveAck(m[1], m[2])
      /\ received' \in [Client -> Nat] /\ received'[m[1]] = Latest(m[1])
      /\ \A b \in Client \ {m[1]} : received'[b] = received[b]
      /\ acksInFlight' = acksInFlight \ {m}
      /\ UNCHANGED <<tick, world, sync, sent, view, inFlight>>
  BY ArrivalOf
<1>2. IInv'
  <2>1. tick \in 0..MaxTick
    BY DEF NetworkInv, IInv, SyncInv
  <2>2. m[2] \in 1..MaxTick
    BY <1>1, <2>1, ServerAssumption
  <2>3. Next
    BY <1>1, <2>2 DEF Next
  <2>4. QED BY <2>3, StepIInv DEF NetworkInv
<1>3. ASSUME NEW b \in Client PROVE AboutLatest(b)'
  <2>1. UNCHANGED <<clients, history, acks, inFlight>> /\ Latest(b)' = Latest(b)
    BY <1>1 DEF world, sync, Latest
  <2>2. AboutLatest(b) /\ received'[b] \in {received[b], Latest(b)}
    BY <1>1 DEF NetworkInv
  <2>3. b \notin DOMAIN clients => Quiet(b)'
    BY <1>1, <2>1, <2>2 DEF AboutLatest, Quiet, Answered
  <2>4. QED BY <1>1, <2>1, <2>2, <2>3 DEF AboutLatest
<1>4. QED BY <1>1, <1>2, <1>3 DEF NetworkInv

\* What pumping changes: the acknowledgements received are taken over.
LEMMA PumpOf ==
  ASSUME NetworkInv, Pump
  PROVE  /\ IInv'
         /\ UNCHANGED <<tick, world, history, sent, view, inFlight, acksInFlight>>
         /\ \A c \in Client :
              /\ received'[c] = NoSnapshot
              /\ acks'[c] = IF received[c] = NoSnapshot THEN acks[c] ELSE Latest(c)
<1>1. PumpTransport /\ UNCHANGED <<tick, world, history, sent, view, inFlight, acksInFlight>>
  BY DEF Pump, PumpTransport, network
<1>2. IInv'
  BY <1>1, StepIInv DEF NetworkInv, Next
<1>3. ASSUME NEW c \in Client
      PROVE  acks'[c] = IF received[c] = NoSnapshot THEN acks[c] ELSE Latest(c)
  <2>1. acks'[c] = IF c \in DOMAIN clients THEN Ack(acks[c], received[c]) ELSE acks[c]
    BY <1>1 DEF PumpTransport
  <2>2. /\ received[c] \in {NoSnapshot, Latest(c)} /\ acks[c] <= Latest(c)
        /\ c \notin DOMAIN clients => received[c] = NoSnapshot
    BY DEF NetworkInv, AboutLatest, Quiet, Answered
  <2>3. acks[c] \in Nat /\ Latest(c) \in Nat
    BY LatestContentsType DEF NetworkInv, IInv, SyncInv, Latest
  <2>4. QED BY <2>1, <2>2, <2>3 DEF Ack, NoSnapshot
<1>4. \A c \in Client : received'[c] = NoSnapshot
  BY <1>1 DEF PumpTransport
<1>5. QED BY <1>1, <1>2, <1>3, <1>4

LEMMA PumpNetwork ==
  ASSUME NetworkInv, Pump
  PROVE  NetworkInv'
<1>1. ASSUME NEW c \in Client PROVE AboutLatest(c)'
  <2>1. /\ Latest(c)' = Latest(c) /\ UNCHANGED <<clients, inFlight, acksInFlight>>
        /\ received'[c] = NoSnapshot /\ acks'[c] \in {acks[c], Latest(c)}
    BY PumpOf DEF Latest, world
  <2>2. AboutLatest(c) /\ Latest(c) \in Nat
    BY LatestContentsType DEF NetworkInv, IInv, Latest
  <2>3. QED BY <2>1, <2>2 DEF AboutLatest, Quiet, Answered
<1>2. QED BY <1>1, PumpOf DEF NetworkInv

LEMMA StepNetwork == NetworkInv /\ [Step]_allVars => NetworkInv'
<1> SUFFICES ASSUME NetworkInv, [Step]_allVars PROVE NetworkInv'
  OBVIOUS
<1>1. /\ IInv /\ view \in [Client -> Contents]
      /\ \A c \in Client \ DOMAIN clients : Quiet(c)
  BY DEF NetworkInv, AboutLatest
<1>2. ASSUME GameStep, UNCHANGED <<view, network>> PROVE NetworkInv'
  <2>1. IInv'
    BY <1>1, <1>2, StepIInv DEF Next
  <2>2. UNCHANGED <<clients, history, acks, received, view, inFlight, acksInFlight>>
    BY <1>2 DEF GameStep, EntityStep, SpawnEntity, SpawnEntityWithLodPayloads, DespawnEntity,
                MoveEntity, SetEntityPayload, SetEntityLodPayloads, MoveEntityWithLodPayloads,
                SetEntityLod, UpsertEntity, sync, transport, network
  <2>3. QED BY <1>1, <2>1, <2>2, SameNetwork
<1>3. CASE Games
  BY <1>2, <1>3 DEF Games, Game, GameStep
<1>4. CASE Despawns
  BY <1>2, <1>4 DEF Despawns, Despawn, GameStep
<1>5. ASSUME NEW c \in Client, NEW p \in Position, Walk(c, p) PROVE NetworkInv'
  <2>1. IInv'
    BY <1>1, <1>5, StepIInv DEF Walk, Next, SessionStep
  <2>2. /\ UNCHANGED <<history, acks, received, view, inFlight, acksInFlight>>
        /\ DOMAIN clients' = DOMAIN clients
    BY <1>5 DEF Walk, UpdateClientPosition, sync, transport, network
  <2>3. QED BY <1>1, <2>1, <2>2, SameNetwork
<1>6. CASE TicksWhenSettled
  BY <1>6, TickNetwork
<1>7. CASE Delivers
  BY <1>7, DeliverNetwork DEF Delivers
<1>8. CASE Acks
  BY <1>8, AckNetwork DEF Acks
<1>9. CASE Pump
  BY <1>9, PumpNetwork
<1>10. ASSUME NEW c \in Client, NEW p \in Position, Join(c, p) PROVE NetworkInv'
  <2>1. IInv'
    BY <1>1, <1>10, StepIInv DEF Join, Next, SessionStep
  <2>2. /\ UNCHANGED <<history, acks, received, inFlight, acksInFlight>>
        /\ view' \in [Client -> Contents] /\ DOMAIN clients \subseteq DOMAIN clients'
    BY <1>1, <1>10, EmptyContents DEF Join, ConnectClient, sync, transport, network
  <2>3. QED BY <1>1, <2>1, <2>2, SameNetwork
<1>11. ASSUME Settled, NEW c \in Client, Leave(c) PROVE NetworkInv'
  <2>1. IInv'
    BY <1>1, <1>11, StepIInv DEF Leave, Next, SessionStep
  <2>2. UNCHANGED <<history, acks, received, view, inFlight, acksInFlight>>
    BY <1>11 DEF Leave, DisconnectClient, sync, transport, network
  <2>3. QED BY <1>1, <1>11, <2>1, <2>2, SameNetwork, SettledIsQuiet
<1>12. ASSUME NEW c \in Client, NEW d \in inFlight[c], Lose(c, d) PROVE NetworkInv'
  <2>1. UNCHANGED <<vars, view, acksInFlight>> /\ inFlight' = [inFlight EXCEPT ![c] = @ \ {d}]
    BY <1>12 DEF Lose
  <2>2. IInv'
    BY <1>1, <2>1, StepIInv
  <2>3. inFlight' \in [Client -> SUBSET Delta] /\ \A b \in Client : inFlight'[b] \subseteq inFlight[b]
    BY <2>1 DEF NetworkInv
  <2>4. ASSUME NEW b \in Client PROVE AboutLatest(b)'
    <3>1. UNCHANGED <<clients, history, acks, received, acksInFlight>> /\ Latest(b)' = Latest(b)
      BY <2>1 DEF vars, world, sync, transport, Latest
    <3>2. AboutLatest(b) /\ inFlight'[b] \subseteq inFlight[b]
      BY <2>3 DEF NetworkInv
    <3>3. QED BY <3>1, <3>2 DEF AboutLatest, Quiet, Answered
  <2>5. QED BY <2>1, <2>2, <2>3, <2>4 DEF NetworkInv
<1>13. CASE UNCHANGED allVars
  <2>1. UNCHANGED <<vars, view, inFlight, acksInFlight>>
    BY <1>13 DEF allVars, network
  <2>2. IInv' /\ UNCHANGED <<clients, history, acks, received>>
    BY <1>1, <2>1, StepIInv DEF vars, world, sync, transport
  <2>3. QED BY <1>1, <2>1, <2>2, SameNetwork
<1>14. QED
  BY <1>3, <1>4, <1>5, <1>6, <1>7, <1>8, <1>9, <1>10, <1>11, <1>12, <1>13
     DEF Step, Walks, Joins, Leaves, Loses

-------------------------------------------------------------------------------
(* Deltas may be lost *)

(* Once c has applied the newest delta it shows the newest frame; until then  *)
(* it shows the frame it last acknowledged, if that is still kept, or nothing *)
(* before its first, and the delta under way takes it to the newest.  With    *)
(* nothing under way the frame acknowledged has not been evicted.             *)
ShowsFrame(c) ==
  /\ Answered(c) => view[c] = LatestContents(history[c])
  /\ \A d \in inFlight[c] : ApplyOps(view[c], d.ops) = LatestContents(history[c])
  /\ ~ Answered(c) =>
       /\ acks[c] = NoSnapshot => view[c] = NoContents
       /\ acks[c] \in HistorySequences(history[c]) =>
            view[c] = HistoryGet(history[c], acks[c]).contents
  /\ Quiet(c) => acks[c] \in {NoSnapshot} \cup HistorySequences(history[c])

\* A client that never connected has no history.
NewToServer(c) == history[c] = <<>> /\ acks[c] = NoSnapshot

LossyInv ==
  /\ NetworkInv
  /\ \A c \in Client : IF c \in DOMAIN clients THEN ShowsFrame(c) ELSE NewToServer(c)

LEMMA InitLossy == SyncInit => LossyInv
BY InitNetworkInv DEF SyncInit, Init, LossyInv, NewToServer

\* A tick's operations start from what a settled client shows.
LEMMA SettledBaseline ==
  ASSUME LossyInv, NEW c \in DOMAIN clients, Quiet(c)
  PROVE  view[c] = BaselineContents(c)
<1>1. c \in Client /\ SyncInv
  BY DEF LossyInv, NetworkInv, IInv, WorldInv
<1>2. ShowsFrame(c) /\ ~ Answered(c)
  BY <1>1 DEF LossyInv, Quiet
<1>3. NoSnapshot \notin HistorySequences(history[c])
  BY <1>1, LatestFrame DEF NoSnapshot
<1>4. QED BY <1>2, <1>3 DEF ShowsFrame, BaselineContents, BaselineSequence

\* The frame acknowledged is the same after a tick, if it is still kept.
LEMMA AckedFrameKept ==
  ASSUME NetworkInv, IInv', tick' = tick + 1, NEW c \in DOMAIN clients, NEW chosen, SentOne(c, chosen),
         chosen \in [DOMAIN CandidatesOf(c) -> Choice],
         acks[c] \in HistorySequences(history'[c])
  PROVE  /\ acks[c] \in HistorySequences(history[c])
         /\ HistoryGet(history'[c], acks[c]) = HistoryGet(history[c], acks[c])
<1> DEFINE frame == [sequence |-> tick + 1, contents |-> NextContents(c, chosen)]
<1>1. c \in Client
  BY DEF NetworkInv, IInv, WorldInv
<1>2. /\ history[c] \in Seq(Frame) /\ Len(history[c]) <= HistoryCapacity
      /\ HistoryCapacity \in Nat \ {0} /\ tick \in Nat /\ acks[c] \in Nat
      /\ Ordered(history[c]) /\ Ordered(history'[c])
  BY <1>1, ServerAssumption DEF NetworkInv, IInv, SyncInv, HistoryIsOrdered, Ordered
<1>3. acks[c] # tick + 1
  <2>1. acks[c] <= Latest(c) /\ Latest(c) \in 0..tick
    BY <1>1, LatestFrame DEF NetworkInv, AboutLatest, IInv
  <2>2. QED BY <1>2, <2>1
<1>4. frame \in Frame /\ frame.sequence = tick + 1
  <2>1. NextContents(c, chosen) \in Contents
    BY NextContentsFacts DEF NetworkInv
  <2>2. QED BY <1>2, <2>1 DEF Frame
<1>5. history'[c] = HistoryInsert(history[c], frame, HistoryCapacity)
  BY DEF SentOne
<1> HIDE DEF frame
<1>6. QED BY <1>2, <1>3, <1>4, <1>5, HistoryGetKept

LEMMA TickLossy ==
  ASSUME LossyInv, TicksWhenSettled
  PROVE  LossyInv'
<1>1. NetworkInv /\ Settled /\ ServerTick /\ NetworkInv'
  BY TickNetwork DEF LossyInv, TicksWhenSettled
<1>2. /\ IInv' /\ tick' = tick + 1
      /\ UNCHANGED <<clients, acks, received, view, acksInFlight>>
      /\ \A c \in Client \ DOMAIN clients : SentNothing(c)
  BY <1>1, TickOutcome
<1>3. PICK chosen : \A c \in DOMAIN clients :
        /\ chosen[c] \in [DOMAIN CandidatesOf(c) -> Choice]
        /\ SentNothing(c) \/ SentOne(c, chosen[c])
  BY <1>1, TickOutcome
<1>4. \A c \in Client : Quiet(c)
  BY <1>1, SettledIsQuiet
<1>5. ASSUME NEW c \in Client, c \notin DOMAIN clients PROVE NewToServer(c)'
  BY <1>2, <1>5 DEF SentNothing, NewToServer, LossyInv
<1>6. ASSUME NEW c \in Client, c \in DOMAIN clients PROVE ShowsFrame(c)'
  <2>1. ShowsFrame(c) /\ ~ Answered(c) /\ ~ Answered(c)' /\ inFlight[c] = {}
    BY <1>2, <1>4, <1>6 DEF LossyInv, Quiet, Answered
  <2>2. CASE SentNothing(c)
    BY <1>2, <2>1, <2>2 DEF SentNothing, ShowsFrame, Quiet
  <2>3. CASE ~ SentNothing(c)
    <3>1. SentOne(c, chosen[c]) /\ chosen[c] \in [DOMAIN CandidatesOf(c) -> Choice]
      BY <1>3, <1>6, <2>3
    <3>2. PICK d \in Delta :
            /\ inFlight'[c] = {d}
            /\ LatestContents(history'[c]) = NextContents(c, chosen[c])
            /\ ApplyOps(BaselineContents(c), d.ops) = NextContents(c, chosen[c])
      BY <3>1 DEF SentOne
    <3>3. view[c] = BaselineContents(c)
      BY <1>4, <1>6, SettledBaseline
    <3>4. acks[c] \in HistorySequences(history'[c]) =>
            view[c] = HistoryGet(history'[c], acks[c]).contents
      BY <1>1, <1>2, <1>6, <2>1, <3>1, AckedFrameKept DEF ShowsFrame
    <3>5. acks[c] = NoSnapshot => view[c] = NoContents
      BY <2>1 DEF ShowsFrame
    <3>6. /\ acks'[c] = acks[c] /\ view'[c] = view[c]
          /\ \A other \in inFlight'[c] : ApplyOps(view[c], other.ops) = LatestContents(history'[c])
          /\ ~ Quiet(c)'
      BY <1>2, <3>2, <3>3 DEF Quiet
    <3>7. QED BY <2>1, <3>4, <3>5, <3>6 DEF ShowsFrame
  <2>4. QED BY <2>2, <2>3
<1>7. QED BY <1>1, <1>2, <1>5, <1>6 DEF LossyInv

LEMMA DeliverLossy ==
  ASSUME LossyInv, NEW c \in Client, NEW d \in inFlight[c], ApplySnapshot(c, d)
  PROVE  LossyInv'
<1>1. NetworkInv /\ NetworkInv'
  BY DeliverNetwork DEF LossyInv
<1>2. /\ inFlight[c] = {d} /\ inFlight'[c] = {} /\ view'[c] = ApplyOps(view[c], d.ops)
      /\ \A b \in Client \ {c} : inFlight'[b] = inFlight[b] /\ view'[b] = view[b]
      /\ acksInFlight' = acksInFlight \cup {<<c, Latest(c)>>}
      /\ UNCHANGED <<clients, history, acks, received>>
  BY <1>1, DeliveryOf DEF vars, world, sync, transport
<1>3. ASSUME NEW b \in Client, b \in DOMAIN clients PROVE ShowsFrame(b)'
  <2>1. ShowsFrame(b)
    BY <1>3 DEF LossyInv
  <2>2. CASE b = c
    <3>1. Answered(c)' /\ ~ Quiet(c)'
      <4>1. <<c, Latest(c)>> \in acksInFlight' /\ <<c, Latest(c)>>[1] = c
        BY <1>2
      <4>2. QED BY <4>1 DEF Answered, Quiet
    <3>2. view'[c] = LatestContents(history[c])
      BY <1>2, <2>1, <2>2 DEF ShowsFrame
    <3>3. QED BY <1>2, <2>2, <3>1, <3>2 DEF ShowsFrame
  <2>3. CASE b # c
    <3>1. Answered(b)' <=> Answered(b)
      BY <1>2, <2>3 DEF Answered
    <3>2. inFlight'[b] = inFlight[b] /\ view'[b] = view[b]
      BY <1>2, <2>3
    <3>3. QED BY <1>2, <2>1, <3>1, <3>2 DEF ShowsFrame, Quiet
  <2>4. QED BY <2>2, <2>3
<1>4. ASSUME NEW b \in Client, b \notin DOMAIN clients PROVE NewToServer(b)'
  BY <1>2, <1>4 DEF LossyInv, NewToServer
<1>5. QED BY <1>1, <1>2, <1>3, <1>4 DEF LossyInv

LEMMA AckLossy ==
  ASSUME LossyInv, NEW m \in acksInFlight, AckArrives(m)
  PROVE  LossyInv'
<1>1. NetworkInv /\ NetworkInv'
  BY AckNetwork DEF LossyInv
<1>2. /\ m[1] \in Client /\ m[2] = Latest(m[1]) /\ m[2] \in 1..tick
      /\ received'[m[1]] = Latest(m[1])
      /\ \A b \in Client \ {m[1]} : received'[b] = received[b]
      /\ acksInFlight' = acksInFlight \ {m}
      /\ UNCHANGED <<clients, history, acks, view, inFlight>>
  BY <1>1, ArrivalOf DEF world, sync
<1>3. m[2] # NoSnapshot
  BY <1>2 DEF NoSnapshot
<1>4. \A b \in Client : Answered(b)' <=> Answered(b)
  <2>1. Answered(m[1]) /\ Answered(m[1])'
    BY <1>2, <1>3 DEF Answered
  <2>2. \A b \in Client \ {m[1]} : Answered(b)' <=> Answered(b)
    BY <1>2 DEF Answered
  <2>3. QED BY <2>1, <2>2
<1>5. ASSUME NEW b \in Client
      PROVE  (IF b \in DOMAIN clients THEN ShowsFrame(b) ELSE NewToServer(b))'
  BY <1>2, <1>4 DEF LossyInv, ShowsFrame, NewToServer, Quiet
<1>6. QED BY <1>1, <1>5 DEF LossyInv

LEMMA PumpLossy ==
  ASSUME LossyInv, Pump
  PROVE  LossyInv'
<1>1. NetworkInv /\ NetworkInv'
  BY PumpNetwork DEF LossyInv
<1>2. /\ UNCHANGED <<clients, history, view, inFlight, acksInFlight>>
      /\ \A c \in Client : /\ received'[c] = NoSnapshot
                           /\ acks'[c] = IF received[c] = NoSnapshot THEN acks[c] ELSE Latest(c)
  BY <1>1, PumpOf DEF world
<1>3. ASSUME NEW c \in Client, c \notin DOMAIN clients PROVE NewToServer(c)'
  <2>1. received[c] = NoSnapshot
    BY <1>1, <1>3 DEF NetworkInv, AboutLatest, Quiet, Answered
  <2>2. QED BY <1>2, <1>3, <2>1 DEF LossyInv, NewToServer
<1>4. ASSUME NEW c \in Client, c \in DOMAIN clients PROVE ShowsFrame(c)'
  <2>1. ShowsFrame(c)
    BY <1>4 DEF LossyInv
  <2>2. CASE received[c] = NoSnapshot
    <3>1. (Answered(c)' <=> Answered(c)) /\ acks'[c] = acks[c]
      BY <1>2, <2>2 DEF Answered
    <3>2. QED BY <1>2, <2>1, <3>1 DEF ShowsFrame, Quiet
  <2>3. CASE received[c] # NoSnapshot
    <3>1. Latest(c) # NoSnapshot
      BY <1>1, <2>3 DEF NetworkInv, AboutLatest
    <3>2. /\ Latest(c) \in HistorySequences(history[c])
          /\ HistoryGet(history[c], Latest(c)).contents = LatestContents(history[c])
      BY <1>1, <3>1, LatestFrame DEF NetworkInv, IInv
    <3>3. view[c] = LatestContents(history[c]) /\ acks'[c] = Latest(c)
      BY <1>2, <2>1, <2>3 DEF ShowsFrame, Answered
    <3>4. QED BY <1>2, <2>1, <3>1, <3>2, <3>3 DEF ShowsFrame
  <2>4. QED BY <2>2, <2>3
<1>5. QED BY <1>1, <1>2, <1>3, <1>4 DEF LossyInv

\* Game code and movements change nothing that a client's frames depend on.
LEMMA SameFrames ==
  ASSUME LossyInv, NetworkInv', DOMAIN clients' = DOMAIN clients,
         UNCHANGED <<history, acks, received, view, inFlight, acksInFlight>>
  PROVE  LossyInv'
BY DEF LossyInv, ShowsFrame, NewToServer, Quiet, Answered

LEMMA JoinLossy ==
  ASSUME LossyInv, NEW c \in Client, NEW p \in Position, Settled, Join(c, p), NetworkInv'
  PROVE  LossyInv'
<1>1. /\ c \notin DOMAIN clients /\ DOMAIN clients' = DOMAIN clients \cup {c}
      /\ UNCHANGED <<history, acks, received, inFlight, acksInFlight>>
      /\ view' = [view EXCEPT ![c] = NoContents]
  BY DEF Join, ConnectClient, sync, transport, network
<1>2. view'[c] = NoContents /\ \A b \in Client \ {c} : view'[b] = view[b]
  BY <1>1 DEF LossyInv, NetworkInv
<1>3. \A b \in Client : Quiet(b)
  BY SettledIsQuiet
<1>4. ShowsFrame(c)'
  <2>1. NewToServer(c) /\ Quiet(c)'
    BY <1>1, <1>3 DEF LossyInv, Quiet, Answered
  <2>2. acks'[c] = NoSnapshot /\ HistorySequences(history'[c]) = {}
    BY <1>1, <2>1 DEF NewToServer, HistorySequences
  <2>3. QED BY <1>2, <2>1, <2>2 DEF ShowsFrame, Quiet
<1>5. ASSUME NEW b \in Client \ {c}
      PROVE  (IF b \in DOMAIN clients THEN ShowsFrame(b) ELSE NewToServer(b))'
  BY <1>1, <1>2 DEF LossyInv, ShowsFrame, NewToServer, Quiet, Answered
<1>6. QED BY <1>1, <1>4, <1>5 DEF LossyInv

LEMMA LoseLossy ==
  ASSUME LossyInv, NEW c \in Client, NEW d \in inFlight[c], Lose(c, d), NetworkInv',
         acks[c] \in {NoSnapshot} \cup HistorySequences(history[c])
  PROVE  LossyInv'
<1>1. /\ UNCHANGED <<clients, history, acks, received, view, acksInFlight>>
      /\ inFlight' = [inFlight EXCEPT ![c] = @ \ {d}]
  BY DEF Lose, vars, world, sync, transport
<1>2. inFlight'[c] \subseteq inFlight[c] /\ \A b \in Client \ {c} : inFlight'[b] = inFlight[b]
  BY <1>1 DEF LossyInv, NetworkInv
<1>3. ASSUME NEW b \in Client
      PROVE  (IF b \in DOMAIN clients THEN ShowsFrame(b) ELSE NewToServer(b))'
  <2>1. CASE b = c
    BY <1>1, <1>2, <2>1 DEF LossyInv, ShowsFrame, NewToServer, Answered
  <2>2. CASE b # c
    BY <1>1, <1>2, <2>2 DEF LossyInv, ShowsFrame, NewToServer, Quiet, Answered
  <2>3. QED BY <2>1, <2>2
<1>4. QED BY <1>3 DEF LossyInv

LEMMA StepLossy == LossyInv /\ [LossyNext]_allVars => LossyInv'
<1> SUFFICES ASSUME LossyInv, [LossyNext]_allVars PROVE LossyInv'
  OBVIOUS
<1>1. NetworkInv'
  BY EnvironmentSteps, StepNetwork DEF LossyInv
<1>2. ASSUME GameStep, UNCHANGED <<view, network>> PROVE LossyInv'
  <2>1. UNCHANGED <<clients, history, acks, received, view, inFlight, acksInFlight>>
    BY <1>2 DEF GameStep, EntityStep, SpawnEntity, SpawnEntityWithLodPayloads, DespawnEntity,
                MoveEntity, SetEntityPayload, SetEntityLodPayloads, MoveEntityWithLodPayloads,
                SetEntityLod, UpsertEntity, sync, transport, network
  <2>2. QED BY <1>1, <2>1, SameFrames
<1>3. CASE Games \/ Despawns
  BY <1>2, <1>3 DEF Games, Game, Despawns, Despawn, GameStep
<1>4. CASE Walks
  <2>1. /\ UNCHANGED <<history, acks, received, view, inFlight, acksInFlight>>
        /\ DOMAIN clients' = DOMAIN clients
    BY <1>4 DEF Walks, Walk, UpdateClientPosition, sync, transport, network
  <2>2. QED BY <1>1, <2>1, SameFrames
<1>5. CASE TicksWhenSettled
  BY <1>5, TickLossy
<1>6. CASE Delivers
  BY <1>6, DeliverLossy DEF Delivers
<1>7. CASE Acks
  BY <1>7, AckLossy DEF Acks
<1>8. CASE Pump
  BY <1>8, PumpLossy
<1>9. CASE Joins
  BY <1>1, <1>9, JoinLossy DEF Joins
<1>10. CASE Loses
  BY <1>1, <1>10, LoseLossy DEF Loses
<1>11. CASE UNCHANGED allVars
  <2>1. UNCHANGED <<clients, history, acks, received, view, inFlight, acksInFlight>>
    BY <1>11 DEF allVars, vars, world, sync, transport, network
  <2>2. QED BY <1>1, <2>1, SameFrames
<1>12. QED
  BY <1>3, <1>4, <1>5, <1>6, <1>7, <1>8, <1>9, <1>10, <1>11 DEF LossyNext

THEOREM LossyInvariant == LossySpec => []LossyInv
BY InitLossy, StepLossy, PTL DEF LossySpec

(* Whatever deltas are lost, a connected client shows entity for entity the   *)
(* frame it has acknowledged last, as long as the server keeps that frame:    *)
(* the baseline the server computes the next delta from is what the client    *)
(* will apply it to.                                                          *)
THEOREM AckedFrameIsShown == LossySpec => []ViewIsAckedFrame
<1>1. LossyInv => ViewIsAckedFrame
  <2>1. SUFFICES ASSUME LossyInv, Settled, NEW c \in DOMAIN clients,
                        acks[c] \in HistorySequences(history[c])
                 PROVE  view[c] = HistoryGet(history[c], acks[c]).contents
    BY DEF ViewIsAckedFrame
  <2>2. c \in Client
    BY <2>1 DEF LossyInv, NetworkInv, IInv, WorldInv
  <2>3. ShowsFrame(c) /\ ~ Answered(c)
    BY <2>1, <2>2, SettledIsQuiet DEF LossyInv, Quiet
  <2>4. QED BY <2>1, <2>3 DEF ShowsFrame
<1>2. QED BY <1>1, LossyInvariant, PTL

-------------------------------------------------------------------------------
(* Sessions: all arrives before the next tick *)

\* What the client would have to show: v has all that was delivered, and what
\* it has is in the client's view.
Agrees(c, v) ==
  /\ DOMAIN v \subseteq graph[c].visible
  /\ \A e \in Delivered(c) : e \in DOMAIN v /\ v[e] = DeliveredPayload(c, e)

\* That is what the client shows, or will once the delta under way is there.
WillAgree(c) ==
  /\ inFlight[c] = {} => Agrees(c, view[c])
  /\ \A d \in inFlight[c] : Agrees(c, ApplyOps(view[c], d.ops))

\* What the newest frame has of entities out of the client's view, left over
\* from an earlier session, is in the baseline as well.
OutsideIsKnown(c) ==
  \A e \in DOMAIN LatestContents(history[c]) \ graph[c].visible :
    /\ e \in DOMAIN BaselineContents(c)
    /\ BaselineContents(c)[e] = LatestContents(history[c])[e]

SessionInv ==
  /\ NetworkInv
  /\ \A c \in Client : Quiet(c) => acks[c] = Latest(c)
  /\ \A c \in DOMAIN clients : WillAgree(c)
  /\ HistoryCapacity > 1 => \A c \in DOMAIN clients : OutsideIsKnown(c)

LEMMA InitSession == SyncInit => SessionInv
BY InitNetworkInv DEF SyncInit, Init, SessionInv, Latest, LatestSequence, NoSnapshot

\* With the newest frame acknowledged, deltas are direct.
LEMMA AckedLatest ==
  ASSUME SyncInv, NEW c \in Client, acks[c] = Latest(c)
  PROVE  CanBuildDirectDelta(c) /\ BaselineContents(c) = LatestContents(history[c])
<1>1. BaselineSequence(c) = Latest(c)
  BY LatestFrame DEF BaselineSequence
<1>2. CanBuildDirectDelta(c)
  BY <1>1 DEF CanBuildDirectDelta, Latest
<1>3. QED BY <1>2, BaselineFacts

LEMMA AckedLatestKnown ==
  \A c \in Client : SyncInv /\ acks[c] = Latest(c) => OutsideIsKnown(c)
BY AckedLatest DEF OutsideIsKnown

LEMMA AckedLatestKnownNext ==
  (\A c \in Client : SyncInv /\ acks[c] = Latest(c) => OutsideIsKnown(c))'
BY AckedLatestKnown, PTL

-------------------------------------------------------------------------------
(* The tick *)

\* w is v with the updates and without the exits of a tick.
Follows(c, chosen, v, w) ==
  /\ DOMAIN w = (DOMAIN v \ Exited(c)) \cup Updated(chosen)
  /\ \A e \in DOMAIN w : w[e] = IF e \in Updated(chosen) THEN PayloadForLod(chosen, e) ELSE v[e]

LEMMA DirectFollows ==
  ASSUME IInv, NEW c \in DOMAIN clients, NEW chosen \in [DOMAIN CandidatesOf(c) -> Choice],
         CanBuildDirectDelta(c), NEW v
  PROVE  /\ DOMAIN TickOps(c, chosen) # {} =>
              Follows(c, chosen, v, ApplyOps(v, TickOps(c, chosen)))
         /\ DOMAIN TickOps(c, chosen) = {} => Follows(c, chosen, v, v)
<1> DEFINE ops == DirectOps(c, chosen)
<1>1. Updated(chosen) \cap Exited(c) = {}
  BY TickParts
<1>2. DOMAIN ops = Updated(chosen) \cup Exited(c)
  BY DEF DirectOps
<1>3. \A e \in Exited(c) : ops[e] = DespawnOrExit
  BY <1>1 DEF DirectOps
<1>4. \A e \in Updated(chosen) :
        ops[e] \in {SpawnOrEnter(PayloadForLod(chosen, e)), Update(PayloadForLod(chosen, e))}
  BY <1>1 DEF DirectOps
<1>5. CASE Updated(chosen) = {} /\ Exited(c) = {}
  <2>1. TickOps(c, chosen) = NoContents
    BY <1>5 DEF TickOps
  <2>2. Follows(c, chosen, v, v)
    BY <1>5 DEF Follows
  <2>3. QED BY <2>1, <2>2, EmptyContents
<1>6. CASE ~ (Updated(chosen) = {} /\ Exited(c) = {})
  <2>1. TickOps(c, chosen) = ops /\ DOMAIN ops # {}
    BY <1>2, <1>6 DEF TickOps
  <2> HIDE DEF ops
  <2>2. Removed(ops) = Exited(c) /\ Written(ops) = Updated(chosen)
    <3>1. \A e \in Updated(chosen) : ops[e].op # "DespawnOrExit"
      BY <1>4, OpKinds
    <3>2. \A e \in Exited(c) : ops[e].op = "DespawnOrExit"
      BY <1>3, OpKinds
    <3>3. Removed(ops) = Exited(c)
      BY <1>2, <3>1, <3>2 DEF Removed
    <3>4. QED BY <1>1, <1>2, <3>3 DEF Written
  <2>3. \A e \in Updated(chosen) : ops[e].payload = PayloadForLod(chosen, e)
    BY <1>4, OpKinds
  <2>4. DOMAIN ApplyOps(v, ops) = (DOMAIN v \ Exited(c)) \cup Updated(chosen)
    BY <1>1, <2>2 DEF ApplyOps
  <2>5. \A e \in DOMAIN ApplyOps(v, ops) :
          ApplyOps(v, ops)[e] = IF e \in DOMAIN ops THEN ops[e].payload ELSE v[e]
    BY DEF ApplyOps
  <2>6. \A e \in DOMAIN ApplyOps(v, ops) : e \in DOMAIN ops <=> e \in Updated(chosen)
    BY <1>1, <1>2, <2>4
  <2>7. Follows(c, chosen, v, ApplyOps(v, ops))
    BY <2>3, <2>4, <2>5, <2>6 DEF Follows
  <2>8. QED BY <2>1, <2>7
<1>7. QED BY <1>5, <1>6

\* What a tick takes for delivered was sent with it or delivered before.
LEMMA TickAgrees ==
  ASSUME IInv, NEW c \in DOMAIN clients, NEW chosen \in [DOMAIN CandidatesOf(c) -> Choice],
         UNCHANGED entities, graph'[c] = TickGraph(c, chosen),
         NEW v, Agrees(c, v), NEW w, Follows(c, chosen, v, w)
  PROVE  Agrees(c, w)'
<1> DEFINE after == AfterSelection(Seen(c).known, CandidatesOf(c), chosen)
<1>1. /\ graph'[c].visible = InInterest(c) /\ graph'[c].known = after
  BY DEF TickGraph
<1>2. /\ Updated(chosen) \subseteq InInterest(c) /\ InInterest(c) \subseteq Entity
      /\ Updated(chosen) \cap Exited(c) = {}
  BY TickParts
<1>3. DOMAIN w \subseteq graph'[c].visible
  BY <1>1, <1>2 DEF Follows, Agrees, Exited
<1>4. Sound(graph[c])
  BY GraphIsSound DEF IInv, WorldInv
<1>5. ASSUME NEW e \in InInterest(c), after[e].freshness = "current"
      PROVE  e \in DOMAIN w /\ w[e] = entities[e].payloads[after[e].lod]
  <2>1. after[e] = IF e \notin DOMAIN CandidatesOf(c) THEN Seen(c).known[e]
                   ELSE IF chosen[e] = Deferred
                     THEN [Seen(c).known[e] EXCEPT !.score = CandidatesOf(c)[e].score]
                   ELSE [freshness |-> "current", lod |-> chosen[e], score |-> 0]
    BY <1>2 DEF AfterSelection
  <2>2. CASE e \in Updated(chosen)
    <3>1. e \in DOMAIN CandidatesOf(c) /\ chosen[e] # Deferred
      BY <2>2 DEF Updated
    <3>2. after[e].lod = chosen[e]
      BY <2>1, <3>1
    <3>3. e \in DOMAIN w /\ w[e] = PayloadForLod(chosen, e)
      BY <2>2 DEF Follows
    <3>4. QED BY <3>2, <3>3 DEF PayloadForLod
  <2>3. CASE e \notin Updated(chosen)
    <3>1. e \notin DOMAIN CandidatesOf(c) \/ chosen[e] = Deferred
      BY <2>3 DEF Updated
    <3>2. Seen(c).known[e] = graph[c].known[e] /\ graph[c].known[e] \in Known
      BY <1>2, <1>4 DEF Seen, WithVisible, Sound, ClientState
    <3>3. /\ after[e].freshness = graph[c].known[e].freshness
          /\ after[e].lod = graph[c].known[e].lod
      <4>1. CASE e \notin DOMAIN CandidatesOf(c)
        BY <2>1, <3>2, <4>1
      <4>2. CASE e \in DOMAIN CandidatesOf(c)
        <5>1. after[e] = [graph[c].known[e] EXCEPT !.score = CandidatesOf(c)[e].score]
          BY <2>1, <3>1, <3>2, <4>2
        <5> HIDE DEF after
        <5>2. QED BY <3>2, <5>1 DEF Known
      <4>3. QED BY <4>1, <4>2
    <3>4. e \in graph[c].visible
      <4>1. Unknown.freshness # "current"
        BY DEF Unknown
      <4>2. QED BY <1>2, <1>4, <1>5, <3>3, <4>1 DEF Sound
    <3>5. e \in Delivered(c)
      BY <1>5, <3>3, <3>4 DEF Delivered
    <3>6. e \in DOMAIN v /\ v[e] = entities[e].payloads[graph[c].known[e].lod]
      BY <3>5 DEF Agrees, DeliveredPayload
    <3>7. e \in DOMAIN w /\ w[e] = v[e]
      BY <2>3, <3>6 DEF Follows, Exited
    <3>8. QED BY <3>3, <3>6, <3>7
  <2>4. QED BY <2>2, <2>3
<1> HIDE DEF after
<1>6. QED BY <1>1, <1>3, <1>5 DEF Agrees, Delivered, DeliveredPayload

\* The frame a client has acknowledged stays the baseline while the next delta
\* is under way, if two frames are kept.
LEMMA TickOutside ==
  ASSUME NetworkInv, IInv', tick' = tick + 1, HistoryCapacity > 1, UNCHANGED acks,
         NEW c \in DOMAIN clients, acks[c] = Latest(c),
         NEW chosen \in [DOMAIN CandidatesOf(c) -> Choice],
         graph'[c] = TickGraph(c, chosen), SentOne(c, chosen)
  PROVE  OutsideIsKnown(c)'
<1> DEFINE latest == LatestContents(history[c])
           next == NextContents(c, chosen)
           frame == [sequence |-> tick + 1, contents |-> next]
<1>1. c \in Client
  BY DEF NetworkInv, IInv, WorldInv
<1>2. /\ DOMAIN next = (DOMAIN latest \ Exited(c)) \cup Updated(chosen)
      /\ \A e \in DOMAIN next \ Updated(chosen) : e \in DOMAIN latest /\ next[e] = latest[e]
      /\ next \in Contents
  BY NextContentsFacts DEF NetworkInv
<1>3. /\ LatestContents(history'[c]) = next /\ graph'[c].visible = InInterest(c)
      /\ Updated(chosen) \subseteq InInterest(c)
      /\ history'[c] = HistoryInsert(history[c], frame, HistoryCapacity)
  BY TickParts DEF SentOne, TickGraph, NetworkInv
<1>4. CASE Latest(c) = NoSnapshot
  <2>1. DOMAIN latest = {}
    BY <1>1, <1>4, LatestFrame, EmptyContents DEF NetworkInv, IInv
  <2> HIDE DEF latest, next
  <2>2. DOMAIN next \ InInterest(c) = {}
    BY <1>2, <1>3, <2>1
  <2>3. QED BY <1>3, <2>2 DEF OutsideIsKnown
<1>5. CASE Latest(c) # NoSnapshot
  <2>1. /\ history[c] \in Seq(Frame) /\ Len(history[c]) <= HistoryCapacity
        /\ HistoryCapacity \in Nat /\ tick + 1 \in Nat /\ history[c] # <<>>
    BY <1>1, <1>5, ServerAssumption
       DEF NetworkInv, IInv, SyncInv, HistoryIsOrdered, Latest, LatestSequence
  <2>2. frame \in Frame
    BY <1>2, <2>1 DEF Frame
  <2> HIDE DEF frame, latest, next
  <2>3. acks[c] \in HistorySequences(history'[c])
    BY <1>3, <2>1, <2>2, LatestOutlives DEF Latest
  <2>4. HistoryGet(history'[c], acks[c]) = HistoryGet(history[c], acks[c])
    BY <2>3, AckedFrameKept
  <2>5. HistoryGet(history[c], acks[c]).contents = latest
    BY <1>1, <1>5, LatestFrame DEF NetworkInv, IInv, latest
  <2>6. BaselineContents(c)' = latest
    BY <1>5, <2>3, <2>4, <2>5 DEF BaselineContents, BaselineSequence
  <2>7. QED BY <1>2, <1>3, <2>6 DEF OutsideIsKnown
<1>6. QED BY <1>4, <1>5

LEMMA TickSession ==
  ASSUME SessionInv, TicksWhenSettled
  PROVE  SessionInv'
<1>1. NetworkInv /\ Settled /\ ServerTick /\ NetworkInv' /\ IInv
  BY TickNetwork DEF SessionInv, TicksWhenSettled, NetworkInv
<1>2. /\ IInv' /\ tick' = tick + 1
      /\ UNCHANGED <<clients, entities, acks, received, view, acksInFlight>>
      /\ \A c \in Client \ DOMAIN clients : SentNothing(c)
  BY <1>1, TickOutcome
<1>3. PICK chosen : \A c \in DOMAIN clients :
        /\ chosen[c] \in [DOMAIN CandidatesOf(c) -> Choice]
        /\ graph'[c] = TickGraph(c, chosen[c])
        /\ \/ DOMAIN TickOps(c, chosen[c]) = {} /\ SentNothing(c)
           \/ DOMAIN TickOps(c, chosen[c]) # {} /\ SentOne(c, chosen[c])
  BY <1>1, TickOutcome
<1>4. \A c \in Client : Quiet(c) /\ inFlight[c] = {} /\ acks[c] = Latest(c)
  BY <1>1, SettledIsQuiet DEF SessionInv, Quiet
<1>5. DOMAIN clients \subseteq Client
  BY <1>1 DEF IInv, WorldInv
<1>6. ASSUME NEW c \in Client, Quiet(c)' PROVE (acks[c] = Latest(c))'
  <2>1. SentNothing(c)
    BY <1>2, <1>3, <1>6 DEF SentOne, Quiet
  <2>2. QED BY <1>2, <1>4, <2>1 DEF SentNothing, Latest
<1>7. ASSUME NEW c \in DOMAIN clients
      PROVE  WillAgree(c)' /\ (HistoryCapacity > 1 => OutsideIsKnown(c)')
  <2>1. CanBuildDirectDelta(c)
    BY <1>1, <1>4, <1>5, AckedLatest DEF IInv
  <2>2. PICK v : v = view[c]
    OBVIOUS
  <2>3. Agrees(c, v) /\ view'[c] = v
    BY <1>2, <1>4, <1>5, <2>2 DEF SessionInv, WillAgree
  <2>4. CASE SentNothing(c)
    <3>1. DOMAIN TickOps(c, chosen[c]) = {}
      BY <1>3, <2>4 DEF SentNothing, SentOne
    <3>2. Follows(c, chosen[c], v, v)
      BY <1>1, <1>3, <2>1, <3>1, DirectFollows
    <3>3. Agrees(c, v)'
      BY <1>1, <1>2, <1>3, <2>3, <3>2, TickAgrees
    <3>4. WillAgree(c)'
      BY <2>3, <2>4, <3>3 DEF WillAgree, SentNothing
    <3>5. (acks[c] = Latest(c))' /\ SyncInv' /\ c \in Client
      BY <1>2, <1>4, <1>5, <2>4 DEF SentNothing, Latest, IInv
    <3>6. OutsideIsKnown(c)'
      BY <3>5, AckedLatestKnownNext
    <3>7. QED BY <3>4, <3>6
  <2>5. CASE ~ SentNothing(c)
    <3>1. SentOne(c, chosen[c]) /\ DOMAIN TickOps(c, chosen[c]) # {}
      BY <1>3, <2>5
    <3>2. PICK d \in Delta : inFlight'[c] = {d} /\ d.ops = TickOps(c, chosen[c])
      BY <3>1 DEF SentOne
    <3>3. PICK w : w = ApplyOps(v, TickOps(c, chosen[c]))
      OBVIOUS
    <3>4. Follows(c, chosen[c], v, w)
      BY <1>1, <1>3, <2>1, <3>1, <3>3, DirectFollows
    <3>5. Agrees(c, w)'
      BY <1>1, <1>2, <1>3, <2>3, <3>4, TickAgrees
    <3>6. ApplyOps(view'[c], d.ops) = w
      BY <2>3, <3>2, <3>3
    <3>7. WillAgree(c)'
      BY <3>2, <3>5, <3>6 DEF WillAgree
    <3>8. HistoryCapacity > 1 => OutsideIsKnown(c)'
      BY <1>1, <1>2, <1>3, <1>4, <1>5, <3>1, TickOutside
    <3>9. QED BY <3>7, <3>8
  <2>6. QED BY <2>4, <2>5
<1>8. QED BY <1>1, <1>2, <1>6, <1>7 DEF SessionInv

-------------------------------------------------------------------------------
(* Game code and sessions *)

\* Whatever an operation changes of an entity, it is not delivered any more.
LEMMA UpsertAgrees ==
  ASSUME IInv, NEW e \in Entity, NEW entity, UpsertEntity(e, entity),
         NEW c \in DOMAIN clients, NEW v, Agrees(c, v)
  PROVE  Agrees(c, v)' /\ graph'[c].visible = graph[c].visible
<1>1. c \in DOMAIN graph /\ Sound(graph[c]) /\ graph[c].visible \subseteq DOMAIN entities
  BY GraphIsSound DEF IInv, WorldInv
<1>2. graph[c].visible \subseteq Entity /\ graph[c] \in ClientState
  BY <1>1 DEF Sound, ClientState
<1>3. \A d \in DOMAIN entities \ {e} : entities'[d] = entities[d]
  BY DEF UpsertEntity
<1>4. CASE e \notin DOMAIN entities
  <2>1. UNCHANGED graph /\ e \notin graph[c].visible
    BY <1>1, <1>4 DEF UpsertEntity
  <2>2. QED BY <1>1, <1>3, <2>1 DEF Agrees, Delivered, DeliveredPayload
<1>5. CASE e \in DOMAIN entities
  <2>1. graph'[c] = Outdated(graph[c], e)
    BY <1>1, <1>5 DEF UpsertEntity, OutdateEntity
  <2>2. graph'[c].visible = graph[c].visible
    BY <1>2, <2>1, OutdatedType
  <2>3. graph'[c].known[e].freshness # "current"
    BY <1>2, <2>1 DEF Outdated, ClientState, Known, Freshness
  <2>4. \A d \in Entity \ {e} : graph'[c].known[d] = graph[c].known[d]
    BY <1>2, <2>1 DEF Outdated, ClientState
  <2>5. \A d \in Delivered(c)' : /\ d \in Delivered(c) /\ d # e
                                 /\ graph'[c].known[d] = graph[c].known[d]
                                 /\ entities'[d] = entities[d]
    BY <1>1, <1>2, <1>3, <2>2, <2>3, <2>4 DEF Delivered
  <2>6. QED BY <2>2, <2>5 DEF Agrees, DeliveredPayload
<1>6. QED BY <1>4, <1>5

LEMMA EntityStepUpserts ==
  ASSUME NEW e \in Entity, EntityStep(e)
  PROVE  \E entity : UpsertEntity(e, entity)
BY DEF EntityStep, SpawnEntity, SpawnEntityWithLodPayloads, MoveEntity, SetEntityPayload,
       SetEntityLodPayloads, MoveEntityWithLodPayloads, SetEntityLod

LEMMA GameSession ==
  ASSUME SessionInv, NEW e \in Entity, Game(e), NetworkInv'
  PROVE  SessionInv'
<1>1. PICK entity : UpsertEntity(e, entity)
  BY EntityStepUpserts DEF Game
<1>2. UNCHANGED <<clients, history, acks, received, view, inFlight, acksInFlight>>
  BY <1>1 DEF Game, UpsertEntity, sync, transport, network
<1>3. IInv /\ DOMAIN clients \subseteq Client
  BY DEF SessionInv, NetworkInv, IInv, WorldInv
<1>4. ASSUME NEW c \in DOMAIN clients
      PROVE  /\ WillAgree(c)'
             /\ HistoryCapacity > 1 => OutsideIsKnown(c)'
  <2>1. WillAgree(c) /\ (HistoryCapacity > 1 => OutsideIsKnown(c))
    BY DEF SessionInv
  <2>2. PICK v : v = view[c]
    OBVIOUS
  <2>3. Agrees(c, v) => Agrees(c, v)'
    BY <1>1, <1>3, UpsertAgrees
  <2>4. ASSUME inFlight'[c] = {} PROVE Agrees(c, view[c])'
    <3>1. Agrees(c, v)'
      BY <1>2, <2>1, <2>2, <2>3, <2>4 DEF WillAgree
    <3>2. view'[c] = v
      BY <1>2, <2>2
    <3>3. QED BY <3>1, <3>2 DEF Agrees
  <2>5. ASSUME NEW d \in inFlight'[c] PROVE Agrees(c, ApplyOps(view[c], d.ops))'
    <3>1. PICK w : w = ApplyOps(view[c], d.ops)
      OBVIOUS
    <3>2. Agrees(c, w)
      BY <1>2, <2>1, <3>1 DEF WillAgree
    <3>3. Agrees(c, w)'
      BY <1>1, <1>3, <3>2, UpsertAgrees
    <3>4. ApplyOps(view'[c], d.ops) = w
      BY <1>2, <3>1
    <3>5. QED BY <3>3, <3>4 DEF Agrees
  <2>6. WillAgree(c)'
    BY <2>4, <2>5 DEF WillAgree
  <2>7. graph'[c].visible = graph[c].visible
    <3>1. c \in DOMAIN graph /\ graph[c] \in ClientState
      BY <1>3, GraphIsSound DEF IInv, WorldInv, Sound
    <3>2. CASE e \in DOMAIN entities
      BY <1>1, <3>1, <3>2, OutdatedType DEF UpsertEntity, OutdateEntity
    <3>3. CASE e \notin DOMAIN entities
      BY <1>1, <3>3 DEF UpsertEntity
    <3>4. QED BY <3>2, <3>3
  <2>8. OutsideIsKnown(c) => OutsideIsKnown(c)'
    BY <1>2, <2>7 DEF OutsideIsKnown, BaselineContents, BaselineSequence
  <2>9. QED BY <2>1, <2>6, <2>8
<1>5. \A c \in Client : Quiet(c)' => (acks[c] = Latest(c))'
  BY <1>2 DEF SessionInv, Quiet, Answered, Latest
<1>6. QED BY <1>2, <1>4, <1>5 DEF SessionInv

\* Steps that change neither what clients see nor what is under way
LEMMA SameSession ==
  ASSUME SessionInv, NetworkInv', DOMAIN clients' = DOMAIN clients,
         UNCHANGED <<entities, graph, history, acks, received, view, inFlight, acksInFlight>>
  PROVE  SessionInv'
BY DEF SessionInv, WillAgree, Agrees, Delivered, DeliveredPayload, OutsideIsKnown,
       BaselineContents, BaselineSequence, Quiet, Answered, Latest

\* What holds of a client stays, when other clients come and go.
LEMMA SameForClient ==
  ASSUME NEW c \in DOMAIN clients, WillAgree(c), graph'[c] = graph[c], view'[c] = view[c],
         UNCHANGED <<entities, history, acks, inFlight>>
  PROVE  WillAgree(c)' /\ (OutsideIsKnown(c) => OutsideIsKnown(c)')
BY DEF WillAgree, Agrees, Delivered, DeliveredPayload, OutsideIsKnown, BaselineContents,
       BaselineSequence

LEMMA JoinSession ==
  ASSUME SessionInv, NEW c \in Client, NEW p \in Position, Settled, Join(c, p), NetworkInv'
  PROVE  SessionInv'
<1>1. /\ c \notin DOMAIN clients /\ DOMAIN clients' = DOMAIN clients \cup {c}
      /\ UNCHANGED <<entities, history, acks, received, inFlight, acksInFlight>>
      /\ graph' = [d \in DOMAIN graph \cup {c} |-> IF d \in DOMAIN graph THEN graph[d] ELSE NewClient]
      /\ view' = [view EXCEPT ![c] = NoContents]
  BY DEF Join, ConnectClient, sync, transport, network
<1>2. /\ DOMAIN graph = DOMAIN clients /\ DOMAIN clients \subseteq Client
      /\ view \in [Client -> Contents]
  BY DEF SessionInv, NetworkInv, IInv, WorldInv
<1>3. \A b \in Client : Quiet(b) /\ acks[b] = Latest(b)
  BY SettledIsQuiet DEF SessionInv
<1>4. \A b \in Client : (acks[b] = Latest(b))'
  BY <1>1, <1>3 DEF Latest
<1>5. ASSUME NEW b \in DOMAIN clients'
      PROVE  WillAgree(b)' /\ OutsideIsKnown(b)'
  <2>1. b \in Client /\ SyncInv'
    BY <1>1, <1>2 DEF NetworkInv, IInv
  <2>2. OutsideIsKnown(b)'
    BY <1>4, <2>1, AckedLatestKnownNext
  <2>3. CASE b = c
    <3>1. graph'[c] = NewClient /\ view'[c] = NoContents
      BY <1>1, <1>2
    <3>2. inFlight'[c] = {} /\ DOMAIN view'[c] = {} /\ Delivered(c)' = {}
      BY <1>1, <1>3, <3>1, EmptyContents DEF Quiet, Delivered, NewClient
    <3>3. QED BY <2>2, <2>3, <3>2 DEF WillAgree, Agrees
  <2>4. CASE b # c
    <3>1. b \in DOMAIN clients /\ graph'[b] = graph[b] /\ view'[b] = view[b]
      BY <1>1, <1>2, <2>1, <2>4
    <3>2. QED BY <1>1, <2>2, <3>1, SameForClient DEF SessionInv
  <2>5. QED BY <2>3, <2>4
<1>6. QED BY <1>4, <1>5 DEF SessionInv

LEMMA LeaveSession ==
  ASSUME SessionInv, NEW c \in Client, Leave(c), NetworkInv'
  PROVE  SessionInv'
<1>1. /\ DOMAIN clients' = DOMAIN clients \ {c}
      /\ \A b \in DOMAIN clients' : graph'[b] = graph[b]
      /\ UNCHANGED <<entities, history, acks, received, view, inFlight, acksInFlight>>
  <2>1. DOMAIN graph = DOMAIN clients
    BY DEF SessionInv, NetworkInv, IInv, WorldInv
  <2>2. QED BY <2>1 DEF Leave, DisconnectClient, Restrict, sync, transport, network
<1>2. \A b \in Client : Quiet(b)' => (acks[b] = Latest(b))'
  BY <1>1 DEF SessionInv, Quiet, Answered, Latest
<1>3. ASSUME NEW b \in DOMAIN clients'
      PROVE  WillAgree(b)' /\ (HistoryCapacity > 1 => OutsideIsKnown(b)')
  BY <1>1, SameForClient DEF SessionInv
<1>4. QED BY <1>2, <1>3 DEF SessionInv

-------------------------------------------------------------------------------
(* Deliveries and acknowledgements *)

LEMMA DeliverSession ==
  ASSUME SessionInv, NEW c \in Client, NEW d \in inFlight[c], ApplySnapshot(c, d)
  PROVE  SessionInv'
<1>1. NetworkInv /\ NetworkInv'
  BY DeliverNetwork DEF SessionInv
<1>2. /\ inFlight[c] = {d} /\ inFlight'[c] = {} /\ view'[c] = ApplyOps(view[c], d.ops)
      /\ \A b \in Client \ {c} : inFlight'[b] = inFlight[b] /\ view'[b] = view[b]
      /\ acksInFlight' = acksInFlight \cup {<<c, Latest(c)>>}
      /\ UNCHANGED <<clients, entities, graph, history, acks, received>>
  BY <1>1, DeliveryOf DEF vars, world, sync, transport
<1>3. DOMAIN clients \subseteq Client
  BY <1>1 DEF NetworkInv, IInv, WorldInv
<1>4. \A b \in Client : Quiet(b)' => (acks[b] = Latest(b))'
  <2>1. ~ Quiet(c)'
    <3>1. <<c, Latest(c)>> \in acksInFlight' /\ <<c, Latest(c)>>[1] = c
      BY <1>2
    <3>2. QED BY <3>1 DEF Quiet, Answered
  <2>2. \A b \in Client \ {c} : Quiet(b)' => Quiet(b)
    BY <1>2 DEF Quiet, Answered
  <2>3. QED BY <1>2, <2>1, <2>2 DEF SessionInv, Latest
<1>5. ASSUME NEW b \in DOMAIN clients PROVE WillAgree(b)'
  <2>1. WillAgree(b)
    BY DEF SessionInv
  <2>2. CASE b = c
    <3>1. Agrees(c, ApplyOps(view[c], d.ops))
      BY <2>1, <2>2 DEF WillAgree
    <3>2. Agrees(c, view[c])'
      BY <1>2, <3>1 DEF Agrees, Delivered, DeliveredPayload
    <3>3. QED BY <1>2, <2>2, <3>2 DEF WillAgree
  <2>3. CASE b # c
    BY <1>2, <1>3, <2>1, <2>3 DEF WillAgree, Agrees, Delivered, DeliveredPayload
  <2>4. QED BY <2>2, <2>3
<1>6. \A b \in DOMAIN clients : OutsideIsKnown(b) => OutsideIsKnown(b)'
  BY <1>2 DEF OutsideIsKnown, BaselineContents, BaselineSequence
<1>7. QED BY <1>1, <1>2, <1>4, <1>5, <1>6 DEF SessionInv

LEMMA AckSession ==
  ASSUME SessionInv, NEW m \in acksInFlight, AckArrives(m)
  PROVE  SessionInv'
<1>1. NetworkInv /\ NetworkInv'
  BY AckNetwork DEF SessionInv
<1>2. /\ m[1] \in Client /\ m[2] = Latest(m[1]) /\ m[2] \in 1..tick
      /\ received'[m[1]] = Latest(m[1])
      /\ \A b \in Client \ {m[1]} : received'[b] = received[b]
      /\ acksInFlight' = acksInFlight \ {m}
      /\ UNCHANGED <<clients, entities, graph, history, acks, view, inFlight>>
  BY <1>1, ArrivalOf DEF world, sync
<1>3. \A b \in Client : Quiet(b)' => Quiet(b)
  <2>1. ~ Quiet(m[1])'
    BY <1>2 DEF Quiet, Answered, NoSnapshot
  <2>2. \A b \in Client \ {m[1]} : Quiet(b)' => Quiet(b)
    BY <1>2 DEF Quiet, Answered
  <2>3. QED BY <2>1, <2>2
<1>4. \A b \in Client : Quiet(b)' => (acks[b] = Latest(b))'
  BY <1>2, <1>3 DEF SessionInv, Latest
<1>5. \A b \in DOMAIN clients : /\ WillAgree(b)'
                                /\ HistoryCapacity > 1 => OutsideIsKnown(b)'
  BY <1>2, SameForClient DEF SessionInv
<1>6. QED BY <1>1, <1>2, <1>4, <1>5 DEF SessionInv

LEMMA PumpSession ==
  ASSUME SessionInv, Pump
  PROVE  SessionInv'
<1>1. NetworkInv /\ NetworkInv'
  BY PumpNetwork DEF SessionInv
<1>2. /\ UNCHANGED <<clients, entities, graph, history, view, inFlight, acksInFlight>>
      /\ \A c \in Client : /\ received'[c] = NoSnapshot
                           /\ acks'[c] = IF received[c] = NoSnapshot THEN acks[c] ELSE Latest(c)
  BY <1>1, PumpOf DEF world
<1>3. \A c \in Client : Latest(c)' = Latest(c)
  BY <1>2 DEF Latest
<1>4. \A c \in Client : Quiet(c)' => (acks[c] = Latest(c))'
  BY <1>2, <1>3 DEF SessionInv, Quiet, Answered
<1>5. ASSUME NEW c \in DOMAIN clients
      PROVE  WillAgree(c)' /\ (OutsideIsKnown(c) => OutsideIsKnown(c)')
  <2>1. c \in Client /\ SyncInv'
    BY <1>1 DEF NetworkInv, IInv, WorldInv
  <2>2. WillAgree(c)'
    BY <1>2 DEF SessionInv, WillAgree, Agrees, Delivered, DeliveredPayload
  <2>3. CASE received[c] = NoSnapshot
    BY <1>2, <2>1, <2>2, <2>3 DEF OutsideIsKnown, BaselineContents, BaselineSequence
  <2>4. CASE received[c] # NoSnapshot
    <3>1. (acks[c] = Latest(c))'
      BY <1>2, <1>3, <2>1, <2>4
    <3>2. QED BY <2>1, <2>2, <3>1, AckedLatestKnownNext
  <2>5. QED BY <2>3, <2>4
<1>6. QED BY <1>1, <1>2, <1>4, <1>5 DEF SessionInv

-------------------------------------------------------------------------------

LEMMA StepSession == SessionInv /\ [SessionNext]_allVars => SessionInv'
<1> SUFFICES ASSUME SessionInv, [SessionNext]_allVars PROVE SessionInv'
  OBVIOUS
<1>1. NetworkInv'
  BY EnvironmentSteps, StepNetwork DEF SessionInv
<1>2. CASE Games
  BY <1>1, <1>2, GameSession DEF Games
<1>3. CASE Walks
  <2>1. /\ UNCHANGED <<entities, graph, history, acks, received, view, inFlight, acksInFlight>>
        /\ DOMAIN clients' = DOMAIN clients
    BY <1>3 DEF Walks, Walk, UpdateClientPosition, sync, transport, network
  <2>2. QED BY <1>1, <2>1, SameSession
<1>4. CASE TicksWhenSettled
  BY <1>4, TickSession
<1>5. CASE Delivers
  BY <1>5, DeliverSession DEF Delivers
<1>6. CASE Acks
  BY <1>6, AckSession DEF Acks
<1>7. CASE Pump
  BY <1>7, PumpSession
<1>8. CASE Joins
  BY <1>1, <1>8, JoinSession DEF Joins
<1>9. CASE Leaves
  BY <1>1, <1>9, LeaveSession DEF Leaves
<1>10. CASE UNCHANGED allVars
  <2>1. UNCHANGED <<clients, entities, graph, history, acks, received, view, inFlight, acksInFlight>>
    BY <1>10 DEF allVars, vars, world, sync, transport, network
  <2>2. QED BY <1>1, <2>1, SameSession
<1>11. QED
  BY <1>2, <1>3, <1>4, <1>5, <1>6, <1>7, <1>8, <1>9, <1>10 DEF SessionNext

THEOREM SessionInvariant == SessionSpec => []SessionInv
BY InitSession, StepSession, PTL DEF SessionSpec

\* A settled client agrees with the server.
LEMMA SettledAgrees ==
  ASSUME SessionInv, Settled, NEW c \in DOMAIN clients
  PROVE  Agrees(c, view[c])
<1>1. c \in Client
  BY DEF SessionInv, NetworkInv, IInv, WorldInv
<1>2. QED BY <1>1 DEF SessionInv, WillAgree, Settled

(* On a local network no client is left with a stale entity: what the server  *)
(* takes for delivered is what the client shows, through entities that are    *)
(* spawned and changed, clients that walk, leave and come back, deferred      *)
(* updates and tiers that change.                                             *)
THEOREM NeverStaleInSessions == SessionSpec => []NothingStale
<1>1. SessionInv => NothingStale
  BY SettledAgrees DEF NothingStale, ShowsDelivered, Agrees
<1>2. QED BY <1>1, SessionInvariant, PTL

(* Nor does one show what the server does not have in its view, as long as    *)
(* nothing is despawned.                                                      *)
THEOREM NoGhostsInSessions == SessionSpec => []NoGhosts
<1>1. SessionInv => NoGhosts
  BY SettledAgrees DEF NoGhosts, Agrees
<1>2. QED BY <1>1, SessionInvariant, PTL

(* What the next delta writes is in the client's interest, also for a client  *)
(* that came back elsewhere to the frames of an earlier session: where two    *)
(* frames are kept, those stay the baseline until the first delta of the new  *)
(* session is acknowledged.                                                   *)
THEOREM InterestComesFirst ==
  ASSUME HistoryCapacity > 1
  PROVE  SessionSpec => []WritesAreInInterest
<1>1. ASSUME SessionInv, NEW c \in DOMAIN clients,
             NEW chosen, chosen = NextSelection(c)
      PROVE  Written(TickOps(c, chosen)) \subseteq InInterest(c)
  <2> DEFINE b == BaselineContents(c)
             latest == LatestContents(history[c])
             next == NextContents(c, chosen)
  <2>1. Updated(chosen) \subseteq InInterest(c)
    <3>1. DOMAIN chosen = DOMAIN CandidatesOf(c)
      BY <1>1, SelectUpdatesDomain DEF NextSelection
    <3>2. DOMAIN CandidatesOf(c) \subseteq InInterest(c)
      BY DEF CandidatesOf, CandidateTable
    <3>3. QED BY <3>1, <3>2 DEF Updated
  <2>2. \A e \in DOMAIN next \ InInterest(c) :
          e \in DOMAIN b /\ b[e] = next[e]
    <3>1. \A e \in DOMAIN next \ InInterest(c) :
            /\ e \in DOMAIN latest \ Exited(c) /\ next[e] = latest[e]
      BY <2>1 DEF NextContents
    <3>2. \A e \in DOMAIN latest \ Exited(c) :
            e \notin InInterest(c) => e \notin graph[c].visible
      BY DEF Exited
    <3>3. OutsideIsKnown(c)
      BY <1>1 DEF SessionInv
    <3>4. QED BY <3>1, <3>2, <3>3 DEF OutsideIsKnown
  <2>3. Written(DirectOps(c, chosen)) \subseteq InInterest(c)
    <3>1. \A e \in DOMAIN DirectOps(c, chosen) \ Updated(chosen) :
            DirectOps(c, chosen)[e] = DespawnOrExit
      BY DEF DirectOps
    <3>2. QED BY <2>1, <3>1, OpKinds DEF Written, Removed
  <2>4. Written(CatchUpOps(c, chosen)) \subseteq InInterest(c)
    <3> DEFINE built == BuildDelta(b, next)
               ops == CatchUpOps(c, chosen)
               exits == IF BaselineSequence(c) = NoSnapshot THEN Exited(c) ELSE {}
    <3>1. ops = [e \in DOMAIN built \cup exits |-> IF e \in exits THEN DespawnOrExit ELSE built[e]]
      BY DEF CatchUpOps
    <3> HIDE DEF ops, exits, b, next
    <3>2. \A e \in DOMAIN built : \/ built[e] = DespawnOrExit
                                  \/ e \in DOMAIN next /\ (e \notin DOMAIN b \/ b[e] # next[e])
      BY DEF BuildDelta
    <3> HIDE DEF built
    <3>3. \A e \in DOMAIN ops : ops[e] = DespawnOrExit \/ e \in InInterest(c)
      BY <2>2, <3>1, <3>2
    <3>4. Written(ops) \subseteq InInterest(c)
      BY <3>3, OpKinds DEF Written, Removed
    <3>5. QED BY <3>4 DEF ops
  <2>5. Written(NoContents) = {}
    BY EmptyContents DEF Written
  <2>6. QED BY <2>3, <2>4, <2>5 DEF TickOps
<1>2. SessionInv => WritesAreInInterest
  BY <1>1 DEF WritesAreInInterest
<1>3. QED BY <1>2, SessionInvariant, PTL

(* Server, network and clients keep their types, in both environments.        *)
THEOREM SyncTypeCorrect == (SessionSpec \/ LossySpec) => []SyncTypeOK
<1>1. NetworkInv => SyncTypeOK
  BY DEF NetworkInv, IInv, WorldInv, SyncInv, TypeOK, SyncTypeOK
<1>2. SessionInv => SyncTypeOK
  BY <1>1 DEF SessionInv
<1>3. LossyInv => SyncTypeOK
  BY <1>1 DEF LossyInv
<1>4. QED BY <1>2, <1>3, SessionInvariant, LossyInvariant, PTL
===============================================================================
