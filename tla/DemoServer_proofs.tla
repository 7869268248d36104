--------------------------- MODULE DemoServer_proofs ---------------------------
(***************************************************************************)
(* What holds of the demo server for any numbers of bots, effects, covers  *)
(* and peers, for any rules of the match and any ranges of ids: scores add *)
(* up, and as long as the ids fit their ranges, what the runtime was told  *)
(* of the game is the game.  Each step of a tick and of a datagram keeps   *)
(* the game Good, and who takes part.                                      *)
(***************************************************************************)
EXTENDS DemoServer, Folds_proofs

-------------------------------------------------------------------------------
(* Games *)

MapsOf(D, V) == UNION {[S -> V] : S \in SUBSET D}

Bot == Health(BotMaxHealth, BotRespawnTicks)

Session ==
  {who \in [health : 0..PlayerMaxHealth, cooldown : 0..PlayerFireCooldownTicks,
            wait : 0..PlayerRespawnTicks] : who.health > 0 => who.wait = 0}

Match ==
  {match \in [scores : [Team -> 0..MatchScoreLimit], winner : Team \cup {NoWinner},
              reset : 0..MatchResetTicks, round : 0..MaxRound] :
     match.reset > 0 => ~ IsRoundActive(match)}

Impact == [id : Nat, left : 0..ImpactLifetimeTicks]

Style == {PackedScores(match) : match \in Match}
Payload == Nat \cup Style \cup [health : 0..PlayerMaxHealth, style : Style]
EntityId == Nat
World == MapsOf(EntityId, Payload)

Game ==
  [bots : MapsOf(Nat, Bot), effects : Nat, clients : MapsOf(Nat \ {0}, Session), match : Match,
   covers : MapsOf(Nat, 0..CoverMaxHealth), impacts : Seq(Impact),
   nextImpact : 0..MaxImpactId, world : World]

Ids(impacts) == {impact.id : impact \in Range(impacts)}

\* the world of a game whose ids fit: the next impact's id is above all that are in use
Shown(g) ==
  /\ Mirrored(g)
  /\ ShowsCovers(g)
  /\ \A n \in Ids(g.impacts) : n < g.nextImpact

Good(g) ==
  /\ g \in Game
  /\ IsFiniteSet(DOMAIN g.bots) /\ IsFiniteSet(DOMAIN g.clients)
  /\ Len(g.impacts) <= MaxActiveImpacts
  /\ Scored(g)
  /\ IdsFit(g) => Shown(g)

\* Nobody comes or goes; impacts may, and their ids run out once and for all.
SameCast(g, h) ==
  /\ DOMAIN h.bots = DOMAIN g.bots /\ DOMAIN h.clients = DOMAIN g.clients
  /\ DOMAIN h.covers = DOMAIN g.covers /\ h.effects = g.effects
  /\ IdsFit(h) => IdsFit(g)

LEMMA Parameters ==
  /\ BotMaxHealth \in Nat /\ BotMaxHealth > 0
  /\ PlayerMaxHealth \in Nat /\ PlayerMaxHealth > 0
  /\ CoverMaxHealth \in Nat /\ CoverMaxHealth > 0
  /\ BotWeaponDamage \in Nat /\ PlayerWeaponDamage \in Nat
  /\ BotRespawnTicks \in Nat /\ PlayerRespawnTicks \in Nat /\ PlayerFireCooldownTicks \in Nat
  /\ BotFireIntervalTicks \in Nat \ {0} /\ CoverDamageIntervalTicks \in Nat \ {0}
  /\ ImpactLifetimeTicks \in Nat /\ MaxActiveImpacts \in Nat \ {0}
  /\ MatchScoreLimit \in Nat /\ MatchScoreLimit > 0
  /\ MatchResetTicks \in Nat /\ MaxRound \in Nat
BY DeathmatchAssumption

LEMMA Bases ==
  /\ BotBase \in Nat /\ EffectBase \in Nat /\ CoverBase \in Nat /\ ImpactBase \in Nat
  /\ ScoreBase \in Nat /\ PlayerBase \in Nat /\ MaxImpactId \in Nat
  /\ EffectBase <= CoverBase /\ CoverBase <= ImpactBase /\ ImpactBase <= ScoreBase
  /\ ScoreBase < PlayerBase /\ ScoreBase - ImpactBase < MaxImpactId
BY DeathmatchAssumption

LEMMA MapElim ==
  ASSUME NEW D, NEW V, NEW f \in MapsOf(D, V)
  PROVE  /\ f \in [DOMAIN f -> V]
         /\ DOMAIN f \subseteq D
         /\ f = [k \in DOMAIN f |-> f[k]]
BY DEF MapsOf

LEMMA MapIntro ==
  ASSUME NEW D, NEW V, NEW S \in SUBSET D, NEW f \in [S -> V]
  PROVE  f \in MapsOf(D, V) /\ DOMAIN f = S
BY DEF MapsOf

LEMMA GameFields ==
  ASSUME NEW g \in Game
  PROVE  /\ g = [bots |-> g.bots, effects |-> g.effects, clients |-> g.clients,
                 match |-> g.match, covers |-> g.covers, impacts |-> g.impacts,
                 nextImpact |-> g.nextImpact, world |-> g.world]
         /\ g.bots \in MapsOf(Nat, Bot) /\ g.clients \in MapsOf(Nat \ {0}, Session)
         /\ g.match \in Match /\ g.covers \in MapsOf(Nat, 0..CoverMaxHealth)
         /\ g.impacts \in Seq(Impact) /\ g.world \in World
         /\ g.effects \in Nat /\ g.nextImpact \in 0..MaxImpactId
BY DEF Game

\* One part of a game is replaced.
LEMMA GameWith ==
  ASSUME NEW g \in Game, NEW x
  PROVE  /\ [g EXCEPT !.world = x] =
              [bots |-> g.bots, effects |-> g.effects, clients |-> g.clients,
               match |-> g.match, covers |-> g.covers, impacts |-> g.impacts,
               nextImpact |-> g.nextImpact, world |-> x]
         /\ [g EXCEPT !.clients = x] =
              [bots |-> g.bots, effects |-> g.effects, clients |-> x,
               match |-> g.match, covers |-> g.covers, impacts |-> g.impacts,
               nextImpact |-> g.nextImpact, world |-> g.world]
         /\ [g EXCEPT !.bots = x] =
              [bots |-> x, effects |-> g.effects, clients |-> g.clients,
               match |-> g.match, covers |-> g.covers, impacts |-> g.impacts,
               nextImpact |-> g.nextImpact, world |-> g.world]
BY DEF Game

-------------------------------------------------------------------------------
(* Ids of the kinds, and who has one *)

BotEntities(S) == {BotEntity(i) : i \in S}
EffectEntities(S) == {EffectEntity(n) : n \in S}
CoverEntities(S) == {CoverEntity(k) : k \in S}
ImpactEntities(S) == {ImpactEntity(n) : n \in S}
ScoreEntities == {ScoreEntity(t) : t \in Team}
PlayerEntities(S) == {PlayerEntity(c) : c \in S}

BotIds == 0..EffectBase - 1
EffectIds == EffectBase..CoverBase - 1
CoverIds == CoverBase..ImpactBase - 1
ImpactIds == ImpactBase..ScoreBase - 1
ScoreIds == ScoreBase..PlayerBase
PlayerIds == {e \in Nat : e > PlayerBase}

LEMMA RangesDiffer ==
  ASSUME NEW e
  PROVE  /\ e \in BotIds => e \notin EffectIds \cup CoverIds \cup ImpactIds \cup ScoreIds \cup PlayerIds
         /\ e \in EffectIds => e \notin CoverIds \cup ImpactIds \cup ScoreIds \cup PlayerIds
         /\ e \in CoverIds => e \notin ImpactIds \cup ScoreIds \cup PlayerIds
         /\ e \in ImpactIds => e \notin ScoreIds \cup PlayerIds
         /\ e \in ScoreIds => e \notin PlayerIds
BY Bases DEF BotIds, EffectIds, CoverIds, ImpactIds, ScoreIds, PlayerIds

LEMMA InRange ==
  ASSUME NEW g \in Game, IdsFit(g)
  PROVE  /\ BotEntities(DOMAIN g.bots) \subseteq BotIds
         /\ EffectEntities(0..g.effects - 1) \subseteq EffectIds
         /\ CoverEntities(DOMAIN g.covers) \subseteq CoverIds
         /\ \A n \in Nat : n < g.nextImpact => ImpactEntity(n) \in ImpactIds
         /\ ScoreEntities \subseteq ScoreIds
         /\ PlayerEntities(Nat \ {0}) \subseteq PlayerIds
<1>1. /\ DOMAIN g.bots \subseteq Nat /\ DOMAIN g.covers \subseteq Nat
      /\ g.effects \in Nat /\ g.nextImpact \in Nat
  BY GameFields, MapElim, Bases
<1>2. BotEntities(DOMAIN g.bots) \subseteq BotIds
  BY <1>1, Bases DEF BotEntities, BotEntity, BotIds, IdsFit
<1>3. EffectEntities(0..g.effects - 1) \subseteq EffectIds
  BY <1>1, Bases DEF EffectEntities, EffectEntity, EffectIds, IdsFit
<1>4. CoverEntities(DOMAIN g.covers) \subseteq CoverIds
  BY <1>1, Bases DEF CoverEntities, CoverEntity, CoverIds, IdsFit
<1>5. \A n \in Nat : n < g.nextImpact => ImpactEntity(n) \in ImpactIds
  BY <1>1, Bases DEF ImpactEntity, ImpactIds, IdsFit
<1>6. ScoreEntities \subseteq ScoreIds
  BY Bases DEF ScoreEntities, ScoreEntity, ScoreIds, Team
<1>7. PlayerEntities(Nat \ {0}) \subseteq PlayerIds
  BY Bases DEF PlayerEntities, PlayerEntity, PlayerIds
<1>8. QED BY <1>2, <1>3, <1>4, <1>5, <1>6, <1>7

\* Within a kind, ids tell numbers apart, and give them back.
LEMMA EntityParts ==
  ASSUME NEW x \in Nat
  PROVE  /\ BotEntity(x) \in EntityId /\ BotEntity(x) - BotBase = x
         /\ EffectEntity(x) \in EntityId /\ EffectEntity(x) - EffectBase = x
         /\ CoverEntity(x) \in EntityId /\ CoverEntity(x) - CoverBase = x
         /\ ImpactEntity(x) \in EntityId /\ ImpactEntity(x) - ImpactBase = x
         /\ ScoreEntity(x) \in EntityId /\ ScoreEntity(x) - ScoreBase = x
         /\ PlayerEntity(x) \in EntityId /\ PlayerEntity(x) - PlayerBase = x
BY Bases DEF EntityId, BotEntity, EffectEntity, CoverEntity, ImpactEntity, ScoreEntity, PlayerEntity

LEMMA IdsAreNumbers ==
  ASSUME NEW impacts \in Seq(Impact)
  PROVE  Ids(impacts) \subseteq Nat
<1>1. Range(impacts) \subseteq Impact
  BY DEF Range
<1>2. QED BY <1>1 DEF Ids, Impact

LEMMA SameEntity ==
  ASSUME NEW x \in Nat, NEW y \in Nat
  PROVE  /\ BotEntity(x) = BotEntity(y) => x = y
         /\ CoverEntity(x) = CoverEntity(y) => x = y
         /\ ImpactEntity(x) = ImpactEntity(y) => x = y
         /\ PlayerEntity(x) = PlayerEntity(y) => x = y
BY Bases DEF BotEntity, CoverEntity, ImpactEntity, PlayerEntity

\* bots that are alive, effects, covers, impacts and clients, with the scoreboards
Roster(A, E, K, I, C) ==
  BotEntities(A) \cup EffectEntities(E) \cup CoverEntities(K) \cup ImpactEntities(I)
    \cup ScoreEntities \cup PlayerEntities(C)

RosterOf(g) ==
  Roster(AliveBots(g), 0..g.effects - 1, DOMAIN g.covers, Ids(g.impacts), DOMAIN g.clients)

Distinct(impacts) == \A m, n \in DOMAIN impacts : impacts[m].id = impacts[n].id => m = n

LEMMA MirroredIs ==
  ASSUME NEW g
  PROVE  Mirrored(g) <=> DOMAIN g.world = RosterOf(g) /\ Distinct(g.impacts)
<1>1. ImpactEntities(Ids(g.impacts)) = {ImpactEntity(impact.id) : impact \in Range(g.impacts)}
  BY DEF Ids, ImpactEntities
<1>2. QED BY <1>1 DEF Mirrored, RosterOf, Roster, Distinct, BotEntities, EffectEntities,
                      CoverEntities, ScoreEntities, PlayerEntities

LEMMA BotsCome ==
  ASSUME NEW A, NEW E, NEW K, NEW I, NEW C, NEW S
  PROVE  Roster(A \cup S, E, K, I, C) = Roster(A, E, K, I, C) \cup BotEntities(S)
BY DEF Roster, BotEntities

LEMMA BotLeaves ==
  ASSUME NEW A \in SUBSET Nat, NEW E, NEW K, NEW I, NEW C, NEW i \in Nat,
         BotEntity(i) \notin Roster({}, E, K, I, C)
  PROVE  Roster(A \ {i}, E, K, I, C) = Roster(A, E, K, I, C) \ {BotEntity(i)}
<1>1. BotEntities(A \ {i}) = BotEntities(A) \ {BotEntity(i)}
  BY SameEntity DEF BotEntities
<1>2. \A S : Roster(S, E, K, I, C) = BotEntities(S) \cup Roster({}, E, K, I, C)
  BY DEF Roster, BotEntities
<1>3. QED BY <1>1, <1>2

LEMMA PlayerComes ==
  ASSUME NEW A, NEW E, NEW K, NEW I, NEW C, NEW c
  PROVE  Roster(A, E, K, I, C \cup {c}) = Roster(A, E, K, I, C) \cup {PlayerEntity(c)}
BY DEF Roster, PlayerEntities

LEMMA ImpactComes ==
  ASSUME NEW A, NEW E, NEW K, NEW I, NEW C, NEW n
  PROVE  Roster(A, E, K, I \cup {n}, C) = Roster(A, E, K, I, C) \cup {ImpactEntity(n)}
BY DEF Roster, ImpactEntities

LEMMA ImpactsLeave ==
  ASSUME NEW A, NEW E, NEW K, NEW I \in SUBSET Nat, NEW C, NEW S \in SUBSET Nat, NEW J, J = I \ S,
         ImpactEntities(S) \cap Roster(A, E, K, {}, C) = {}
  PROVE  Roster(A, E, K, J, C) = Roster(A, E, K, I, C) \ ImpactEntities(S)
<1>1. ImpactEntities(J) = ImpactEntities(I) \ ImpactEntities(S)
  BY SameEntity DEF ImpactEntities
<1>2. \A T : Roster(A, E, K, T, C) = ImpactEntities(T) \cup Roster(A, E, K, {}, C)
  BY DEF Roster, ImpactEntities
<1>3. QED BY <1>1, <1>2

LEMMA SetPayloadsIs ==
  ASSUME NEW w \in World, NEW p, \A e \in DOMAIN p \cap DOMAIN w : p[e] \in Payload
  PROVE  /\ SetPayloads(w, p) \in World
         /\ DOMAIN SetPayloads(w, p) = DOMAIN w
         /\ \A e \in DOMAIN w : SetPayloads(w, p)[e] = IF e \in DOMAIN p THEN p[e] ELSE w[e]
<1>1. w \in [DOMAIN w -> Payload] /\ DOMAIN w \in SUBSET EntityId
  BY MapElim DEF World
<1>2. SetPayloads(w, p) \in [DOMAIN w -> Payload]
  BY <1>1 DEF SetPayloads
<1>3. SetPayloads(w, p) \in World /\ DOMAIN SetPayloads(w, p) = DOMAIN w
  BY <1>1, <1>2, MapIntro DEF World
<1>4. QED BY <1>3 DEF SetPayloads

LEMMA SpawnIs ==
  ASSUME NEW w \in World, NEW p \in World
  PROVE  /\ Spawn(w, p) \in World
         /\ DOMAIN Spawn(w, p) = DOMAIN w \cup DOMAIN p
         /\ \A e \in DOMAIN p : Spawn(w, p)[e] = p[e]
         /\ \A e \in DOMAIN w \ DOMAIN p : Spawn(w, p)[e] = w[e]
<1>1. /\ w \in [DOMAIN w -> Payload] /\ p \in [DOMAIN p -> Payload]
      /\ DOMAIN w \cup DOMAIN p \in SUBSET EntityId
  BY MapElim DEF World
<1>2. Spawn(w, p) \in [DOMAIN w \cup DOMAIN p -> Payload]
  BY <1>1 DEF Spawn
<1>3. Spawn(w, p) \in World /\ DOMAIN Spawn(w, p) = DOMAIN w \cup DOMAIN p
  BY <1>1, <1>2, MapIntro DEF World
<1>4. QED BY <1>3 DEF Spawn

LEMMA DespawnIs ==
  ASSUME NEW w \in World, NEW gone
  PROVE  /\ Despawn(w, gone) \in World
         /\ DOMAIN Despawn(w, gone) = DOMAIN w \ gone
         /\ \A e \in DOMAIN w \ gone : Despawn(w, gone)[e] = w[e]
<1>1. w \in [DOMAIN w -> Payload] /\ DOMAIN w \ gone \in SUBSET EntityId
  BY MapElim DEF World
<1>2. Despawn(w, gone) \in [DOMAIN w \ gone -> Payload]
  BY <1>1 DEF Despawn, Drop, Restrict
<1>3. Despawn(w, gone) \in World /\ DOMAIN Despawn(w, gone) = DOMAIN w \ gone
  BY <1>1, <1>2, MapIntro DEF World
<1>4. QED BY <1>3 DEF Despawn, Drop, Restrict

LEMMA BotPayloadsAre ==
  ASSUME NEW g, NEW S \in SUBSET Nat, \A i \in S : g.bots[i] \in Bot
  PROVE  /\ BotPayloads(g, S) \in World
         /\ DOMAIN BotPayloads(g, S) = BotEntities(S)
         /\ \A i \in S : BotPayloads(g, S)[BotEntity(i)] = g.bots[i].health
<1> DEFINE D == BotEntities(S)
<1>1. D \in SUBSET EntityId
  BY EntityParts DEF BotEntities
<1>2. \A i \in S : g.bots[BotEntity(i) - BotBase].health \in Payload
  BY EntityParts, Parameters DEF Bot, Health, Payload
<1>3. BotPayloads(g, S) = [e \in D |-> g.bots[e - BotBase].health]
  BY DEF BotPayloads, BotEntities
<1>4. \A e \in D : g.bots[e - BotBase].health \in Payload
  BY <1>2 DEF BotEntities
<1> HIDE DEF D
<1>5. BotPayloads(g, S) \in [D -> Payload]
  BY <1>3, <1>4
<1>6. \A i \in S : BotEntity(i) \in D
  BY DEF D, BotEntities
<1>7. BotPayloads(g, S) \in World /\ DOMAIN BotPayloads(g, S) = D
  BY <1>1, <1>5, MapIntro DEF World
<1>8. QED BY <1>3, <1>6, <1>7, EntityParts DEF D

LEMMA EffectPayloadsAre ==
  ASSUME NEW effects \in Nat
  PROVE  /\ EffectPayloads(effects) \in World
         /\ DOMAIN EffectPayloads(effects) = EffectEntities(0..effects - 1)
<1> DEFINE D == EffectEntities(0..effects - 1)
<1>1. D \in SUBSET EntityId
  BY EntityParts DEF EffectEntities
<1>2. EffectPayloads(effects) \in [D -> Payload]
  BY DEF EffectPayloads, EffectEntities, Payload
<1> HIDE DEF D
<1>3. EffectPayloads(effects) \in World /\ DOMAIN EffectPayloads(effects) = D
  BY <1>1, <1>2, MapIntro DEF World
<1>4. QED BY <1>3 DEF D

LEMMA StyleType ==
  ASSUME NEW match \in Match
  PROVE  PackedScores(match) \in Style /\ PackedScores(match) \in Payload
BY DEF Style, Payload

LEMMA PlayerPayloadsAre ==
  ASSUME NEW g, NEW S \in SUBSET Nat, \A c \in S : g.clients[c] \in Session, g.match \in Match
  PROVE  /\ PlayerPayloads(g, S) \in World
         /\ DOMAIN PlayerPayloads(g, S) = PlayerEntities(S)
         /\ \A c \in S : PlayerPayloads(g, S)[PlayerEntity(c)] =
                           [health |-> g.clients[c].health, style |-> PackedScores(g.match)]
<1> DEFINE D == PlayerEntities(S)
           said(c) == [health |-> g.clients[c].health, style |-> PackedScores(g.match)]
<1>1. D \in SUBSET EntityId
  BY EntityParts DEF PlayerEntities
<1>2. \A c \in S : said(PlayerEntity(c) - PlayerBase) \in Payload
  BY EntityParts, StyleType DEF Session, Payload
<1>3. PlayerPayloads(g, S) = [e \in D |-> said(e - PlayerBase)]
  BY DEF PlayerPayloads, PlayerEntities
<1> HIDE DEF said
<1>4. \A e \in D : said(e - PlayerBase) \in Payload
  BY <1>2 DEF PlayerEntities
<1> HIDE DEF D
<1>5. PlayerPayloads(g, S) \in [D -> Payload]
  BY <1>3, <1>4
<1>6. \A c \in S : PlayerEntity(c) \in D
  BY DEF D, PlayerEntities
<1>7. PlayerPayloads(g, S) \in World /\ DOMAIN PlayerPayloads(g, S) = D
  BY <1>1, <1>5, MapIntro DEF World
<1>8. QED BY <1>3, <1>6, <1>7, EntityParts DEF D, said

LEMMA CoverPayloadsAre ==
  ASSUME NEW covers \in MapsOf(Nat, 0..CoverMaxHealth)
  PROVE  /\ CoverPayloads(covers) \in World
         /\ DOMAIN CoverPayloads(covers) = CoverEntities(DOMAIN covers)
         /\ \A k \in DOMAIN covers : CoverPayloads(covers)[CoverEntity(k)] = covers[k]
<1> DEFINE S == DOMAIN covers
           D == CoverEntities(S)
<1>0. S \in SUBSET Nat /\ covers \in [S -> 0..CoverMaxHealth]
  BY MapElim
<1>1. D \in SUBSET EntityId
  BY <1>0, EntityParts DEF CoverEntities
<1>2. \A k \in S : covers[CoverEntity(k) - CoverBase] \in Payload
  <2>1. \A k \in S : covers[k] \in Nat
    BY <1>0, Parameters
  <2>2. QED BY <1>0, <2>1, EntityParts DEF Payload
<1>3. CoverPayloads(covers) = [e \in D |-> covers[e - CoverBase]]
  BY DEF CoverPayloads, CoverEntities
<1>4. \A e \in D : covers[e - CoverBase] \in Payload
  BY <1>2 DEF CoverEntities
<1> HIDE DEF D
<1>5. CoverPayloads(covers) \in [D -> Payload]
  BY <1>3, <1>4
<1>6. \A k \in S : CoverEntity(k) \in D
  BY DEF D, CoverEntities
<1>7. CoverPayloads(covers) \in World /\ DOMAIN CoverPayloads(covers) = D
  BY <1>1, <1>5, MapIntro DEF World
<1>8. QED BY <1>0, <1>3, <1>6, <1>7, EntityParts DEF D

LEMMA ScorePayloadsAre ==
  ASSUME NEW match \in Match
  PROVE  /\ ScorePayloads(match) \in World
         /\ DOMAIN ScorePayloads(match) = ScoreEntities
         /\ \A t \in Team : ScorePayloads(match)[ScoreEntity(t)] = PackedScores(match)
<1> DEFINE D == ScoreEntities
<1>1. D \in SUBSET EntityId
  BY EntityParts DEF ScoreEntities, Team
<1>2. PackedScores(match) \in Payload
  BY StyleType
<1>3. ScorePayloads(match) = [e \in D |-> PackedScores(match)]
  BY DEF ScorePayloads, ScoreEntities
<1>4. \A t \in Team : ScoreEntity(t) \in D
  BY DEF ScoreEntities
<1> HIDE DEF D
<1>5. ScorePayloads(match) \in [D -> Payload]
  BY <1>2, <1>3
<1>6. QED BY <1>1, <1>3, <1>4, <1>5, MapIntro DEF World, D

LEMMA ImpactPayloadsAre ==
  ASSUME NEW impacts \in Seq(Impact)
  PROVE  /\ ImpactPayloads(impacts) \in World
         /\ DOMAIN ImpactPayloads(impacts) = ImpactEntities(Ids(impacts))
         /\ Distinct(impacts) => \A impact \in Range(impacts) :
              ImpactPayloads(impacts)[ImpactEntity(impact.id)] = impact.left
<1> DEFINE D == ImpactEntities(Ids(impacts))
           named(n) == CHOOSE impact \in Range(impacts) : impact.id = n
<1>1. Range(impacts) \subseteq Impact
  BY DEF Range
<1>2. Ids(impacts) \subseteq Nat
  BY IdsAreNumbers
<1>3. D \in SUBSET EntityId
  BY <1>2, EntityParts DEF ImpactEntities
<1>4. ImpactPayloads(impacts) = [e \in D |-> named(e - ImpactBase).left]
  BY DEF ImpactPayloads, ImpactEntities, Ids
<1>5. ASSUME NEW n \in Ids(impacts) PROVE named(n) \in Range(impacts) /\ named(n).id = n
  BY DEF Ids
<1> HIDE DEF named
<1>6. ASSUME NEW n \in Ids(impacts) PROVE named(n).left \in Payload
  <2>1. named(n) \in Impact
    BY <1>1, <1>5
  <2>2. QED BY <2>1, Parameters DEF Impact, Payload
<1>7. \A e \in D : named(e - ImpactBase).left \in Payload
  BY <1>2, <1>6, EntityParts DEF ImpactEntities
<1>8. \A n \in Ids(impacts) : ImpactEntity(n) \in D
  BY DEF ImpactEntities
<1> HIDE DEF D
<1>9. ImpactPayloads(impacts) \in [D -> Payload]
  BY <1>4, <1>7
<1>10. ImpactPayloads(impacts) \in World /\ DOMAIN ImpactPayloads(impacts) = D
  BY <1>3, <1>9, MapIntro DEF World
<1>11. ASSUME Distinct(impacts), NEW impact \in Range(impacts)
       PROVE  ImpactPayloads(impacts)[ImpactEntity(impact.id)] = impact.left
  <2>1. impact.id \in Ids(impacts)
    BY DEF Ids
  <2>2. named(impact.id) = impact
    <3>1. \A other \in Range(impacts) : other.id = impact.id => other = impact
      BY <1>11 DEF Range, Distinct
    <3>2. QED BY <1>5, <2>1, <3>1
  <2>3. ImpactPayloads(impacts)[ImpactEntity(impact.id)] = named(ImpactEntity(impact.id) - ImpactBase).left
    BY <1>4, <1>8, <2>1
  <2>4. QED BY <1>2, <2>1, <2>2, <2>3, EntityParts
<1>12. QED BY <1>10, <1>11 DEF D

-------------------------------------------------------------------------------
(* Points and the dead *)

DeadBots(g, team) == {i \in DOMAIN g.bots \ AliveBots(g) : BotTeam(i) = team}
DeadClients(g, team) == {c \in DOMAIN g.clients \ AliveClients(g) : TeamForClient(c) = team}

LEMMA DeadAreCounted ==
  ASSUME NEW g, IsFiniteSet(DOMAIN g.bots), IsFiniteSet(DOMAIN g.clients), NEW team
  PROVE  /\ IsFiniteSet(DeadBots(g, team)) /\ IsFiniteSet(DeadClients(g, team))
         /\ Cardinality(DeadBots(g, team)) \in Nat /\ Cardinality(DeadClients(g, team)) \in Nat
         /\ DeadOf(g, team) = Cardinality(DeadBots(g, team)) + Cardinality(DeadClients(g, team))
         /\ DeadOf(g, team) \in Nat
<1>1. DeadBots(g, team) \subseteq DOMAIN g.bots /\ DeadClients(g, team) \subseteq DOMAIN g.clients
  BY DEF DeadBots, DeadClients
<1>2. IsFiniteSet(DeadBots(g, team)) /\ IsFiniteSet(DeadClients(g, team))
  BY <1>1, FS_Subset
<1>3. Cardinality(DeadBots(g, team)) \in Nat /\ Cardinality(DeadClients(g, team)) \in Nat
  BY <1>2, FS_CardinalityType
<1>4. DeadOf(g, team) = Cardinality(DeadBots(g, team)) + Cardinality(DeadClients(g, team))
  BY DEF DeadOf, DeadBots, DeadClients
<1>5. QED BY <1>2, <1>3, <1>4

LEMMA MoreAlive ==
  ASSUME NEW g, NEW h, SameCast(g, h), IsFiniteSet(DOMAIN g.bots), IsFiniteSet(DOMAIN g.clients),
         AliveBots(g) \subseteq AliveBots(h), AliveClients(g) \subseteq AliveClients(h), NEW team
  PROVE  DeadOf(h, team) <= DeadOf(g, team)
<1>1. DeadBots(h, team) \subseteq DeadBots(g, team) /\ DeadClients(h, team) \subseteq DeadClients(g, team)
  BY DEF DeadBots, DeadClients, SameCast
<1>2. /\ Cardinality(DeadBots(h, team)) <= Cardinality(DeadBots(g, team))
      /\ Cardinality(DeadClients(h, team)) <= Cardinality(DeadClients(g, team))
  BY <1>1, DeadAreCounted, FS_Subset
<1>3. QED BY <1>2, DeadAreCounted DEF SameCast

LEMMA MoreAliveIsScored ==
  ASSUME NEW g, NEW h, SameCast(g, h), IsFiniteSet(DOMAIN g.bots), IsFiniteSet(DOMAIN g.clients),
         AliveBots(g) \subseteq AliveBots(h), AliveClients(g) \subseteq AliveClients(h),
         Scored(g), g.match \in Match,
         h.match.scores = g.match.scores, h.match.winner = g.match.winner
  PROVE  Scored(h)
<1> SUFFICES ASSUME NEW t \in Team
             PROVE  /\ IsRoundActive(h.match) => DeadOf(h, 1 - t) <= h.match.scores[t]
                    /\ h.match.scores[t] <= MatchScoreLimit
                    /\ h.match.winner = t <=> h.match.scores[t] = MatchScoreLimit
  BY DEF Scored
<1>1. g.match.scores[t] \in Nat
  BY Parameters DEF Match
<1>2. DeadOf(h, 1 - t) <= DeadOf(g, 1 - t)
  BY MoreAlive
<1>3. DeadOf(g, 1 - t) \in Nat /\ DeadOf(h, 1 - t) \in Nat
  BY DeadAreCounted DEF SameCast
<1>4. QED BY <1>1, <1>2, <1>3 DEF Scored, IsRoundActive

LEMMA AddScoreIs ==
  ASSUME NEW match \in Match, NEW team \in Team, IsRoundActive(match),
         match.scores[team] < MatchScoreLimit
  PROVE  /\ AddScore(match, team) \in Match
         /\ \A t \in Team : AddScore(match, team).scores[t] =
                              IF t = team THEN match.scores[t] + 1 ELSE match.scores[t]
         /\ AddScore(match, team).winner =
              IF match.scores[team] + 1 >= MatchScoreLimit THEN team ELSE NoWinner
<1>1. match.scores \in [Team -> 0..MatchScoreLimit] /\ match.scores[team] + 1 \in 0..MatchScoreLimit
  BY Parameters DEF Match
<1> DEFINE score == match.scores[team] + 1
           won == score >= MatchScoreLimit
           next == [scores |-> [match.scores EXCEPT ![team] = score],
                    winner |-> IF won THEN team ELSE match.winner,
                    reset |-> IF won THEN MatchResetTicks ELSE match.reset,
                    round |-> match.round]
<1>2. match = [scores |-> match.scores, winner |-> match.winner,
               reset |-> match.reset, round |-> match.round]
  BY DEF Match
<1>3. AddScore(match, team) = next
  BY <1>2 DEF AddScore
<1>4. next.scores \in [Team -> 0..MatchScoreLimit]
  BY <1>1
<1>5. next \in Match
  BY <1>4, Parameters DEF Match, IsRoundActive, Team, NoWinner
<1>6. match.winner = NoWinner
  BY DEF IsRoundActive
<1>7. QED BY <1>1, <1>3, <1>5, <1>6

\* A kill, and the point for it.
LEMMA PointCounts ==
  ASSUME NEW g, NEW h, NEW team \in Team, g.match \in Match, Scored(g),
         h.match = AddScore(g.match, team),
         \A t \in Team : DeadOf(g, t) \in Nat /\ DeadOf(h, t) \in Nat,
         DeadOf(h, 1 - team) <= DeadOf(g, 1 - team) + 1,
         DeadOf(h, team) <= DeadOf(g, team)
  PROVE  h.match \in Match /\ Scored(h)
<1>1. \A t \in Team : 1 - t \in Team /\ (t # team => 1 - t = team) /\ g.match.scores[t] \in 0..MatchScoreLimit
  BY DEF Team, Match
<1>2. CASE ~ IsRoundActive(g.match)
  BY <1>2 DEF AddScore, Scored
<1>3. CASE IsRoundActive(g.match)
  <2>1. \A t \in Team : g.match.scores[t] < MatchScoreLimit
    BY <1>1, <1>3, Parameters DEF Scored, IsRoundActive, Team, NoWinner
  <2>2. /\ h.match \in Match
        /\ \A t \in Team : h.match.scores[t] = IF t = team THEN g.match.scores[t] + 1 ELSE g.match.scores[t]
        /\ h.match.winner = IF g.match.scores[team] + 1 >= MatchScoreLimit THEN team ELSE NoWinner
    BY <1>3, <2>1, AddScoreIs
  <2>3. ASSUME NEW t \in Team
        PROVE  /\ DeadOf(h, 1 - t) <= h.match.scores[t]
               /\ h.match.scores[t] <= MatchScoreLimit
               /\ h.match.winner = t <=> h.match.scores[t] = MatchScoreLimit
    <3>1. DeadOf(g, 1 - t) <= g.match.scores[t] /\ DeadOf(g, 1 - t) \in Nat /\ DeadOf(h, 1 - t) \in Nat
      BY <1>1, <1>3 DEF Scored
    <3>2. g.match.scores[t] \in Nat /\ g.match.scores[team] \in Nat /\ MatchScoreLimit \in Nat
      BY <1>1, Parameters
    <3>3. CASE t = team
      BY <2>1, <2>2, <3>1, <3>2, <3>3 DEF Team, NoWinner
    <3>4. CASE t # team
      <4>1. DeadOf(h, 1 - t) <= DeadOf(g, 1 - t)
        BY <1>1, <3>4
      <4>2. QED BY <2>1, <2>2, <3>1, <3>2, <3>4, <4>1 DEF Team, NoWinner
    <3>5. QED BY <3>3, <3>4
  <2>4. QED BY <2>2, <2>3 DEF Scored
<1>4. QED BY <1>2, <1>3

-------------------------------------------------------------------------------
(* Damage *)

LEMMA MaxOfTwo ==
  ASSUME NEW a \in Int, NEW b \in Int
  PROVE  /\ Max({a, b}) = IF a >= b THEN a ELSE b
         /\ Min({a, b}) = IF a <= b THEN a ELSE b
<1> DEFINE more == IF a >= b THEN a ELSE b
           less == IF a <= b THEN a ELSE b
<1>1. more \in {a, b} /\ \A y \in {a, b} : more >= y
  OBVIOUS
<1>2. less \in {a, b} /\ \A y \in {a, b} : less <= y
  OBVIOUS
<1>3. \A x \in {a, b} : (\A y \in {a, b} : x >= y) => x = more
  OBVIOUS
<1>4. \A x \in {a, b} : (\A y \in {a, b} : x <= y) => x = less
  OBVIOUS
<1>5. Max({a, b}) = more
  <2> HIDE DEF more
  <2> QED BY <1>1, <1>3 DEF Max
<1>6. Min({a, b}) = less
  <2> HIDE DEF less
  <2> QED BY <1>2, <1>4 DEF Min
<1>7. QED BY <1>5, <1>6

LEMMA GameIntro ==
  ASSUME NEW bots \in MapsOf(Nat, Bot), NEW effects \in Nat,
         NEW sessions \in MapsOf(Nat \ {0}, Session), NEW match \in Match,
         NEW covers \in MapsOf(Nat, 0..CoverMaxHealth), NEW impacts \in Seq(Impact),
         NEW next \in 0..MaxImpactId, NEW world \in World
  PROVE  [bots |-> bots, effects |-> effects, clients |-> sessions, match |-> match,
          covers |-> covers, impacts |-> impacts, nextImpact |-> next, world |-> world] \in Game
BY DEF Game

\* One value of a map is replaced.
LEMMA MapWith ==
  ASSUME NEW D, NEW V, NEW f \in MapsOf(D, V), NEW k \in DOMAIN f, NEW v \in V
  PROVE  /\ [f EXCEPT ![k] = v] \in MapsOf(D, V)
         /\ DOMAIN [f EXCEPT ![k] = v] = DOMAIN f
         /\ [f EXCEPT ![k] = v][k] = v
         /\ \A j \in DOMAIN f \ {k} : [f EXCEPT ![k] = v][j] = f[j]
<1>1. f \in [DOMAIN f -> V] /\ DOMAIN f \in SUBSET D
  BY MapElim
<1>2. [f EXCEPT ![k] = v] \in [DOMAIN f -> V]
  BY <1>1
<1>3. QED BY <1>1, <1>2, MapIntro

LEMMA GoodWorld ==
  ASSUME NEW g, Good(g), IdsFit(g)
  PROVE  /\ DOMAIN g.world = RosterOf(g) /\ Distinct(g.impacts)
         /\ ShowsCovers(g) /\ \A n \in Ids(g.impacts) : n < g.nextImpact
         /\ CoverEntities(DOMAIN g.covers) \subseteq DOMAIN g.world
         /\ ScoreEntities \subseteq DOMAIN g.world
         /\ PlayerEntities(DOMAIN g.clients) \subseteq DOMAIN g.world
<1>1. Shown(g)
  BY DEF Good
<1>2. DOMAIN g.world = RosterOf(g) /\ Distinct(g.impacts)
  BY <1>1, MirroredIs DEF Shown
<1>3. QED BY <1>1, <1>2 DEF Shown, RosterOf, Roster

\* Where the ids are of a game whose ids fit.
LEMMA GoodRanges ==
  ASSUME NEW g, Good(g), IdsFit(g)
  PROVE  /\ \A i \in DOMAIN g.bots : BotEntity(i) \in BotIds
         /\ \A n \in 0..g.effects - 1 : EffectEntity(n) \in EffectIds
         /\ \A k \in DOMAIN g.covers : CoverEntity(k) \in CoverIds
         /\ \A n \in Ids(g.impacts) : ImpactEntity(n) \in ImpactIds
         /\ \A t \in Team : ScoreEntity(t) \in ScoreIds
         /\ \A c \in DOMAIN g.clients : PlayerEntity(c) \in PlayerIds
<1>1. g \in Game
  BY DEF Good
<1>2. DOMAIN g.clients \subseteq Nat \ {0} /\ g.impacts \in Seq(Impact)
  BY <1>1, GameFields, MapElim
<1>3. Ids(g.impacts) \subseteq Nat
  BY <1>2, IdsAreNumbers
<1>4. \A n \in Ids(g.impacts) : n < g.nextImpact
  BY GoodWorld
<1>5. QED BY <1>1, <1>2, <1>3, <1>4, InRange
       DEF BotEntities, EffectEntities, CoverEntities, ScoreEntities, PlayerEntities

\* What a game shows is still shown by one whose world has the same entities.
LEMMA StillMirrored ==
  ASSUME NEW g, Good(g), NEW h, SameCast(g, h), AliveBots(h) = AliveBots(g),
         Ids(h.impacts) = Ids(g.impacts), Distinct(g.impacts) => Distinct(h.impacts),
         h.nextImpact = g.nextImpact, DOMAIN h.world = DOMAIN g.world,
         IdsFit(g) => ShowsCovers(h)
  PROVE  IdsFit(h) => Shown(h)
<1> SUFFICES ASSUME IdsFit(h) PROVE Shown(h)
  OBVIOUS
<1>1. IdsFit(g)
  BY DEF SameCast
<1>2. RosterOf(h) = RosterOf(g)
  BY DEF RosterOf, SameCast
<1>3. DOMAIN h.world = RosterOf(h) /\ Distinct(h.impacts)
  BY <1>1, <1>2, GoodWorld
<1>4. QED BY <1>1, <1>3, GoodWorld, MirroredIs DEF Shown

LEMMA SameFit ==
  ASSUME NEW g, NEW h, DOMAIN h.bots = DOMAIN g.bots, DOMAIN h.clients = DOMAIN g.clients,
         DOMAIN h.covers = DOMAIN g.covers, h.effects = g.effects, h.nextImpact = g.nextImpact
  PROVE  SameCast(g, h)
BY DEF SameCast, IdsFit

LEMMA CardinalityWith ==
  ASSUME NEW S, IsFiniteSet(S), NEW x
  PROVE  /\ IsFiniteSet(S \cup {x})
         /\ Cardinality(S \cup {x}) <= Cardinality(S) + 1
<1>1. Cardinality(S) \in Nat
  BY FS_CardinalityType
<1>2. CASE x \in S
  <2>1. S \cup {x} = S
    BY <1>2
  <2>2. Cardinality(S \cup {x}) = Cardinality(S)
    BY <2>1, Zenon
  <2>3. IsFiniteSet(S \cup {x})
    BY FS_AddElement
  <2>4. QED BY <1>1, <2>2, <2>3
<1>3. CASE x \notin S
  <2>1. IsFiniteSet(S \cup {x})
    BY FS_AddElement
  <2>2. Cardinality(S \cup {x}) = Cardinality(S) + 1
    BY <1>3, FS_AddElement
  <2>3. QED BY <1>1, <2>1, <2>2
<1>4. IsFiniteSet(S \cup {x})
  BY FS_AddElement
<1>5. QED BY <1>2, <1>3, <1>4

LEMMA Damaged ==
  ASSUME NEW health \in Nat, NEW damage \in Nat
  PROVE  Max({health - damage, 0}) \in 0..health
BY MaxOfTwo

LEMMA DamageBotKeeps ==
  ASSUME NEW g, Good(g), NEW i \in DOMAIN g.bots, NEW event,
         event.team \in Team, event.damage \in Nat
  PROVE  Good(DamageBot(g, i, event)) /\ SameCast(g, DamageBot(g, i, event))
<1> DEFINE health == Max({g.bots[i].health - event.damage, 0})
           h == DamageBot(g, i, event)
<1>1. g \in Game /\ g.bots \in MapsOf(Nat, Bot) /\ DOMAIN g.bots \subseteq Nat /\ g.bots[i] \in Bot
  BY GameFields, MapElim DEF Good
<1>2. /\ g.bots[i].health \in Nat /\ health \in 0..g.bots[i].health
      /\ g.bots[i].health <= BotMaxHealth
  <2>1. g.bots[i].health \in Nat /\ g.bots[i].health <= BotMaxHealth
    BY <1>1, Parameters DEF Bot, Health
  <2>2. QED BY <2>1, Damaged
<1>3. CASE ~ Alive(g.bots[i]) \/ BotTeam(i) = event.team
  BY <1>3 DEF DamageBot, SameCast
<1>4. CASE /\ Alive(g.bots[i]) /\ BotTeam(i) # event.team
           /\ health > 0
  <2> DEFINE hurt == [g.bots[i] EXCEPT !.health = health]
             bots == [g.bots EXCEPT ![i] = hurt]
  <2>1. hurt \in Bot /\ Alive(hurt)
    BY <1>1, <1>2, <1>4, Parameters DEF Bot, Health, Alive
  <2>2. /\ bots \in MapsOf(Nat, Bot) /\ DOMAIN bots = DOMAIN g.bots
        /\ bots[i] = hurt /\ \A j \in DOMAIN g.bots \ {i} : bots[j] = g.bots[j]
    <3> HIDE DEF hurt
    <3> QED BY <1>1, <2>1, MapWith
  <2>3. h = [g EXCEPT !.bots = bots]
    BY <1>1, <1>4 DEF DamageBot, Game
  <2> HIDE DEF bots, h
  <2>4. h = [bots |-> bots, effects |-> g.effects, clients |-> g.clients, match |-> g.match,
             covers |-> g.covers, impacts |-> g.impacts, nextImpact |-> g.nextImpact,
             world |-> g.world]
    BY <1>1, <2>3, GameWith
  <2>5. h \in Game
    BY <1>1, <2>2, <2>4, GameFields, GameIntro
  <2>6. SameCast(g, h) /\ AliveBots(h) = AliveBots(g) /\ AliveClients(h) = AliveClients(g)
    BY <1>4, <2>1, <2>2, <2>4, SameFit DEF AliveBots, AliveClients
  <2>7. IdsFit(h) => Shown(h)
    <3>1. IdsFit(g) => ShowsCovers(h)
      BY <2>4 DEF Good, Shown, ShowsCovers
    <3>2. QED BY <2>4, <2>6, <3>1, StillMirrored
  <2>8. Scored(h)
    BY <1>1, <2>4, <2>6, MoreAliveIsScored, GameFields DEF Good
  <2>9. QED BY <2>4, <2>5, <2>6, <2>7, <2>8 DEF Good, SameCast, h
<1>5. CASE /\ Alive(g.bots[i]) /\ BotTeam(i) # event.team
           /\ ~ (health > 0)
  <2> DEFINE dead == [health |-> 0, wait |-> BotRespawnTicks]
             bots == [g.bots EXCEPT ![i] = dead]
             world == Despawn(g.world, {BotEntity(i)})
             match == AddScore(g.match, event.team)
  <2>1. dead \in Bot /\ ~ Alive(dead)
    BY Parameters DEF Bot, Health, Alive
  <2>2. /\ bots \in MapsOf(Nat, Bot) /\ DOMAIN bots = DOMAIN g.bots
        /\ bots[i] = dead /\ \A j \in DOMAIN g.bots \ {i} : bots[j] = g.bots[j]
    <3> HIDE DEF dead
    <3> QED BY <1>1, <2>1, MapWith
  <2>3. /\ world \in World /\ DOMAIN world = DOMAIN g.world \ {BotEntity(i)}
        /\ \A e \in DOMAIN g.world \ {BotEntity(i)} : world[e] = g.world[e]
    BY <1>1, DespawnIs, GameFields
  <2>4. h = [g EXCEPT !.bots = bots, !.world = world, !.match = match]
    BY <1>1, <1>5 DEF DamageBot
  <2> HIDE DEF bots, h, world, match
  <2>5. h = [bots |-> bots, effects |-> g.effects, clients |-> g.clients, match |-> match,
             covers |-> g.covers, impacts |-> g.impacts, nextImpact |-> g.nextImpact,
             world |-> world]
    BY <1>1, <2>4 DEF Game
  <2>6. SameCast(g, h) /\ AliveBots(h) = AliveBots(g) \ {i} /\ AliveClients(h) = AliveClients(g)
    BY <1>5, <2>1, <2>2, <2>5, SameFit DEF AliveBots, AliveClients
  <2>7. IsFiniteSet(DOMAIN g.bots) /\ IsFiniteSet(DOMAIN g.clients) /\ g.match \in Match /\ Scored(g)
    BY <1>1, GameFields DEF Good
  <2>8. \A t \in Team : DeadOf(g, t) \in Nat /\ DeadOf(h, t) \in Nat
    BY <2>6, <2>7, DeadAreCounted DEF SameCast
  <2>9. DeadOf(h, event.team) <= DeadOf(g, event.team)
    <3>1. /\ DeadBots(h, event.team) = DeadBots(g, event.team)
          /\ DeadClients(h, event.team) = DeadClients(g, event.team)
      BY <1>5, <2>5, <2>6 DEF DeadBots, DeadClients, SameCast
    <3>2. QED BY <2>6, <2>7, <2>8, <3>1, DeadAreCounted DEF SameCast
  <2>10. DeadOf(h, 1 - event.team) <= DeadOf(g, 1 - event.team) + 1
    <3> DEFINE u == 1 - event.team
    <3>1. /\ DeadBots(h, u) \subseteq DeadBots(g, u) \cup {i}
          /\ DeadClients(h, u) = DeadClients(g, u)
      BY <2>5, <2>6 DEF DeadBots, DeadClients, SameCast
    <3> HIDE DEF u
    <3>2. IsFiniteSet(DeadBots(g, u)) /\ Cardinality(DeadBots(g, u)) \in Nat
      BY <2>7, DeadAreCounted
    <3>3. /\ IsFiniteSet(DeadBots(g, u) \cup {i})
          /\ Cardinality(DeadBots(g, u) \cup {i}) <= Cardinality(DeadBots(g, u)) + 1
      BY <3>2, CardinalityWith
    <3>4. Cardinality(DeadBots(h, u)) <= Cardinality(DeadBots(g, u) \cup {i})
      BY <3>1, <3>3, FS_Subset
    <3>5. /\ Cardinality(DeadBots(h, u)) \in Nat /\ Cardinality(DeadBots(g, u) \cup {i}) \in Nat
          /\ Cardinality(DeadClients(g, u)) \in Nat
          /\ DeadOf(h, u) = Cardinality(DeadBots(h, u)) + Cardinality(DeadClients(h, u))
          /\ DeadOf(g, u) = Cardinality(DeadBots(g, u)) + Cardinality(DeadClients(g, u))
      BY <2>6, <2>7, <3>3, DeadAreCounted, FS_CardinalityType DEF SameCast
    <3>6. DeadOf(h, u) <= DeadOf(g, u) + 1
      BY <3>1, <3>2, <3>3, <3>4, <3>5
    <3>7. QED BY <3>6 DEF u
  <2>11. h.match = AddScore(g.match, event.team)
    BY <2>5 DEF match
  <2>12. h.match \in Match /\ Scored(h)
    BY <2>7, <2>8, <2>9, <2>10, <2>11, PointCounts
  <2>13. h \in Game
    BY <1>1, <2>2, <2>3, <2>5, <2>12, GameFields, GameIntro
  <2>14. ASSUME IdsFit(h) PROVE Shown(h)
    <3>1. IdsFit(g)
      BY <2>6, <2>14 DEF SameCast
    <3> DEFINE others == Roster({}, 0..g.effects - 1, DOMAIN g.covers, Ids(g.impacts), DOMAIN g.clients)
    <3>2. BotEntity(i) \notin others
      <4>1. others \subseteq EffectIds \cup CoverIds \cup ImpactIds \cup ScoreIds \cup PlayerIds
        BY <3>1, GoodRanges DEF Roster, BotEntities, EffectEntities, CoverEntities, ImpactEntities,
                                ScoreEntities, PlayerEntities
      <4>2. BotEntity(i) \in BotIds
        BY <3>1, GoodRanges
      <4> HIDE DEF others
      <4>3. QED BY <4>1, <4>2, RangesDiffer
    <3>3. AliveBots(g) \in SUBSET Nat /\ i \in Nat
      BY <1>1 DEF AliveBots
    <3>4. RosterOf(h) = RosterOf(g) \ {BotEntity(i)}
      BY <2>5, <2>6, <3>2, <3>3, BotLeaves DEF RosterOf
    <3>5. DOMAIN h.world = RosterOf(h) /\ Distinct(h.impacts)
      BY <2>3, <2>5, <3>1, <3>4, GoodWorld
    <3>6. ShowsCovers(h)
      <4>1. \A k \in DOMAIN g.covers : CoverEntity(k) \in DOMAIN g.world \ {BotEntity(i)}
        BY <3>1, GoodWorld, GoodRanges, RangesDiffer DEF CoverEntities
      <4>2. QED BY <2>3, <2>5, <3>1, <4>1, GoodWorld DEF ShowsCovers
    <3>7. QED BY <2>5, <3>1, <3>5, <3>6, GoodWorld, MirroredIs DEF Shown
  <2>15. QED BY <2>5, <2>6, <2>7, <2>12, <2>13, <2>14 DEF Good, SameCast, h
<1>6. QED BY <1>3, <1>4, <1>5

-------------------------------------------------------------------------------
(* Payloads are rewritten. *)

SameButWorld(g, h) ==
  /\ h.bots = g.bots /\ h.clients = g.clients /\ h.match = g.match
  /\ h.covers = g.covers /\ h.impacts = g.impacts
  /\ h.effects = g.effects /\ h.nextImpact = g.nextImpact
  /\ DOMAIN h.world = DOMAIN g.world

LEMMA SameButWorldKeeps ==
  ASSUME NEW g, Good(g), NEW h \in Game, SameButWorld(g, h), IdsFit(g) => ShowsCovers(h)
  PROVE  Good(h) /\ SameCast(g, h) /\ SameCast(h, g)
<1>1. /\ SameCast(g, h) /\ SameCast(h, g)
      /\ AliveBots(h) = AliveBots(g) /\ AliveClients(h) = AliveClients(g)
  BY SameFit DEF SameButWorld, AliveBots, AliveClients
<1>2. IdsFit(h) => Shown(h)
  BY <1>1, StillMirrored DEF SameButWorld
<1>3. Scored(h)
  BY <1>1, MoreAliveIsScored, GameFields DEF Good, SameButWorld
<1>4. QED BY <1>1, <1>2, <1>3 DEF Good, SameButWorld

Rewrite(g, p) == [g EXCEPT !.world = SetPayloads(@, p)]

LEMMA Rewritten ==
  ASSUME NEW g \in Game, NEW p, \A e \in DOMAIN p : p[e] \in Payload,
         NEW h, h = Rewrite(g, p)
  PROVE  /\ h \in Game /\ SameButWorld(g, h)
         /\ \A e \in DOMAIN g.world : h.world[e] = IF e \in DOMAIN p THEN p[e] ELSE g.world[e]
<1> DEFINE w == SetPayloads(g.world, p)
<1>1. /\ w \in World /\ DOMAIN w = DOMAIN g.world
      /\ \A e \in DOMAIN g.world : w[e] = IF e \in DOMAIN p THEN p[e] ELSE g.world[e]
  BY GameFields, SetPayloadsIs
<1>2. h = [g EXCEPT !.world = w]
  BY DEF Rewrite
<1> HIDE DEF w
<1>3. h = [bots |-> g.bots, effects |-> g.effects, clients |-> g.clients, match |-> g.match,
           covers |-> g.covers, impacts |-> g.impacts, nextImpact |-> g.nextImpact,
           world |-> w]
  BY <1>2, GameWith
<1>4. h \in Game
  BY <1>1, <1>3, GameFields, GameIntro
<1>5. QED BY <1>1, <1>3, <1>4 DEF SameButWorld

Said(g, c) == [health |-> g.clients[c].health, style |-> PackedScores(g.match)]

LEMMA ClientsAre ==
  ASSUME NEW g \in Game
  PROVE  /\ DOMAIN g.clients \subseteq Nat
         /\ \A c \in DOMAIN g.clients : g.clients[c] \in Session
         /\ \A S \in SUBSET DOMAIN g.clients :
              /\ PlayerPayloads(g, S) \in World
              /\ DOMAIN PlayerPayloads(g, S) = PlayerEntities(S)
              /\ \A c \in S : PlayerPayloads(g, S)[PlayerEntity(c)] = Said(g, c)
<1>1. g.clients \in MapsOf(Nat \ {0}, Session) /\ g.match \in Match
  BY GameFields
<1>2. DOMAIN g.clients \subseteq Nat /\ \A c \in DOMAIN g.clients : g.clients[c] \in Session
  BY <1>1, MapElim
<1>3. QED BY <1>1, <1>2, PlayerPayloadsAre DEF Said

LEMMA SetPlayerPayloadIs ==
  ASSUME NEW g \in Game, NEW c \in DOMAIN g.clients, NEW h, h = SetPlayerPayload(g, c)
  PROVE  /\ h \in Game /\ SameButWorld(g, h)
         /\ \A e \in DOMAIN g.world : h.world[e] = IF e = PlayerEntity(c) THEN Said(g, c) ELSE g.world[e]
<1> DEFINE p == PlayerPayloads(g, {c})
<1>1. /\ p \in World /\ DOMAIN p = {PlayerEntity(c)}
      /\ p[PlayerEntity(c)] = Said(g, c)
  <2>1. p \in World /\ DOMAIN p = PlayerEntities({c})
    BY ClientsAre
  <2>2. c \in {c} => p[PlayerEntity(c)] = Said(g, c)
    BY ClientsAre
  <2>3. QED BY <2>1, <2>2 DEF PlayerEntities
<1>2. \A e \in DOMAIN p : p[e] \in Payload
  BY <1>1, MapElim DEF World
<1>3. h = Rewrite(g, p)
  BY DEF SetPlayerPayload, Rewrite
<1> HIDE DEF p
<1>4. QED BY <1>1, <1>2, <1>3, Rewritten

LEMMA SetPlayerPayloadKeeps ==
  ASSUME NEW g, Good(g), NEW c \in DOMAIN g.clients
  PROVE  Good(SetPlayerPayload(g, c)) /\ SameCast(g, SetPlayerPayload(g, c))
<1>1. PICK h : h = SetPlayerPayload(g, c)
  OBVIOUS
<1>2. /\ h \in Game /\ SameButWorld(g, h)
      /\ \A e \in DOMAIN g.world : h.world[e] = IF e = PlayerEntity(c) THEN Said(g, c) ELSE g.world[e]
  BY <1>1, SetPlayerPayloadIs DEF Good
<1>3. ASSUME IdsFit(g) PROVE ShowsCovers(h)
  <2>1. \A k \in DOMAIN g.covers : CoverEntity(k) \in DOMAIN g.world /\ CoverEntity(k) # PlayerEntity(c)
    BY <1>3, GoodWorld, GoodRanges, RangesDiffer DEF CoverEntities
  <2>2. QED BY <1>2, <1>3, <2>1, GoodWorld DEF ShowsCovers, SameButWorld
<1>4. QED BY <1>1, <1>2, <1>3, SameButWorldKeeps

LEMMA UpdateScoreEntitiesKeeps ==
  ASSUME NEW g, Good(g), NEW h, h = UpdateScoreEntities(g)
  PROVE  /\ Good(h) /\ SameButWorld(g, h) /\ SameCast(g, h)
         /\ IdsFit(h) => /\ IdsFit(g) /\ ShowsScores(h)
                         /\ \A c \in DOMAIN g.clients :
                              h.world[PlayerEntity(c)] = g.world[PlayerEntity(c)]
<1> DEFINE p == ScorePayloads(g.match)
<1>1. /\ p \in World /\ DOMAIN p = ScoreEntities
      /\ \A t \in Team : p[ScoreEntity(t)] = PackedScores(g.match)
  BY ScorePayloadsAre, GameFields DEF Good
<1>2. \A e \in DOMAIN p : p[e] \in Payload
  BY <1>1, MapElim DEF World
<1>3. h = Rewrite(g, p)
  BY DEF UpdateScoreEntities, Rewrite
<1> HIDE DEF p
<1>4. /\ h \in Game /\ SameButWorld(g, h)
      /\ \A e \in DOMAIN g.world : h.world[e] = IF e \in DOMAIN p THEN p[e] ELSE g.world[e]
  BY <1>2, <1>3, Rewritten DEF Good
<1>5. ASSUME IdsFit(g)
      PROVE  /\ \A k \in DOMAIN g.covers : CoverEntity(k) \in DOMAIN g.world \ DOMAIN p
             /\ \A c \in DOMAIN g.clients : PlayerEntity(c) \in DOMAIN g.world \ DOMAIN p
             /\ \A t \in Team : ScoreEntity(t) \in DOMAIN g.world \cap DOMAIN p
  <2>1. DOMAIN p \subseteq ScoreIds
    BY <1>1, <1>5, GoodRanges DEF ScoreEntities
  <2>2. QED BY <1>1, <1>5, <2>1, GoodWorld, GoodRanges, RangesDiffer
              DEF CoverEntities, ScoreEntities, PlayerEntities
<1>6. IdsFit(g) => ShowsCovers(h)
  BY <1>4, <1>5, GoodWorld DEF ShowsCovers, SameButWorld
<1>7. IdsFit(g) => ShowsScores(h)
  BY <1>1, <1>4, <1>5 DEF ShowsScores, SameButWorld
<1>8. Good(h) /\ SameCast(g, h)
  BY <1>4, <1>6, SameButWorldKeeps
<1>9. QED BY <1>4, <1>5, <1>7, <1>8 DEF SameCast

LEMMA SameCastTrans ==
  ASSUME NEW f, NEW g, NEW h, SameCast(f, g), SameCast(g, h)
  PROVE  SameCast(f, h)
BY DEF SameCast

\* A client's health and the match change, and nothing else.
LEMMA ClientChanged ==
  ASSUME NEW g, Good(g), NEW c \in DOMAIN g.clients, NEW who \in Session, NEW match \in Match,
         NEW h, h = [bots |-> g.bots, effects |-> g.effects,
                     clients |-> [g.clients EXCEPT ![c] = who], match |-> match,
                     covers |-> g.covers, impacts |-> g.impacts, nextImpact |-> g.nextImpact,
                     world |-> g.world]
  PROVE  /\ h \in Game /\ SameCast(g, h) /\ (IdsFit(h) => Shown(h))
         /\ h.match = match /\ DOMAIN h.clients = DOMAIN g.clients /\ h.impacts = g.impacts
         /\ AliveBots(h) = AliveBots(g)
         /\ h.clients[c] = who /\ \A d \in DOMAIN g.clients \ {c} : h.clients[d] = g.clients[d]
<1> DEFINE sessions == [g.clients EXCEPT ![c] = who]
<1>1. /\ sessions \in MapsOf(Nat \ {0}, Session) /\ DOMAIN sessions = DOMAIN g.clients
      /\ sessions[c] = who /\ \A d \in DOMAIN g.clients \ {c} : sessions[d] = g.clients[d]
  <2>1. g.clients \in MapsOf(Nat \ {0}, Session)
    BY GameFields DEF Good
  <2>2. QED BY <2>1, MapWith
<1> HIDE DEF sessions
<1>2. h = [bots |-> g.bots, effects |-> g.effects, clients |-> sessions, match |-> match,
           covers |-> g.covers, impacts |-> g.impacts, nextImpact |-> g.nextImpact,
           world |-> g.world]
  BY DEF sessions
<1>3. h \in Game
  BY <1>1, <1>2, GameFields, GameIntro DEF Good
<1>4. SameCast(g, h) /\ AliveBots(h) = AliveBots(g)
  BY <1>1, <1>2, SameFit DEF AliveBots
<1>5. IdsFit(h) => Shown(h)
  <2>1. IdsFit(g) => ShowsCovers(h)
    BY <1>2 DEF Good, Shown, ShowsCovers
  <2>2. QED BY <1>2, <1>4, <2>1, StillMirrored
<1>6. QED BY <1>1, <1>2, <1>3, <1>4, <1>5

LEMMA DamageClientKeeps ==
  ASSUME NEW g, Good(g), NEW c \in DOMAIN g.clients, NEW event,
         event.team \in Team, event.damage \in Nat
  PROVE  Good(DamageClient(g, c, event)) /\ SameCast(g, DamageClient(g, c, event))
<1> DEFINE health == Max({g.clients[c].health - event.damage, 0})
           who == g.clients[c]
<1>1. g \in Game /\ who \in Session /\ g.match \in Match /\ c \in Nat
  BY ClientsAre, GameFields DEF Good
<1>2. who = [health |-> who.health, cooldown |-> who.cooldown, wait |-> who.wait]
  BY <1>1 DEF Session
<1>3. who.health \in Nat /\ health \in 0..who.health /\ who.health <= PlayerMaxHealth
  <2>1. who.health \in Nat /\ who.health <= PlayerMaxHealth
    BY <1>1, Parameters DEF Session
  <2>2. QED BY <2>1, Damaged
<1>4. IsFiniteSet(DOMAIN g.bots) /\ IsFiniteSet(DOMAIN g.clients) /\ Scored(g)
  BY DEF Good
<1>5. CASE ~ Alive(who) \/ TeamForClient(c) = event.team
  BY <1>5 DEF DamageClient, SameCast
<1>6. CASE /\ Alive(who) /\ TeamForClient(c) # event.team
           /\ health > 0
  <2> DEFINE weaker == [health |-> health, cooldown |-> who.cooldown, wait |-> who.wait]
             h == [bots |-> g.bots, effects |-> g.effects,
                   clients |-> [g.clients EXCEPT ![c] = weaker], match |-> g.match,
                   covers |-> g.covers, impacts |-> g.impacts, nextImpact |-> g.nextImpact,
                   world |-> g.world]
  <2>1. weaker \in Session /\ Alive(weaker)
    BY <1>1, <1>3, <1>6, Parameters DEF Session, Alive
  <2>2. DamageClient(g, c, event) = SetPlayerPayload(h, c)
    <3>1. [who EXCEPT !.health = health] = weaker
      BY <1>2
    <3>2. [g EXCEPT !.clients[c] = weaker] = h
      BY <1>1 DEF Game
    <3>3. QED BY <1>6, <3>1, <3>2 DEF DamageClient
  <2> HIDE DEF weaker
  <2>3. PICK k : k = h
    OBVIOUS
  <2>4. /\ k \in Game /\ SameCast(g, k) /\ (IdsFit(k) => Shown(k))
        /\ k.match = g.match /\ DOMAIN k.clients = DOMAIN g.clients /\ k.impacts = g.impacts
        /\ AliveBots(k) = AliveBots(g)
        /\ k.clients[c] = weaker /\ \A d \in DOMAIN g.clients \ {c} : k.clients[d] = g.clients[d]
    BY <1>1, <2>1, <2>3, ClientChanged
  <2>5. AliveClients(k) = AliveClients(g)
    BY <1>6, <2>1, <2>4 DEF AliveClients
  <2>6. Scored(k)
    BY <1>1, <1>4, <2>4, <2>5, MoreAliveIsScored
  <2>7. Good(k)
    BY <1>4, <2>4, <2>6 DEF Good, SameCast
  <2>8. QED BY <2>2, <2>3, <2>4, <2>7, SetPlayerPayloadKeeps, SameCastTrans
<1>7. CASE /\ Alive(who) /\ TeamForClient(c) # event.team
           /\ ~ (health > 0)
  <2> DEFINE dead == [health |-> health, cooldown |-> who.cooldown, wait |-> PlayerRespawnTicks]
             match == AddScore(g.match, event.team)
             h == [bots |-> g.bots, effects |-> g.effects,
                   clients |-> [g.clients EXCEPT ![c] = dead], match |-> match,
                   covers |-> g.covers, impacts |-> g.impacts, nextImpact |-> g.nextImpact,
                   world |-> g.world]
  <2>1. dead \in Session /\ ~ Alive(dead)
    <3>1. health = 0
      BY <1>3, <1>7
    <3> HIDE DEF health
    <3>2. QED BY <1>1, <3>1, Parameters DEF Session, Alive
  <2>2. match \in Match
    <3>1. CASE ~ IsRoundActive(g.match)
      BY <1>1, <3>1 DEF AddScore
    <3>2. CASE IsRoundActive(g.match)
      <4>1. g.match.scores[event.team] \in 0..MatchScoreLimit
        BY <1>1 DEF Match
      <4>2. g.match.scores[event.team] < MatchScoreLimit
        BY <1>4, <3>2, <4>1, Parameters DEF Scored, IsRoundActive, Team, NoWinner
      <4>3. QED BY <1>1, <3>2, <4>2, AddScoreIs
    <3>3. QED BY <3>1, <3>2
  <2>3. DamageClient(g, c, event) = SetPlayerPayload(h, c)
    <3>1. PICK fallen : fallen = [who EXCEPT !.health = health, !.wait = PlayerRespawnTicks]
      OBVIOUS
    <3>2. fallen = dead
      <4> HIDE DEF health, who
      <4> QED BY <1>1, <3>1 DEF Session
    <3>3. PICK k : k = [g EXCEPT !.clients[c] = fallen, !.match = match]
      OBVIOUS
    <3>4. k = h
      <4> HIDE DEF dead, match
      <4> QED BY <1>1, <3>2, <3>3 DEF Game
    <3> HIDE DEF h
    <3>5. QED BY <1>7, <3>1, <3>3, <3>4 DEF DamageClient
  <2> HIDE DEF dead, match
  <2>4. PICK k : k = h
    OBVIOUS
  <2>5. /\ k \in Game /\ SameCast(g, k) /\ (IdsFit(k) => Shown(k))
        /\ k.match = match /\ DOMAIN k.clients = DOMAIN g.clients /\ k.impacts = g.impacts
        /\ AliveBots(k) = AliveBots(g)
        /\ k.clients[c] = dead /\ \A d \in DOMAIN g.clients \ {c} : k.clients[d] = g.clients[d]
    BY <1>1, <2>1, <2>2, <2>4, ClientChanged
  <2>6. AliveClients(k) = AliveClients(g) \ {c}
    BY <2>1, <2>5 DEF AliveClients
  <2>7. \A t \in Team : DeadOf(g, t) \in Nat /\ DeadOf(k, t) \in Nat
    BY <1>4, <2>5, DeadAreCounted DEF SameCast
  <2>8. DeadOf(k, event.team) <= DeadOf(g, event.team)
    <3>1. /\ DeadBots(k, event.team) = DeadBots(g, event.team)
          /\ DeadClients(k, event.team) = DeadClients(g, event.team)
      BY <1>7, <2>5, <2>6 DEF DeadBots, DeadClients, SameCast
    <3>2. QED BY <1>4, <2>5, <2>7, <3>1, DeadAreCounted DEF SameCast
  <2>9. DeadOf(k, 1 - event.team) <= DeadOf(g, 1 - event.team) + 1
    <3> DEFINE u == 1 - event.team
    <3>1. /\ DeadClients(k, u) \subseteq DeadClients(g, u) \cup {c}
          /\ DeadBots(k, u) = DeadBots(g, u)
      BY <2>5, <2>6 DEF DeadBots, DeadClients, SameCast
    <3> HIDE DEF u
    <3>2. IsFiniteSet(DeadClients(g, u)) /\ Cardinality(DeadClients(g, u)) \in Nat
      BY <1>4, DeadAreCounted
    <3>3. /\ IsFiniteSet(DeadClients(g, u) \cup {c})
          /\ Cardinality(DeadClients(g, u) \cup {c}) <= Cardinality(DeadClients(g, u)) + 1
      BY <3>2, CardinalityWith
    <3>4. Cardinality(DeadClients(k, u)) <= Cardinality(DeadClients(g, u) \cup {c})
      BY <3>1, <3>3, FS_Subset
    <3>5. /\ Cardinality(DeadClients(k, u)) \in Nat /\ Cardinality(DeadClients(g, u) \cup {c}) \in Nat
          /\ Cardinality(DeadBots(g, u)) \in Nat
          /\ DeadOf(k, u) = Cardinality(DeadBots(k, u)) + Cardinality(DeadClients(k, u))
          /\ DeadOf(g, u) = Cardinality(DeadBots(g, u)) + Cardinality(DeadClients(g, u))
      BY <1>4, <2>5, <3>3, DeadAreCounted, FS_CardinalityType DEF SameCast
    <3>6. DeadOf(k, u) <= DeadOf(g, u) + 1
      BY <3>1, <3>2, <3>3, <3>4, <3>5
    <3>7. QED BY <3>6 DEF u
  <2>10. k.match = AddScore(g.match, event.team)
    BY <2>5 DEF match
  <2>11. Scored(k)
    BY <1>1, <1>4, <2>7, <2>8, <2>9, <2>10, PointCounts
  <2>12. Good(k)
    BY <1>4, <2>5, <2>11 DEF Good, SameCast
  <2>13. QED BY <2>3, <2>4, <2>5, <2>12, SetPlayerPayloadKeeps, SameCastTrans
<1>8. QED BY <1>5, <1>6, <1>7

-------------------------------------------------------------------------------
(* The damage events of a tick or of a shot, one by one *)

BotTargets(S) == {BotTarget(i) : i \in S}
ClientTargets(S) == {ClientTarget(c) : c \in S}

Event(g) ==
  [team : Team, target : BotTargets(DOMAIN g.bots) \cup ClientTargets(DOMAIN g.clients),
   damage : Nat]

\* the games the events of g may lead to
LaterGames(g) == {h \in Game : Good(h) /\ SameCast(g, h)}

LEMMA DamageKeeps ==
  ASSUME NEW g, NEW h \in LaterGames(g), NEW event \in Event(g)
  PROVE  Damage(h, event) \in LaterGames(g)
<1>1. Good(h) /\ SameCast(g, h) /\ event.team \in Team /\ event.damage \in Nat
  BY DEF LaterGames, Event
<1>2. CASE event.target \in BotTargets(DOMAIN g.bots)
  <2>1. PICK i \in DOMAIN h.bots : event.target = BotTarget(i)
    BY <1>1, <1>2 DEF BotTargets, SameCast
  <2>2. Damage(h, event) = DamageBot(h, i, event)
    BY <2>1 DEF Damage, BotTarget
  <2>3. QED BY <1>1, <2>2, DamageBotKeeps, SameCastTrans DEF LaterGames, Good
<1>3. CASE event.target \in ClientTargets(DOMAIN g.clients)
  <2>1. PICK c \in DOMAIN h.clients : event.target = ClientTarget(c)
    BY <1>1, <1>3 DEF ClientTargets, SameCast
  <2>2. Damage(h, event) = DamageClient(h, c, event)
    BY <2>1 DEF Damage, ClientTarget
  <2>3. QED BY <1>1, <2>2, DamageClientKeeps, SameCastTrans DEF LaterGames, Good
<1>4. QED BY <1>2, <1>3 DEF Event

DamageEquation(f, g, events) ==
  f = [s \in SUBSET DOMAIN events |->
         IF s = {} THEN g ELSE Damage(f[s \ {Max(s)}], events[Max(s)])]

LEMMA DamageIsFold ==
  ASSUME NEW g, Good(g), NEW n \in Nat, NEW events \in [1..n -> Event(g)]
  PROVE  \E f : DamageEquation(f, g, events) /\ ApplyDamageEvents(g, events) = f[1..n]
<1> DEFINE A == LaterGames(g)
           B == Event(g)
           step == [r \in A \X B |-> Damage(r[1], r[2])]
<1>1. g \in A
  BY DEF LaterGames, Good, SameCast
<1>2. step \in [A \X B -> A] /\ \A h \in A, event \in B : step[<<h, event>>] = Damage(h, event)
  BY DamageKeeps
<1> HIDE DEF A, B, step
<1>3. events \in [1..n -> B]
  BY DEF B
<1>4. PICK f \in [SUBSET (1..n) -> A] : IsLeftFold(f, n, g, events, step)
  BY <1>1, <1>2, <1>3, LeftFoldExists
<1>5. PICK T : T = 1..n
  OBVIOUS
<1>6. \A s \in SUBSET T : s # {} => Max(s) \in s
  BY <1>5, LargestInPart
<1>7. f \in [SUBSET T -> A] /\ events \in [T -> B] /\ DOMAIN events = T
  BY <1>3, <1>4, <1>5
<1>8. \A s \in SUBSET T : f[s] = IF s = {} THEN g ELSE step[<<f[s \ {Max(s)}], events[Max(s)]>>]
  BY <1>4, <1>5 DEF IsLeftFold
<1>9. \A s \in SUBSET T : s # {} => f[s \ {Max(s)}] \in A /\ events[Max(s)] \in B
  BY <1>6, <1>7
<1>10. DamageEquation(f, g, events)
  BY <1>2, <1>7, <1>8, <1>9 DEF DamageEquation
<1> DEFINE h == CHOOSE k : DamageEquation(k, g, events)
<1>11. DamageEquation(h, g, events)
  BY <1>10
<1>12. ApplyDamageEvents(g, events) = h[DOMAIN events]
  BY DEF ApplyDamageEvents, FoldLeft, MapThenFoldSet, DamageEquation
<1>13. QED BY <1>5, <1>7, <1>11, <1>12

LEMMA ApplyDamageEventsKeeps ==
  ASSUME NEW g, Good(g), NEW n \in Nat, NEW events \in [1..n -> Event(g)]
  PROVE  /\ Good(ApplyDamageEvents(g, events)) /\ SameCast(g, ApplyDamageEvents(g, events))
<1>1. PICK f : DamageEquation(f, g, events) /\ ApplyDamageEvents(g, events) = f[1..n]
  BY DamageIsFold
<1> DEFINE G == {s \in SUBSET (1..n) : f[s] \in LaterGames(g)}
<1>2. {} \in G
  <2>1. f[{}] = g
    BY <1>1 DEF DamageEquation
  <2>2. g \in LaterGames(g)
    BY DEF LaterGames, Good, SameCast
  <2>3. QED BY <2>1, <2>2
<1>3. ASSUME NEW s \in SUBSET (1..n), s # {}, s \ {Max(s)} \in G
      PROVE  s \in G
  <2>1. Max(s) \in 1..n
    BY <1>3, LargestInPart
  <2>2. events[Max(s)] \in Event(g) /\ s \in SUBSET DOMAIN events
    BY <2>1
  <2>3. f[s] = Damage(f[s \ {Max(s)}], events[Max(s)])
    BY <1>1, <1>3, <2>2 DEF DamageEquation
  <2>4. f[s \ {Max(s)}] \in LaterGames(g)
    BY <1>3
  <2>5. f[s] \in LaterGames(g)
    BY <2>2, <2>3, <2>4, DamageKeeps
  <2>6. QED BY <2>5
<1>4. 1..n \in G
  <2> HIDE DEF G
  <2> QED BY <1>2, <1>3, BuiltUp
<1>5. QED BY <1>1, <1>4 DEF LaterGames

-------------------------------------------------------------------------------
(* Sessions that come back *)

Back(who) == [health |-> PlayerMaxHealth, cooldown |-> who.cooldown, wait |-> 0]

Respawned(g, S, h) ==
  /\ h \in Game
  /\ h.bots = g.bots /\ h.match = g.match /\ h.covers = g.covers /\ h.impacts = g.impacts
  /\ h.effects = g.effects /\ h.nextImpact = g.nextImpact
  /\ DOMAIN h.clients = DOMAIN g.clients
  /\ \A c \in DOMAIN g.clients : h.clients[c] = IF c \in S THEN Back(g.clients[c]) ELSE g.clients[c]
  /\ DOMAIN h.world = DOMAIN g.world
  /\ \A e \in DOMAIN g.world \ PlayerEntities(S) : h.world[e] = g.world[e]

LEMMA RespawnedOne ==
  ASSUME NEW g \in Game, NEW c \in DOMAIN g.clients, NEW h, h = RespawnClient(g, c)
  PROVE  Respawned(g, {c}, h)
<1> DEFINE who == g.clients[c]
           sessions == [g.clients EXCEPT ![c] = Back(who)]
<1>1. g.clients \in MapsOf(Nat \ {0}, Session) /\ who \in Session
  BY GameFields, ClientsAre
<1>2. Back(who) \in Session
  BY <1>1, Parameters DEF Session, Back
<1>3. /\ sessions \in MapsOf(Nat \ {0}, Session) /\ DOMAIN sessions = DOMAIN g.clients
      /\ sessions[c] = Back(who) /\ \A d \in DOMAIN g.clients \ {c} : sessions[d] = g.clients[d]
  BY <1>1, <1>2, MapWith
<1>4. PICK up : up = [who EXCEPT !.health = PlayerMaxHealth, !.wait = 0]
  OBVIOUS
<1>5. up = Back(who)
  <2> HIDE DEF who
  <2> QED BY <1>1, <1>4 DEF Session, Back
<1>6. PICK back : back = [g EXCEPT !.clients[c] = up]
  OBVIOUS
<1>7. back = [bots |-> g.bots, effects |-> g.effects, clients |-> sessions, match |-> g.match,
              covers |-> g.covers, impacts |-> g.impacts, nextImpact |-> g.nextImpact,
              world |-> g.world]
  BY <1>5, <1>6 DEF Game
<1> HIDE DEF sessions
<1>8. back \in Game
  BY <1>3, <1>7, GameFields, GameIntro
<1>9. h = SetPlayerPayload(back, c) /\ c \in DOMAIN back.clients
  BY <1>3, <1>4, <1>6, <1>7 DEF RespawnClient
<1>10. /\ h \in Game /\ SameButWorld(back, h)
       /\ \A e \in DOMAIN back.world :
            h.world[e] = IF e = PlayerEntity(c) THEN Said(back, c) ELSE back.world[e]
  BY <1>8, <1>9, SetPlayerPayloadIs
<1>11. QED BY <1>3, <1>7, <1>10 DEF Respawned, SameButWorld, PlayerEntities

LEMMA RespawnedMore ==
  ASSUME NEW g, NEW S, NEW h, Respawned(g, S, h), NEW c \in DOMAIN g.clients,
         NEW k, k = RespawnClient(h, c)
  PROVE  Respawned(g, S \cup {c}, k)
<1>1. Respawned(h, {c}, k)
  <2>1. h \in Game /\ c \in DOMAIN h.clients
    BY DEF Respawned
  <2>2. QED BY <2>1, RespawnedOne
<1>2. ASSUME NEW d \in DOMAIN g.clients
      PROVE  k.clients[d] = IF d \in S \cup {c} THEN Back(g.clients[d]) ELSE g.clients[d]
  <2>1. Back(Back(g.clients[d])) = Back(g.clients[d])
    BY DEF Back
  <2>2. QED BY <1>1, <2>1 DEF Respawned
<1>3. PlayerEntities(S) \subseteq PlayerEntities(S \cup {c}) /\ PlayerEntities({c}) \subseteq PlayerEntities(S \cup {c})
  BY DEF PlayerEntities
<1>4. QED BY <1>1, <1>2, <1>3 DEF Respawned

LEMMA RespawnedNone ==
  ASSUME NEW g \in Game
  PROVE  Respawned(g, {}, g)
BY DEF Respawned

LEMMA RespawnClientsIs ==
  ASSUME NEW g \in Game, NEW S \in SUBSET DOMAIN g.clients, IsFiniteSet(S)
  PROVE  Respawned(g, S, RespawnClients(g, S))
<1> DEFINE A == {h \in Game : DOMAIN h.clients = DOMAIN g.clients}
           pick == PickedIn(S)
           step == [r \in (SUBSET S) \X A |-> IF r[1] = {} THEN r[2] ELSE RespawnClient(r[2], Picked(r[1]))]
<1>1. Picks(pick, S) /\ \A s \in SUBSET S : s # {} => pick[s] = Picked(s) /\ Picked(s) \in s
  BY PickedPicks
<1>2. step \in [(SUBSET S) \X A -> A]
  <2>1. ASSUME NEW s \in SUBSET S, NEW h \in A, s # {}
        PROVE  RespawnClient(h, Picked(s)) \in A
    <3>1. Picked(s) \in DOMAIN h.clients
      BY <1>1, <2>1
    <3>2. Respawned(h, {Picked(s)}, RespawnClient(h, Picked(s)))
      BY <3>1, RespawnedOne
    <3>3. QED BY <3>2 DEF Respawned
  <2>2. QED BY <2>1
<1>3. PICK f \in [SUBSET S -> A] : IsFold(f, S, g, pick, step)
  <2>1. g \in A
    OBVIOUS
  <2> HIDE DEF pick, step, A
  <2>2. QED BY <1>1, <1>2, <2>1, FoldExists
<1> DEFINE Equation(k) ==
             k = [s \in SUBSET S |-> IF s = {} THEN g ELSE RespawnClient(k[s \ {Picked(s)}], Picked(s))]
<1>4. Equation(f)
  <2>1. ASSUME NEW s \in SUBSET S
        PROVE  f[s] = IF s = {} THEN g ELSE RespawnClient(f[s \ {Picked(s)}], Picked(s))
    <3>1. f[s] = IF s = {} THEN g ELSE step[<<s, f[s \ {pick[s]}]>>]
      <4> HIDE DEF pick, step
      <4> QED BY <1>3 DEF IsFold
    <3>2. f[s \ {Picked(s)}] \in A
      BY <1>3
    <3>3. QED BY <1>1, <3>1, <3>2
  <2>2. QED BY <1>3, <2>1
<1> DEFINE h == CHOOSE k : Equation(k)
<1>5. Equation(h)
  BY <1>4
<1>6. RespawnClients(g, S) = h[S]
  BY DEF RespawnClients, FoldSet, MapThenFoldSet, Picked
<1> DEFINE C == {s \in SUBSET S : ~ Respawned(g, s, h[s])}
<1>7. C = {}
  <2>1. SUFFICES ASSUME C # {} PROVE FALSE
    OBVIOUS
  <2>2. PICK s \in C : \A u \in C : u \subseteq s => u = s
    <3>1. C \subseteq SUBSET S
      OBVIOUS
    <3> HIDE DEF C
    <3>2. QED BY <2>1, <3>1, MinimalSet
  <2> HIDE DEF h
  <2>3. h[s] = IF s = {} THEN g ELSE RespawnClient(h[s \ {Picked(s)}], Picked(s))
    BY <1>5
  <2>4. s # {}
    BY <2>3, RespawnedNone
  <2>5. Picked(s) \in s /\ s \in SUBSET S
    BY <1>1, <2>4
  <2>6. Respawned(g, s \ {Picked(s)}, h[s \ {Picked(s)}])
    BY <2>2, <2>5
  <2>7. Respawned(g, (s \ {Picked(s)}) \cup {Picked(s)}, h[s])
    BY <2>3, <2>4, <2>5, <2>6, RespawnedMore
  <2>8. (s \ {Picked(s)}) \cup {Picked(s)} = s
    BY <2>5
  <2>9. QED BY <2>7, <2>8
<1>8. QED BY <1>6, <1>7

LEMMA RespawnedKeeps ==
  ASSUME NEW g, Good(g), NEW S \in SUBSET DOMAIN g.clients, NEW h, Respawned(g, S, h)
  PROVE  Good(h) /\ SameCast(g, h)
<1>1. SameCast(g, h) /\ AliveBots(h) = AliveBots(g)
  BY SameFit DEF Respawned, AliveBots
<1>2. AliveClients(g) \subseteq AliveClients(h)
  <2>1. \A who : Alive(Back(who))
    BY Parameters DEF Back, Alive
  <2>2. QED BY <2>1 DEF Respawned, AliveClients
<1>3. ASSUME IdsFit(g) PROVE ShowsCovers(h)
  <2>1. \A k \in DOMAIN g.covers : CoverEntity(k) \in DOMAIN g.world \ PlayerEntities(S)
    BY <1>3, GoodWorld, GoodRanges, RangesDiffer DEF CoverEntities, PlayerEntities
  <2>2. QED BY <1>3, <2>1, GoodWorld DEF Respawned, ShowsCovers
<1>4. IdsFit(h) => Shown(h)
  BY <1>1, <1>3, StillMirrored DEF Respawned
<1>5. Scored(h)
  BY <1>1, <1>2, MoreAliveIsScored, GameFields DEF Good, Respawned
<1>6. QED BY <1>1, <1>4, <1>5 DEF Good, SameCast, Respawned
-------------------------------------------------------------------------------
(* A tick: time passes *)

LEMMA SoonerIs ==
  ASSUME NEW most \in Nat, NEW n \in 0..most
  PROVE  Sooner(n) \in 0..most /\ (n = 0 => Sooner(n) = 0)
<1>1. Sooner(n) = IF n - 1 >= 0 THEN n - 1 ELSE 0
  BY MaxOfTwo DEF Sooner
<1>2. QED BY <1>1

\* A map of the same keys whose values are those that make takes them to.
LEMMA MapOver ==
  ASSUME NEW D, NEW V, NEW f \in MapsOf(D, V), NEW h, DOMAIN h = DOMAIN f,
         h = [k \in DOMAIN h |-> h[k]], \A k \in DOMAIN f : h[k] \in V
  PROVE  h \in MapsOf(D, V)
<1>1. DOMAIN f \in SUBSET D
  BY MapElim
<1>2. h \in [DOMAIN f -> V]
  OBVIOUS
<1>3. QED BY <1>1, <1>2, MapIntro

LEMMA AgedKeeps ==
  ASSUME NEW g, Good(g), NEW h, h = Aged(g)
  PROVE  Good(h) /\ SameCast(g, h)
<1> DEFINE bots == [i \in DOMAIN g.bots |-> [g.bots[i] EXCEPT !.wait = Sooner(@)]]
           sessions == [c \in DOMAIN g.clients |->
                          [g.clients[c] EXCEPT !.wait = Sooner(@), !.cooldown = Sooner(@)]]
           match == [g.match EXCEPT !.reset = Sooner(@)]
           impacts == [n \in DOMAIN g.impacts |-> [g.impacts[n] EXCEPT !.left = Sooner(@)]]
<1>1. /\ g \in Game /\ g.bots \in MapsOf(Nat, Bot) /\ g.clients \in MapsOf(Nat \ {0}, Session)
      /\ g.match \in Match /\ g.impacts \in Seq(Impact)
  BY GameFields DEF Good
<1>2. h = [g EXCEPT !.bots = bots, !.clients = sessions, !.match = match, !.impacts = impacts]
  BY DEF Aged
<1>3. /\ bots \in MapsOf(Nat, Bot) /\ DOMAIN bots = DOMAIN g.bots
      /\ \A i \in DOMAIN g.bots : bots[i].health = g.bots[i].health
  <2>1. ASSUME NEW bot \in Bot, NEW k, k = [bot EXCEPT !.wait = Sooner(bot.wait)]
        PROVE  k \in Bot /\ k.health = bot.health
    <3>1. Sooner(bot.wait) \in 0..BotRespawnTicks /\ (bot.wait = 0 => Sooner(bot.wait) = 0)
      BY SoonerIs, Parameters DEF Bot, Health
    <3>2. QED BY <2>1, <3>1 DEF Bot, Health
  <2>2. \A i \in DOMAIN g.bots : g.bots[i] \in Bot
    BY <1>1, MapElim
  <2>3. \A i \in DOMAIN g.bots : bots[i] \in Bot /\ bots[i].health = g.bots[i].health
    BY <2>1, <2>2
  <2>4. QED BY <1>1, <2>3, MapOver
<1>4. /\ sessions \in MapsOf(Nat \ {0}, Session) /\ DOMAIN sessions = DOMAIN g.clients
      /\ \A c \in DOMAIN g.clients : sessions[c].health = g.clients[c].health
  <2>1. ASSUME NEW who \in Session, NEW k,
               k = [who EXCEPT !.wait = Sooner(who.wait), !.cooldown = Sooner(who.cooldown)]
        PROVE  k \in Session /\ k.health = who.health
    <3>1. /\ Sooner(who.wait) \in 0..PlayerRespawnTicks /\ (who.wait = 0 => Sooner(who.wait) = 0)
          /\ Sooner(who.cooldown) \in 0..PlayerFireCooldownTicks
      BY SoonerIs, Parameters DEF Session
    <3>2. QED BY <2>1, <3>1 DEF Session
  <2>2. \A c \in DOMAIN g.clients : g.clients[c] \in Session
    BY <1>1, MapElim
  <2>3. \A c \in DOMAIN g.clients : sessions[c] \in Session /\ sessions[c].health = g.clients[c].health
    BY <2>1, <2>2
  <2>4. QED BY <1>1, <2>3, MapOver
<1>5. match \in Match /\ match.scores = g.match.scores /\ match.winner = g.match.winner
  <2>1. Sooner(g.match.reset) \in 0..MatchResetTicks /\ (g.match.reset = 0 => Sooner(g.match.reset) = 0)
    BY <1>1, SoonerIs, Parameters DEF Match
  <2>2. Sooner(g.match.reset) > 0 => g.match.reset > 0
    BY <1>1, <2>1, Parameters DEF Match
  <2>3. QED BY <1>1, <2>1, <2>2 DEF Match, IsRoundActive
<1>6. /\ impacts \in Seq(Impact) /\ Len(impacts) = Len(g.impacts)
      /\ \A n \in DOMAIN g.impacts : impacts[n].id = g.impacts[n].id
  <2>1. ASSUME NEW impact \in Impact, NEW k, k = [impact EXCEPT !.left = Sooner(impact.left)]
        PROVE  k \in Impact /\ k.id = impact.id
    <3>1. Sooner(impact.left) \in 0..ImpactLifetimeTicks
      BY SoonerIs, Parameters DEF Impact
    <3>2. QED BY <2>1, <3>1 DEF Impact
  <2>2. \A n \in DOMAIN g.impacts : g.impacts[n] \in Impact
    BY <1>1
  <2>3. \A n \in DOMAIN g.impacts : impacts[n] \in Impact /\ impacts[n].id = g.impacts[n].id
    BY <2>1, <2>2
  <2>4. DOMAIN impacts = DOMAIN g.impacts
    OBVIOUS
  <2>5. DOMAIN g.impacts = 1..Len(g.impacts) /\ Len(g.impacts) \in Nat
    BY <1>1
  <2>6. impacts = [n \in 1..Len(g.impacts) |-> impacts[n]]
    BY <2>5
  <2> HIDE DEF impacts
  <2>7. impacts \in [1..Len(g.impacts) -> Impact]
    BY <2>3, <2>5, <2>6
  <2>8. QED BY <2>3, <2>5, <2>7
<1> HIDE DEF bots, sessions, match, impacts
<1>7. h = [bots |-> bots, effects |-> g.effects, clients |-> sessions, match |-> match,
           covers |-> g.covers, impacts |-> impacts, nextImpact |-> g.nextImpact,
           world |-> g.world]
  BY <1>1, <1>2 DEF Game
<1>8. h \in Game
  BY <1>1, <1>3, <1>4, <1>5, <1>6, <1>7, GameFields, GameIntro
<1>9. SameCast(g, h) /\ AliveBots(h) = AliveBots(g) /\ AliveClients(h) = AliveClients(g)
  BY <1>3, <1>4, <1>7, SameFit DEF AliveBots, AliveClients, Alive
<1>10. IdsFit(h) => Shown(h)
  <2>1. DOMAIN impacts = DOMAIN g.impacts
    BY <1>1, <1>6
  <2>2. Ids(impacts) = Ids(g.impacts)
    BY <1>6, <2>1 DEF Ids, Range
  <2>3. Distinct(g.impacts) => Distinct(impacts)
    BY <1>6, <2>1 DEF Distinct
  <2>4. IdsFit(g) => ShowsCovers(h)
    BY <1>7 DEF Good, Shown, ShowsCovers
  <2>5. QED BY <1>7, <1>9, <2>2, <2>3, <2>4, StillMirrored
<1>11. Scored(h)
  BY <1>5, <1>7, <1>9, <1>1, MoreAliveIsScored DEF Good
<1>12. QED BY <1>6, <1>7, <1>8, <1>9, <1>10, <1>11 DEF Good, SameCast
-------------------------------------------------------------------------------
(* A new round *)

LEMMA ResetRoundIs ==
  ASSUME NEW match \in Match
  PROVE  /\ ResetRound(match) \in Match /\ IsRoundActive(ResetRound(match))
         /\ \A t \in Team : ResetRound(match).scores[t] = 0
<1> DEFINE round == Min({match.round + 1, MaxRound})
<1>1. round \in 0..MaxRound
  <2>1. match.round \in 0..MaxRound /\ match.round + 1 \in Nat
    BY Parameters DEF Match
  <2>2. PICK next : next = match.round + 1
    OBVIOUS
  <2>3. next \in Int /\ MaxRound \in Int
    BY <2>1, <2>2, Parameters
  <2>4. Min({next, MaxRound}) = IF next <= MaxRound THEN next ELSE MaxRound
    BY <2>3, MaxOfTwo
  <2>5. QED BY <2>1, <2>2, <2>4, Parameters
<1>2. ResetRound(match) = [scores |-> [t \in Team |-> 0], winner |-> NoWinner, reset |-> 0, round |-> round]
  BY DEF ResetRound, FirstMatch
<1> HIDE DEF round
<1>3. QED BY <1>1, <1>2, Parameters DEF Match, IsRoundActive

LEMMA NobodyDead ==
  ASSUME NEW g, AliveBots(g) = DOMAIN g.bots, AliveClients(g) = DOMAIN g.clients, NEW team
  PROVE  DeadOf(g, team) = 0
<1>1. /\ {i \in DOMAIN g.bots \ AliveBots(g) : BotTeam(i) = team} = {}
      /\ {c \in DOMAIN g.clients \ AliveClients(g) : TeamForClient(c) = team} = {}
  OBVIOUS
<1>2. Cardinality({}) = 0
  BY FS_EmptySet
<1>3. DeadOf(g, team) = 0 + 0
  BY <1>1, <1>2 DEF DeadOf
<1>4. QED BY <1>3

LEMMA FullBotIs == FullBot \in Bot /\ Alive(FullBot)
BY Parameters DEF FullBot, Bot, Health, Alive

LEMMA MaybeResetRoundKeeps ==
  ASSUME NEW g, Good(g)
  PROVE  Good(MaybeResetRound(g)) /\ SameCast(g, MaybeResetRound(g))
<1>1. CASE IsRoundActive(g.match) \/ g.match.reset > 0
  BY <1>1 DEF MaybeResetRound, SameCast
<1>2. CASE ~ (IsRoundActive(g.match) \/ g.match.reset > 0)
  <2> DEFINE bots == [i \in DOMAIN g.bots |-> FullBot]
             covers == [k \in DOMAIN g.covers |-> CoverMaxHealth]
             match == ResetRound(g.match)
             called == BotPayloads([bots |-> bots], DOMAIN bots)
             mended == CoverPayloads(covers)
             world == SetPayloads(Spawn(g.world, called), mended)
  <2>1. /\ g \in Game /\ g.bots \in MapsOf(Nat, Bot) /\ g.clients \in MapsOf(Nat \ {0}, Session)
        /\ g.match \in Match /\ g.covers \in MapsOf(Nat, 0..CoverMaxHealth)
        /\ g.impacts \in Seq(Impact) /\ g.world \in World
    BY GameFields DEF Good
  <2>2. /\ bots \in MapsOf(Nat, Bot) /\ DOMAIN bots = DOMAIN g.bots
        /\ \A i \in DOMAIN g.bots : bots[i] \in Bot /\ Alive(bots[i])
    BY <2>1, FullBotIs, MapOver
  <2>3. /\ covers \in MapsOf(Nat, 0..CoverMaxHealth) /\ DOMAIN covers = DOMAIN g.covers
    BY SMTT(30), <2>1, Parameters, MapOver
  <2>4. match \in Match /\ IsRoundActive(match) /\ \A t \in Team : match.scores[t] = 0
    BY <2>1, ResetRoundIs
  <2>5. called \in World /\ DOMAIN called = BotEntities(DOMAIN g.bots)
    <3>1. DOMAIN bots \in SUBSET Nat /\ \A i \in DOMAIN bots : [bots |-> bots].bots[i] \in Bot
      BY <2>2, MapElim
    <3> HIDE DEF bots
    <3>2. QED BY <2>2, <3>1, BotPayloadsAre
  <2>6. /\ mended \in World /\ DOMAIN mended = CoverEntities(DOMAIN g.covers)
        /\ \A k \in DOMAIN g.covers : mended[CoverEntity(k)] = covers[k]
    <3> HIDE DEF covers
    <3> QED BY <2>3, CoverPayloadsAre
  <2>7. PICK fresh : fresh = [g EXCEPT !.match = match, !.bots = bots, !.covers = covers]
    OBVIOUS
  <2>8. PICK mid : mid = [fresh EXCEPT !.world = world]
    OBVIOUS
  <2>9. MaybeResetRound(g) = UpdateScoreEntities(RespawnClients(mid, DOMAIN g.clients))
    <3>1. fresh.bots = bots /\ fresh.covers = covers /\ fresh.clients = g.clients
      BY <2>1, <2>7 DEF Game
    <3>2. BotPayloads(fresh, DOMAIN fresh.bots) = called
      BY <3>1 DEF BotPayloads
    <3>3. CoverPayloads(fresh.covers) = mended
      BY <3>1
    <3>4. QED BY <1>2, <2>7, <2>8, <3>1, <3>2, <3>3 DEF MaybeResetRound
  <2> HIDE DEF bots, covers, match, called, mended
  <2>10. /\ world \in World /\ DOMAIN world = DOMAIN g.world \cup DOMAIN called
         /\ IdsFit(g) => \A k \in DOMAIN g.covers : world[CoverEntity(k)] = covers[k]
    <3> DEFINE w == Spawn(g.world, called)
    <3>1. w \in World /\ DOMAIN w = DOMAIN g.world \cup DOMAIN called
      BY <2>1, <2>5, SpawnIs
    <3>2. \A e \in DOMAIN mended : mended[e] \in Payload
      BY <2>6, MapElim DEF World
    <3> HIDE DEF w
    <3>3. /\ SetPayloads(w, mended) \in World /\ DOMAIN SetPayloads(w, mended) = DOMAIN w
          /\ \A e \in DOMAIN w : SetPayloads(w, mended)[e] = IF e \in DOMAIN mended THEN mended[e] ELSE w[e]
      BY <3>1, <3>2, SetPayloadsIs
    <3>4. world = SetPayloads(w, mended)
      BY DEF w
    <3>5. ASSUME IdsFit(g), NEW k \in DOMAIN g.covers
          PROVE  CoverEntity(k) \in DOMAIN g.world /\ CoverEntity(k) \in DOMAIN mended
      BY <2>6, <3>5, GoodWorld DEF CoverEntities
    <3> HIDE DEF world
    <3>6. QED BY <2>6, <3>1, <3>3, <3>4, <3>5
  <2> HIDE DEF world
  <2>11. mid = [bots |-> bots, effects |-> g.effects, clients |-> g.clients, match |-> match,
                covers |-> covers, impacts |-> g.impacts, nextImpact |-> g.nextImpact,
                world |-> world]
    BY <2>1, <2>7, <2>8 DEF Game
  <2>12. mid \in Game
    BY <2>1, <2>2, <2>3, <2>4, <2>10, <2>11, GameIntro, GameFields
  <2>13. IdsFit(g) => DOMAIN world = Roster(DOMAIN g.bots, 0..g.effects - 1, DOMAIN g.covers,
                                            Ids(g.impacts), DOMAIN g.clients)
    <3>1. AliveBots(g) \cup DOMAIN g.bots = DOMAIN g.bots
      BY DEF AliveBots
    <3>2. QED BY <2>5, <2>10, <3>1, GoodWorld, BotsCome DEF RosterOf
  <2>14. PICK h : h = RespawnClients(mid, DOMAIN g.clients)
    OBVIOUS
  <2>15. Respawned(mid, DOMAIN g.clients, h)
    BY <2>11, <2>12, <2>14, RespawnClientsIs DEF Good
  <2>16. /\ h.bots = bots /\ h.match = match /\ h.covers = covers /\ h.impacts = g.impacts
         /\ h.effects = g.effects /\ h.nextImpact = g.nextImpact
         /\ DOMAIN h.clients = DOMAIN g.clients /\ DOMAIN h.world = DOMAIN world
         /\ h \in Game
    BY <2>11, <2>15 DEF Respawned
  <2>17. AliveBots(h) = DOMAIN h.bots /\ AliveClients(h) = DOMAIN h.clients
    <3>1. \A who : Alive(Back(who))
      BY Parameters DEF Back, Alive
    <3>2. \A c \in DOMAIN g.clients : Alive(h.clients[c])
      BY <2>11, <2>15, <3>1 DEF Respawned
    <3>3. QED BY <2>2, <2>16, <3>2 DEF AliveBots, AliveClients
  <2>18. SameCast(g, h)
    BY <2>2, <2>3, <2>16, SameFit
  <2>19. Scored(h)
    <3>1. \A t \in Team : DeadOf(h, t) = 0 /\ 1 - t \in Team
      BY <2>17, NobodyDead DEF Team
    <3>2. QED BY <2>4, <2>16, <3>1, Parameters DEF Scored, IsRoundActive, Team, NoWinner
  <2>20. ASSUME IdsFit(h) PROVE Shown(h)
    <3>1. IdsFit(g)
      BY <2>18, <2>20 DEF SameCast
    <3>2. DOMAIN h.world = RosterOf(h) /\ Distinct(h.impacts)
      BY <2>2, <2>3, <2>13, <2>16, <2>17, <3>1, GoodWorld DEF RosterOf
    <3>3. ShowsCovers(h)
      <4>1. \A k \in DOMAIN g.covers : CoverEntity(k) \in DOMAIN world
        BY <2>10, <3>1, GoodWorld DEF CoverEntities
      <4>2. \A k \in DOMAIN g.covers : CoverEntity(k) \notin PlayerEntities(DOMAIN g.clients)
        BY <3>1, GoodRanges, RangesDiffer DEF PlayerEntities
      <4>3. \A e \in DOMAIN world \ PlayerEntities(DOMAIN g.clients) : h.world[e] = world[e]
        BY <2>11, <2>15 DEF Respawned
      <4>4. QED BY <2>3, <2>10, <2>16, <3>1, <4>1, <4>2, <4>3 DEF ShowsCovers
    <3>4. QED BY <2>16, <3>1, <3>2, <3>3, GoodWorld, MirroredIs DEF Shown
  <2>21. Good(h)
    BY <2>2, <2>16, <2>19, <2>20 DEF Good
  <2>22. QED BY <2>9, <2>14, <2>18, <2>21, UpdateScoreEntitiesKeeps, SameCastTrans
<1>3. QED BY <1>1, <1>2
-------------------------------------------------------------------------------
(* What a tick writes of bots, sessions and scores *)

LEMMA UpdateDemoEntitiesKeeps ==
  ASSUME NEW g, Good(g)
  PROVE  /\ Good(UpdateDemoEntities(g)) /\ SameCast(g, UpdateDemoEntities(g))
<1> DEFINE R == Returning(g)
           bots == [i \in DOMAIN g.bots |-> IF i \in R THEN FullBot ELSE g.bots[i]]
           h == UpdateDemoEntities(g)
<1>1. PICK back : back = [g EXCEPT !.bots = bots]
  OBVIOUS
<1> DEFINE called == BotPayloads(back, R)
           shown == BotPayloads(back, AliveBots(g))
           w == Spawn(g.world, called)
           v == SetPayloads(w, shown)
           placed == EffectPayloads(g.effects)
           world == SetPayloads(v, placed)
<1>2. /\ g \in Game /\ g.bots \in MapsOf(Nat, Bot) /\ DOMAIN g.bots \subseteq Nat
      /\ g.world \in World /\ \A i \in DOMAIN g.bots : g.bots[i] \in Bot
  BY GameFields, MapElim DEF Good
<1>3. R \subseteq DOMAIN g.bots /\ AliveBots(g) \subseteq DOMAIN g.bots
  BY DEF Returning, AliveBots
<1>4. /\ bots \in MapsOf(Nat, Bot) /\ DOMAIN bots = DOMAIN g.bots
      /\ \A i \in DOMAIN g.bots : bots[i] \in Bot
      /\ \A i \in DOMAIN g.bots : Alive(bots[i]) <=> Alive(g.bots[i]) \/ i \in R
  <2>1. \A i \in DOMAIN g.bots : bots[i] \in Bot /\ (i \in R => Alive(bots[i]))
    BY <1>2, FullBotIs
  <2>2. QED BY <1>2, <2>1, MapOver
<1>5. h = [back EXCEPT !.world = world]
  BY <1>1, <1>2 DEF UpdateDemoEntities, Game
<1> HIDE DEF bots, R
<1>6. back = [bots |-> bots, effects |-> g.effects, clients |-> g.clients, match |-> g.match,
              covers |-> g.covers, impacts |-> g.impacts, nextImpact |-> g.nextImpact,
              world |-> g.world]
  BY <1>1, <1>2, GameWith
<1>7. \A i \in DOMAIN g.bots : back.bots[i] \in Bot
  BY <1>4, <1>6
<1>8. /\ called \in World /\ DOMAIN called = BotEntities(R)
      /\ shown \in World /\ DOMAIN shown = BotEntities(AliveBots(g))
  BY <1>2, <1>3, <1>7, BotPayloadsAre
<1> HIDE DEF called, shown, h
<1>9. /\ w \in World /\ DOMAIN w = DOMAIN g.world \cup BotEntities(R)
      /\ \A e \in DOMAIN g.world \ BotEntities(R) : w[e] = g.world[e]
  <2>1. called \in World /\ g.world \in World
    BY <1>2, <1>8
  <2>2. /\ w \in World /\ DOMAIN w = DOMAIN g.world \cup DOMAIN called
        /\ \A e \in DOMAIN g.world \ DOMAIN called : w[e] = g.world[e]
    BY <2>1, SpawnIs
  <2> HIDE DEF w
  <2>3. QED BY <1>8, <2>2
<1> HIDE DEF w
<1>10. /\ v \in World /\ DOMAIN v = DOMAIN w
       /\ \A e \in DOMAIN w : v[e] = IF e \in DOMAIN shown THEN shown[e] ELSE w[e]
  <2>1. \A e \in DOMAIN shown : shown[e] \in Payload
    BY <1>8, MapElim DEF World
  <2>2. QED BY <1>9, <2>1, SetPayloadsIs
<1> HIDE DEF v
<1>11. /\ world \in World /\ DOMAIN world = DOMAIN g.world \cup BotEntities(R)
       /\ \A e \in DOMAIN w : e \notin BotEntities(AliveBots(g)) \cup EffectEntities(0..g.effects - 1)
                             => world[e] = w[e]
  <2>1. g.effects \in Nat
    BY <1>2, GameFields
  <2>2. placed \in World /\ DOMAIN placed = EffectEntities(0..g.effects - 1)
    BY <2>1, EffectPayloadsAre
  <2>3. \A e \in DOMAIN placed : placed[e] \in Payload
    BY <2>2, MapElim DEF World
  <2> HIDE DEF placed
  <2>4. /\ world \in World /\ DOMAIN world = DOMAIN v
        /\ \A e \in DOMAIN v : world[e] = IF e \in DOMAIN placed THEN placed[e] ELSE v[e]
    BY <1>10, <2>3, SetPayloadsIs
  <2> HIDE DEF world
  <2>5. QED BY <1>8, <1>9, <1>10, <2>2, <2>4
<1> HIDE DEF world
<1>12. h = [bots |-> bots, effects |-> g.effects, clients |-> g.clients, match |-> g.match,
            covers |-> g.covers, impacts |-> g.impacts, nextImpact |-> g.nextImpact,
            world |-> world]
  BY <1>5, <1>6
<1>13. h \in Game
  BY <1>4, <1>11, <1>12, GameFields, GameIntro DEF Good
<1>14. /\ SameCast(g, h) /\ AliveBots(h) = AliveBots(g) \cup R
       /\ AliveClients(h) = AliveClients(g)
  BY <1>3, <1>4, <1>12, SameFit DEF AliveBots, AliveClients
<1>15. Scored(h)
  BY <1>12, <1>14, MoreAliveIsScored, GameFields DEF Good
<1>16. ASSUME IdsFit(h) PROVE Shown(h)
  <2>1. IdsFit(g)
    BY <1>14, <1>16 DEF SameCast
  <2>2. RosterOf(h) = RosterOf(g) \cup BotEntities(R)
    BY <1>12, <1>14, BotsCome DEF RosterOf
  <2>3. DOMAIN h.world = RosterOf(h) /\ Distinct(h.impacts)
    BY <1>11, <1>12, <2>1, <2>2, GoodWorld
  <2>4. ShowsCovers(h)
    <3>1. \A k \in DOMAIN g.covers : CoverEntity(k) \in DOMAIN g.world
      BY <2>1, GoodWorld DEF CoverEntities
    <3>2. \A k \in DOMAIN g.covers :
            CoverEntity(k) \notin BotEntities(DOMAIN g.bots) \cup EffectEntities(0..g.effects - 1)
      BY <2>1, GoodRanges, RangesDiffer DEF BotEntities, EffectEntities
    <3>3. /\ BotEntities(R) \subseteq BotEntities(DOMAIN g.bots)
          /\ BotEntities(AliveBots(g)) \subseteq BotEntities(DOMAIN g.bots)
      BY <1>3 DEF BotEntities
    <3>4. \A k \in DOMAIN g.covers : h.world[CoverEntity(k)] = g.world[CoverEntity(k)]
      BY <1>9, <1>11, <1>12, <3>1, <3>2, <3>3
    <3>5. QED BY <1>12, <2>1, <3>4, GoodWorld DEF ShowsCovers
  <2>5. QED BY <1>12, <2>1, <2>3, <2>4, GoodWorld, MirroredIs DEF Shown
<1>17. QED BY <1>12, <1>13, <1>14, <1>15, <1>16 DEF Good, SameCast, h

\* what is shown of a session
LEMMA SessionsAreShown ==
  ASSUME NEW g \in Game
  PROVE  ShowsSessions(g) <=> \A c \in DOMAIN g.clients : g.world[PlayerEntity(c)] = Said(g, c)
<1>1. ASSUME NEW c \in DOMAIN g.clients
      PROVE  PlayerPayloads(g, {c})[PlayerEntity(c)] = Said(g, c)
  <2>1. PICK S : S = {c}
    OBVIOUS
  <2>2. S \in SUBSET DOMAIN g.clients /\ c \in S
    BY <2>1
  <2>3. PlayerPayloads(g, S)[PlayerEntity(c)] = Said(g, c)
    BY <2>2, ClientsAre
  <2>4. QED BY <2>1, <2>3
<1>2. QED BY <1>1 DEF ShowsSessions

LEMMA UpdateClientPayloadsKeeps ==
  ASSUME NEW g, Good(g), NEW h, h = UpdateClientPayloads(g)
  PROVE  Good(h) /\ SameCast(g, h) /\ (IdsFit(h) => ShowsSessions(h))
<1> DEFINE R == {c \in DOMAIN g.clients : /\ IsRoundActive(g.match)
                                          /\ ~ Alive(g.clients[c]) /\ g.clients[c].wait = 0}
<1>1. PICK back : back = RespawnClients(g, R)
  OBVIOUS
<1> DEFINE p == PlayerPayloads(back, DOMAIN back.clients)
<1>2. h = Rewrite(back, p)
  BY <1>1 DEF UpdateClientPayloads, Rewrite
<1>3. R \in SUBSET DOMAIN g.clients /\ IsFiniteSet(R)
  BY FS_Subset DEF Good
<1> HIDE DEF R
<1>4. Good(back) /\ SameCast(g, back)
  BY <1>1, <1>3, RespawnClientsIs, RespawnedKeeps DEF Good
<1>5. /\ p \in World /\ DOMAIN p = PlayerEntities(DOMAIN back.clients)
      /\ \A c \in DOMAIN back.clients : p[PlayerEntity(c)] = Said(back, c)
  BY <1>4, ClientsAre DEF Good
<1>6. \A e \in DOMAIN p : p[e] \in Payload
  BY <1>5, MapElim DEF World
<1> HIDE DEF p
<1>7. /\ h \in Game /\ SameButWorld(back, h)
      /\ \A e \in DOMAIN back.world : h.world[e] = IF e \in DOMAIN p THEN p[e] ELSE back.world[e]
  BY <1>2, <1>4, <1>6, Rewritten DEF Good
<1>8. ASSUME IdsFit(back) PROVE ShowsCovers(h)
  <2>1. \A k \in DOMAIN back.covers :
          CoverEntity(k) \in DOMAIN back.world \ PlayerEntities(DOMAIN back.clients)
    BY <1>4, <1>8, GoodWorld, GoodRanges, RangesDiffer DEF CoverEntities, PlayerEntities
  <2>2. QED BY <1>4, <1>5, <1>7, <1>8, <2>1, GoodWorld DEF ShowsCovers, SameButWorld
<1>9. ASSUME IdsFit(back) PROVE ShowsSessions(h)
  <2>1. \A c \in DOMAIN back.clients : PlayerEntity(c) \in DOMAIN back.world \cap DOMAIN p
    BY <1>4, <1>5, <1>9, GoodWorld DEF PlayerEntities
  <2>2. \A c \in DOMAIN back.clients : h.world[PlayerEntity(c)] = Said(back, c)
    BY <1>5, <1>7, <2>1
  <2>3. \A c \in DOMAIN h.clients : h.world[PlayerEntity(c)] = Said(h, c)
    BY <1>7, <2>2 DEF SameButWorld, Said
  <2>4. QED BY <1>7, <2>3, SessionsAreShown
<1>10. Good(h) /\ SameCast(back, h)
  BY <1>4, <1>7, <1>8, SameButWorldKeeps
<1>11. QED BY <1>4, <1>9, <1>10, SameCastTrans DEF SameCast

\* Whom events name takes part before and after.
LEMMA CombatKeeps ==
  ASSUME NEW g, Good(g), NEW n \in Nat, NEW events \in [1..n -> Event(g)],
         NEW h, h = Combat(g, events)
  PROVE  Good(h) /\ SameCast(g, h) /\ (IdsFit(h) => ShowsSessions(h) /\ ShowsScores(h))
<1>1. PICK a : a = UpdateDemoEntities(g)
  OBVIOUS
<1>2. Good(a) /\ SameCast(g, a)
  BY <1>1, UpdateDemoEntitiesKeeps
<1>3. Event(a) = Event(g)
  BY <1>2 DEF Event, SameCast
<1>4. PICK b : b = ApplyDamageEvents(a, events)
  OBVIOUS
<1>5. Good(b) /\ SameCast(a, b)
  BY <1>2, <1>3, <1>4, ApplyDamageEventsKeeps
<1>6. PICK c : c = UpdateClientPayloads(b)
  OBVIOUS
<1>7. Good(c) /\ SameCast(b, c) /\ (IdsFit(c) => ShowsSessions(c))
  BY <1>5, <1>6, UpdateClientPayloadsKeeps
<1>8. h = UpdateScoreEntities(c)
  BY <1>1, <1>4, <1>6 DEF Combat
<1>9. /\ Good(h) /\ SameButWorld(c, h) /\ SameCast(c, h)
      /\ IdsFit(h) => /\ IdsFit(c) /\ ShowsScores(h)
                      /\ \A d \in DOMAIN c.clients : h.world[PlayerEntity(d)] = c.world[PlayerEntity(d)]
  BY <1>7, <1>8, UpdateScoreEntitiesKeeps
<1>10. IdsFit(h) => ShowsSessions(h)
  BY <1>7, <1>9, SessionsAreShown DEF Good, SameButWorld, Said
<1>11. QED BY <1>2, <1>5, <1>7, <1>9, <1>10, SameCastTrans
-------------------------------------------------------------------------------
(* Covers *)

\* What is shown of sessions and scores is as before, and so are they.
SameShow(g, h) ==
  /\ h.bots = g.bots /\ h.clients = g.clients /\ h.match = g.match /\ h.effects = g.effects
  /\ DOMAIN h.covers = DOMAIN g.covers
  /\ IdsFit(h) =>
       /\ IdsFit(g)
       /\ \A c \in DOMAIN g.clients : h.world[PlayerEntity(c)] = g.world[PlayerEntity(c)]
       /\ \A t \in Team : h.world[ScoreEntity(t)] = g.world[ScoreEntity(t)]

LEMMA SameShowTrans ==
  ASSUME NEW f, NEW g, NEW h, SameShow(f, g), SameShow(g, h)
  PROVE  SameShow(f, h)
BY DEF SameShow

LEMMA StillShown ==
  ASSUME NEW g \in Game, NEW h \in Game, SameShow(g, h)
  PROVE  /\ SameCast(g, h)
         /\ IdsFit(h) => IdsFit(g) /\ (ShowsSessions(g) => ShowsSessions(h))
                                  /\ (ShowsScores(g) => ShowsScores(h))
<1>1. SameCast(g, h) /\ (IdsFit(h) => IdsFit(g) /\ (ShowsScores(g) => ShowsScores(h)))
  BY DEF SameShow, SameCast, ShowsScores
<1>2. IdsFit(h) => (ShowsSessions(g) => ShowsSessions(h))
  BY SessionsAreShown DEF SameShow, Said
<1>3. QED BY <1>1, <1>2

\* A game whose sessions, bots and match are those of a good one.
LEMMA SameShowIsGood ==
  ASSUME NEW g, Good(g), NEW h \in Game, SameShow(g, h), Len(h.impacts) <= MaxActiveImpacts,
         IdsFit(h) => Shown(h)
  PROVE  Good(h)
<1>1. SameCast(g, h) /\ AliveBots(h) = AliveBots(g) /\ AliveClients(h) = AliveClients(g)
  BY DEF SameShow, SameCast, AliveBots, AliveClients
<1>2. Scored(h)
  BY <1>1, MoreAliveIsScored, GameFields DEF Good, SameShow
<1>3. QED BY <1>1, <1>2 DEF Good, SameCast

LEMMA DamageCoversKeeps ==
  ASSUME NEW g, Good(g), NEW blast \in SUBSET DOMAIN g.covers, NEW h, h = DamageCovers(g, blast)
  PROVE  Good(h) /\ SameShow(g, h)
<1> DEFINE hit == Standing(g, blast)
           covers == [k \in DOMAIN g.covers |-> IF k \in hit THEN g.covers[k] - 1 ELSE g.covers[k]]
           worn == Restrict(covers, hit)
           p == CoverPayloads(worn)
           world == SetPayloads(g.world, p)
<1>1. /\ g \in Game /\ g.covers \in MapsOf(Nat, 0..CoverMaxHealth) /\ DOMAIN g.covers \subseteq Nat
      /\ g.world \in World /\ \A k \in DOMAIN g.covers : g.covers[k] \in 0..CoverMaxHealth
  <2>1. g \in Game /\ g.covers \in MapsOf(Nat, 0..CoverMaxHealth) /\ g.world \in World
    BY GameFields DEF Good
  <2>2. g.covers \in [DOMAIN g.covers -> 0..CoverMaxHealth] /\ DOMAIN g.covers \subseteq Nat
    BY <2>1, MapElim
  <2>3. QED BY <2>1, <2>2
<1>2. hit \subseteq DOMAIN g.covers /\ \A k \in hit : g.covers[k] > 0
  BY DEF Standing
<1>3. h = [g EXCEPT !.covers = covers, !.world = world]
  BY DEF DamageCovers
<1> HIDE DEF hit
<1>4. covers \in MapsOf(Nat, 0..CoverMaxHealth) /\ DOMAIN covers = DOMAIN g.covers
  <2>1. \A k \in DOMAIN g.covers : covers[k] \in 0..CoverMaxHealth
    BY <1>1, <1>2, Parameters
  <2>2. QED BY <1>1, <2>1, MapOver
<1>5. \A k \in DOMAIN g.covers \ hit : covers[k] = g.covers[k]
  OBVIOUS
<1> HIDE DEF covers
<1>6. /\ worn \in MapsOf(Nat, 0..CoverMaxHealth) /\ DOMAIN worn = hit
      /\ \A k \in hit : worn[k] = covers[k]
  <2>1. covers \in [DOMAIN g.covers -> 0..CoverMaxHealth] /\ hit \in SUBSET Nat
    BY <1>1, <1>2, <1>4, MapElim
  <2>2. worn \in [hit -> 0..CoverMaxHealth] /\ \A k \in hit : worn[k] = covers[k]
    BY <1>2, <2>1 DEF Restrict
  <2>3. QED BY <2>1, <2>2, MapIntro
<1> HIDE DEF worn
<1>7. /\ p \in World /\ DOMAIN p = CoverEntities(hit)
      /\ \A k \in hit : p[CoverEntity(k)] = covers[k]
  BY <1>6, CoverPayloadsAre
<1> HIDE DEF p
<1>8. \A e \in DOMAIN p : p[e] \in Payload
  BY <1>7, MapElim DEF World
<1>9. /\ world \in World /\ DOMAIN world = DOMAIN g.world
      /\ \A e \in DOMAIN g.world : world[e] = IF e \in DOMAIN p THEN p[e] ELSE g.world[e]
  BY <1>1, <1>8, SetPayloadsIs
<1> HIDE DEF world
<1>10. h = [bots |-> g.bots, effects |-> g.effects, clients |-> g.clients, match |-> g.match,
            covers |-> covers, impacts |-> g.impacts, nextImpact |-> g.nextImpact,
            world |-> world]
  BY <1>1, <1>3 DEF Game
<1>11. h \in Game
  BY <1>4, <1>9, <1>10, GameFields, GameIntro DEF Good
<1>12. SameCast(g, h) /\ AliveBots(h) = AliveBots(g)
  BY <1>4, <1>10, SameFit DEF AliveBots
<1>13. SameShow(g, h)
  <2>1. CoverEntities(hit) \subseteq CoverEntities(DOMAIN g.covers)
    BY <1>2 DEF CoverEntities
  <2>2. ASSUME IdsFit(g)
        PROVE  /\ \A c \in DOMAIN g.clients : PlayerEntity(c) \in DOMAIN g.world \ DOMAIN p
               /\ \A t \in Team : ScoreEntity(t) \in DOMAIN g.world \ DOMAIN p
    <3>1. DOMAIN p \subseteq CoverIds
      BY <1>7, <2>1, <2>2, GoodRanges DEF CoverEntities
    <3>2. QED BY <2>2, <3>1, GoodWorld, GoodRanges, RangesDiffer DEF ScoreEntities, PlayerEntities
  <2>3. QED BY <1>4, <1>9, <1>10, <1>12, <2>2 DEF SameShow, SameCast
<1>14. ASSUME IdsFit(g) PROVE ShowsCovers(h)
  <2>1. \A k \in DOMAIN g.covers : CoverEntity(k) \in DOMAIN g.world
    BY <1>14, GoodWorld DEF CoverEntities
  <2>2. \A k \in DOMAIN g.covers : CoverEntity(k) \in DOMAIN p <=> k \in hit
    BY <1>1, <1>2, <1>7, SameEntity DEF CoverEntities
  <2>3. QED BY <1>4, <1>5, <1>7, <1>9, <1>10, <1>14, <2>1, <2>2, GoodWorld DEF ShowsCovers
<1>15. IdsFit(h) => Shown(h)
  BY <1>9, <1>10, <1>12, <1>14, StillMirrored
<1>16. Len(h.impacts) <= MaxActiveImpacts
  BY <1>10 DEF Good
<1>17. QED BY <1>11, <1>13, <1>15, <1>16, SameShowIsGood
-------------------------------------------------------------------------------
(* Impacts *)

LEMMA ImpactsAre ==
  ASSUME NEW impacts \in Seq(Impact)
  PROVE  /\ Len(impacts) \in Nat /\ DOMAIN impacts = 1..Len(impacts)
         /\ impacts \in [1..Len(impacts) -> Impact]
         /\ Ids(impacts) = {impacts[m].id : m \in 1..Len(impacts)}
         /\ Ids(impacts) \subseteq Nat
<1>1. /\ Len(impacts) \in Nat /\ DOMAIN impacts = 1..Len(impacts)
      /\ impacts \in [1..Len(impacts) -> Impact]
  OBVIOUS
<1>2. Ids(impacts) = {impacts[m].id : m \in 1..Len(impacts)}
  BY <1>1 DEF Ids, Range
<1>3. QED BY <1>1, <1>2, IdsAreNumbers

\* The oldest leaves; the others stay.
LEMMA TailHolds ==
  ASSUME NEW impacts \in Seq(Impact), impacts # <<>>
  PROVE  /\ Tail(impacts) \in Seq(Impact) /\ Len(Tail(impacts)) = Len(impacts) - 1
         /\ Head(impacts) \in Impact /\ Head(impacts).id \in Ids(impacts)
<1>1. Len(impacts) \in Nat /\ Len(impacts) > 0 /\ Head(impacts) = impacts[1]
  OBVIOUS
<1>2. impacts[1] \in Range(impacts) /\ impacts[1] \in Impact
  BY <1>1 DEF Range
<1>3. QED BY <1>1, <1>2 DEF Ids

LEMMA TailIs ==
  ASSUME NEW impacts \in Seq(Impact), Distinct(impacts), impacts # <<>>
  PROVE  /\ Tail(impacts) \in Seq(Impact) /\ Len(Tail(impacts)) = Len(impacts) - 1
         /\ Distinct(Tail(impacts))
         /\ Ids(Tail(impacts)) = Ids(impacts) \ {Head(impacts).id}
<1>1. PICK n : n = Len(impacts)
  OBVIOUS
<1>2. n \in Nat /\ n > 0 /\ DOMAIN impacts = 1..n
  BY <1>1
<1>3. PICK rest : rest = Tail(impacts)
  OBVIOUS
<1>4. /\ rest \in Seq(Impact) /\ Len(rest) = n - 1 /\ DOMAIN rest = 1..(n - 1)
      /\ \A m \in 1..(n - 1) : rest[m] = impacts[m + 1]
  BY <1>1, <1>2, <1>3
<1>5. \A k, m \in 1..n : impacts[k].id = impacts[m].id => k = m
  BY <1>2 DEF Distinct
<1>6. Distinct(rest)
  <2>1. ASSUME NEW k \in 1..(n - 1), NEW m \in 1..(n - 1), rest[k].id = rest[m].id
        PROVE  k = m
    <3>1. k + 1 = m + 1
      BY <1>2, <1>4, <1>5, <2>1
    <3>2. QED BY <3>1
  <2>2. QED BY <1>4, <2>1 DEF Distinct
<1>7. Head(impacts) = impacts[1]
  OBVIOUS
<1>8. Ids(impacts) = {impacts[m].id : m \in 1..n} /\ Ids(rest) = {rest[m].id : m \in 1..(n - 1)}
  BY <1>1, <1>4, ImpactsAre
<1>9. ASSUME NEW x \in Ids(rest) PROVE x \in Ids(impacts) /\ x # impacts[1].id
  <2>1. PICK m \in 1..(n - 1) : x = rest[m].id
    BY <1>8, <1>9
  <2>2. m + 1 \in 1..n /\ m + 1 # 1 /\ x = impacts[m + 1].id
    BY <1>2, <1>4, <2>1
  <2>3. QED BY <1>2, <1>5, <1>8, <2>2
<1>10. ASSUME NEW x \in Ids(impacts), x # impacts[1].id PROVE x \in Ids(rest)
  <2>1. PICK m \in 1..n : x = impacts[m].id
    BY <1>8, <1>10
  <2>2. m # 1 /\ m - 1 \in 1..(n - 1) /\ rest[m - 1] = impacts[m]
    BY <1>2, <1>4, <1>10, <2>1
  <2>3. QED BY <1>8, <2>1, <2>2
<1>11. Ids(rest) = Ids(impacts) \ {impacts[1].id}
  BY <1>9, <1>10
<1>12. QED BY <1>1, <1>3, <1>4, <1>6, <1>7, <1>11

LEMMA AppendOne ==
  ASSUME NEW active \in Seq(Impact), NEW impact \in Impact
  PROVE  /\ Append(active, impact) \in Seq(Impact)
         /\ Len(Append(active, impact)) = Len(active) + 1
         /\ Ids(Append(active, impact)) = Ids(active) \cup {impact.id}
         /\ Range(Append(active, impact)) = Range(active) \cup {impact}
         /\ impact.id \notin Ids(active) /\ Distinct(active)
              => Distinct(Append(active, impact))
<1>1. PICK n : n = Len(active)
  OBVIOUS
<1>2. n \in Nat /\ DOMAIN active = 1..n
  BY <1>1
<1>3. PICK more : more = Append(active, impact)
  OBVIOUS
<1>4. /\ more \in Seq(Impact) /\ Len(more) = n + 1 /\ DOMAIN more = 1..(n + 1)
      /\ \A m \in 1..n : more[m] = active[m]
      /\ more[n + 1] = impact
  BY <1>1, <1>2, <1>3
<1>5. Ids(active) = {active[m].id : m \in 1..n} /\ Ids(more) = {more[m].id : m \in 1..(n + 1)}
  BY <1>1, <1>4, ImpactsAre
<1>6. \A m \in 1..(n + 1) : m \in 1..n \/ m = n + 1
  BY <1>2
<1>7. Ids(more) = Ids(active) \cup {impact.id}
  <2>1. \A m \in 1..n : m \in 1..(n + 1)
    BY <1>2
  <2>2. n + 1 \in 1..(n + 1)
    BY <1>2
  <2>3. QED BY <1>4, <1>5, <1>6, <2>1, <2>2
<1>9. Range(more) = Range(active) \cup {impact}
  <2>1. \A m \in 1..n : m \in 1..(n + 1)
    BY <1>2
  <2>2. n + 1 \in 1..(n + 1)
    BY <1>2
  <2>3. Range(active) = {active[m] : m \in 1..n} /\ Range(more) = {more[m] : m \in 1..(n + 1)}
    BY <1>2, <1>4 DEF Range
  <2>4. QED BY <1>4, <1>6, <2>1, <2>2, <2>3
<1>8. ASSUME impact.id \notin Ids(active), Distinct(active),
             NEW k \in DOMAIN more, NEW m \in DOMAIN more, more[k].id = more[m].id
      PROVE  k = m
  <2>1. \A j \in 1..n : active[j].id # impact.id
    BY <1>5, <1>8
  <2>2. QED BY <1>2, <1>4, <1>6, <1>8, <2>1 DEF Distinct
<1>10. QED BY <1>1, <1>3, <1>4, <1>7, <1>8, <1>9 DEF Distinct

SameElsewhere(g, world) == \A e \in DOMAIN g.world \ ImpactIds : world[e] = g.world[e]

RosterWith(g, impacts) ==
  Roster(AliveBots(g), 0..g.effects - 1, DOMAIN g.covers, Ids(impacts), DOMAIN g.clients)

WithImpacts(g, impacts, next, world) ==
  [bots |-> g.bots, effects |-> g.effects, clients |-> g.clients, match |-> g.match,
   covers |-> g.covers, impacts |-> impacts, nextImpact |-> next, world |-> world]

\* Only impacts and their entities change.
LEMMA ImpactsChanged ==
  ASSUME NEW g, Good(g), NEW impacts \in Seq(Impact), Len(impacts) <= MaxActiveImpacts,
         NEW next \in 0..MaxImpactId, g.nextImpact <= next, NEW world \in World,
         NEW h, h = WithImpacts(g, impacts, next, world),
         IdsFit(h) /\ IdsFit(g) =>
           /\ DOMAIN world = RosterWith(g, impacts) /\ Distinct(impacts)
           /\ \A n \in Ids(impacts) : n < next
           /\ SameElsewhere(g, world)
  PROVE  Good(h) /\ SameShow(g, h)
<1>1. /\ h.bots = g.bots /\ h.effects = g.effects /\ h.clients = g.clients
      /\ h.match = g.match /\ h.covers = g.covers
      /\ h.impacts = impacts /\ h.nextImpact = next /\ h.world = world
  BY DEF WithImpacts
<1>2. h \in Game
  BY GameFields, GameIntro DEF Good, WithImpacts
<1>3. IdsFit(h) => IdsFit(g)
  <2>1. g.nextImpact \in Nat /\ next \in Nat
    BY GameFields, Bases DEF Good
  <2>2. ImpactEntity(next) <= ScoreBase => ImpactEntity(g.nextImpact) <= ScoreBase
    BY <2>1, Bases DEF ImpactEntity
  <2>3. QED BY <1>1, <2>2 DEF IdsFit
<1>4. ASSUME IdsFit(h)
      PROVE  /\ \A k \in DOMAIN g.covers : CoverEntity(k) \in DOMAIN g.world \ ImpactIds
             /\ \A t \in Team : ScoreEntity(t) \in DOMAIN g.world \ ImpactIds
             /\ \A c \in DOMAIN g.clients : PlayerEntity(c) \in DOMAIN g.world \ ImpactIds
  BY <1>3, <1>4, GoodWorld, GoodRanges, RangesDiffer DEF CoverEntities, ScoreEntities, PlayerEntities
<1>5. ASSUME IdsFit(h), NEW e \in DOMAIN g.world \ ImpactIds PROVE h.world[e] = g.world[e]
  <2>1. IdsFit(h) /\ IdsFit(g) => SameElsewhere(g, world)
    OBVIOUS
  <2>2. IdsFit(g)
    BY <1>3, <1>5
  <2>3. QED BY <1>1, <1>5, <2>1, <2>2 DEF SameElsewhere
<1>6. ASSUME IdsFit(h) PROVE Shown(h)
  <2>1. AliveBots(h) = AliveBots(g)
    BY <1>1 DEF AliveBots
  <2>2. DOMAIN h.world = RosterOf(h) /\ Distinct(h.impacts)
    BY <1>1, <1>3, <1>6, <2>1 DEF RosterOf, RosterWith
  <2>3. ShowsCovers(h)
    <3>1. ShowsCovers(g)
      BY <1>3, <1>6, GoodWorld
    <3>2. QED BY <1>1, <1>4, <1>5, <1>6, <3>1 DEF ShowsCovers
  <2>4. QED BY <1>1, <1>3, <1>6, <2>2, <2>3, MirroredIs DEF Shown
<1>7. SameShow(g, h)
  BY <1>1, <1>3, <1>4, <1>5 DEF SameShow
<1>8. QED BY <1>1, <1>2, <1>6, <1>7, SameShowIsGood

\* Of a game whose ids fit, impacts leave and nothing else does.
LEMMA RosterLoses ==
  ASSUME NEW g, Good(g), IdsFit(g), NEW S \in SUBSET Ids(g.impacts),
         NEW rest, Ids(rest) = Ids(g.impacts) \ S
  PROVE  RosterWith(g, rest) = DOMAIN g.world \ ImpactEntities(S)
<1>1. Ids(g.impacts) \subseteq Nat
  BY GameFields, IdsAreNumbers DEF Good
<1> DEFINE others == Roster(AliveBots(g), 0..g.effects - 1, DOMAIN g.covers, {}, DOMAIN g.clients)
<1>2. others \subseteq BotIds \cup EffectIds \cup CoverIds \cup ScoreIds \cup PlayerIds
  BY GoodRanges DEF Roster, BotEntities, EffectEntities, CoverEntities, ImpactEntities,
                    ScoreEntities, PlayerEntities, AliveBots
<1>3. ImpactEntities(S) \subseteq ImpactIds
  BY GoodRanges DEF ImpactEntities
<1> HIDE DEF others
<1>4. ImpactEntities(S)
        \cap Roster(AliveBots(g), 0..g.effects - 1, DOMAIN g.covers, {}, DOMAIN g.clients) = {}
  <2>1. ImpactEntities(S) \cap others = {}
    BY <1>2, <1>3, RangesDiffer
  <2>2. QED BY <2>1 DEF others
<1>5. PICK I : I = Ids(g.impacts)
  OBVIOUS
<1>6. PICK J : J = Ids(rest)
  OBVIOUS
<1>7. /\ I \in SUBSET Nat /\ S \in SUBSET Nat /\ J = I \ S
  BY <1>1, <1>5, <1>6
<1>8. Roster(AliveBots(g), 0..g.effects - 1, DOMAIN g.covers, J, DOMAIN g.clients)
        = Roster(AliveBots(g), 0..g.effects - 1, DOMAIN g.covers, I, DOMAIN g.clients)
            \ ImpactEntities(S)
  <2>1. PICK A, E, K, C : /\ A = AliveBots(g) /\ E = 0..g.effects - 1
                         /\ K = DOMAIN g.covers /\ C = DOMAIN g.clients
    OBVIOUS
  <2>2. ImpactEntities(S) \cap Roster(A, E, K, {}, C) = {}
    BY <1>4, <2>1
  <2>3. Roster(A, E, K, J, C) = Roster(A, E, K, I, C) \ ImpactEntities(S)
    BY <1>7, <2>2, ImpactsLeave
  <2>4. QED BY <2>1, <2>3
<1>9. QED BY <1>5, <1>6, <1>8, GoodWorld DEF RosterWith, RosterOf

LEMMA DropOldestKeeps ==
  ASSUME NEW g, Good(g), NEW h, h = DropOldest(g)
  PROVE  /\ Good(h) /\ SameShow(g, h) /\ h.nextImpact = g.nextImpact
         /\ Len(h.impacts) < MaxActiveImpacts
<1>1. /\ g \in Game /\ g.impacts \in Seq(Impact) /\ g.world \in World
      /\ g.nextImpact \in 0..MaxImpactId
  BY GameFields DEF Good
<1>2. CASE Len(g.impacts) < MaxActiveImpacts
  BY <1>2 DEF DropOldest, SameShow
<1>3. CASE ~ (Len(g.impacts) < MaxActiveImpacts)
  <2>1. Len(g.impacts) \in Nat /\ Len(g.impacts) = MaxActiveImpacts /\ g.impacts # <<>>
    BY <1>1, <1>3, Parameters DEF Good
  <2>2. PICK rest : rest = Tail(g.impacts)
    OBVIOUS
  <2>3. PICK first : first = Head(g.impacts).id
    OBVIOUS
  <2>4. /\ rest \in Seq(Impact) /\ Len(rest) = Len(g.impacts) - 1 /\ first \in Ids(g.impacts)
        /\ Distinct(g.impacts) => Distinct(rest) /\ Ids(rest) = Ids(g.impacts) \ {first}
    BY <1>1, <2>1, <2>2, <2>3, TailHolds, TailIs
  <2>5. PICK world : world = Despawn(g.world, {ImpactEntity(first)})
    OBVIOUS
  <2>6. /\ world \in World /\ DOMAIN world = DOMAIN g.world \ {ImpactEntity(first)}
        /\ \A e \in DOMAIN g.world \ {ImpactEntity(first)} : world[e] = g.world[e]
    BY <1>1, <2>5, DespawnIs
  <2>7. h = WithImpacts(g, rest, g.nextImpact, world)
    <3>1. h = [g EXCEPT !.impacts = rest, !.world = world]
      BY <1>3, <2>2, <2>3, <2>5 DEF DropOldest
    <3>2. QED BY <1>1, <3>1 DEF Game, WithImpacts
  <2>8. ASSUME IdsFit(g)
        PROVE  /\ DOMAIN world = RosterWith(g, rest) /\ Distinct(rest)
               /\ \A n \in Ids(rest) : n < g.nextImpact
               /\ SameElsewhere(g, world)
    <3>1. Distinct(rest) /\ Ids(rest) = Ids(g.impacts) \ {first}
      BY <2>4, <2>8, GoodWorld
    <3>2. \A n \in Ids(rest) : n < g.nextImpact
      BY <2>8, <3>1, GoodWorld
    <3>3. SameElsewhere(g, world)
      BY <2>4, <2>6, <2>8, GoodRanges DEF SameElsewhere
    <3>4. PICK S : S = {first}
      OBVIOUS
    <3>5. ImpactEntities(S) = {ImpactEntity(first)}
      BY <3>4 DEF ImpactEntities
    <3>6. RosterWith(g, rest) = DOMAIN g.world \ ImpactEntities(S)
      BY <2>4, <2>8, <3>1, <3>4, RosterLoses
    <3>7. QED BY <2>6, <3>1, <3>2, <3>3, <3>5, <3>6
  <2>9. g.nextImpact <= g.nextImpact /\ Len(rest) <= MaxActiveImpacts
    BY <1>1, <2>1, <2>4, Bases, Parameters
  <2>10. Good(h) /\ SameShow(g, h)
    BY <1>1, <2>4, <2>6, <2>7, <2>8, <2>9, ImpactsChanged
  <2>11. h.impacts = rest /\ h.nextImpact = g.nextImpact
    BY <2>7 DEF WithImpacts
  <2>12. QED BY <2>1, <2>4, <2>10, <2>11, Parameters
<1>4. QED BY <1>2, <1>3

LEMMA OneImpact ==
  ASSUME NEW impact \in Impact
  PROVE  /\ ImpactPayloads(<<impact>>) \in World
         /\ DOMAIN ImpactPayloads(<<impact>>) = {ImpactEntity(impact.id)}
<1>1. PICK only : only = <<impact>>
  OBVIOUS
<1>2. only \in Seq(Impact) /\ DOMAIN only = {1} /\ only[1] = impact
  BY <1>1
<1>3. Ids(only) = {impact.id}
  BY <1>2 DEF Ids, Range
<1>4. ImpactPayloads(only) \in World /\ DOMAIN ImpactPayloads(only) = ImpactEntities(Ids(only))
  BY <1>2, ImpactPayloadsAre
<1>5. QED BY <1>1, <1>3, <1>4 DEF ImpactEntities

\* A new impact has the id that is next; where the ids still fit, it was nobody's.
LEMMA SpawnImpactKeeps ==
  ASSUME NEW g, Good(g), NEW h, h = SpawnImpact(g)
  PROVE  Good(h) /\ SameShow(g, h)
<1>1. PICK room : room = DropOldest(g)
  OBVIOUS
<1>2. /\ Good(room) /\ SameShow(g, room) /\ room.nextImpact = g.nextImpact
      /\ Len(room.impacts) < MaxActiveImpacts
  BY <1>1, DropOldestKeeps
<1>3. PICK n : n = room.nextImpact
  OBVIOUS
<1>4. PICK next : next = Min({n + 1, MaxImpactId})
  OBVIOUS
<1>5. /\ room \in Game /\ room.impacts \in Seq(Impact) /\ room.world \in World
      /\ n \in 0..MaxImpactId
  BY <1>2, <1>3, GameFields DEF Good
<1>6. next \in 0..MaxImpactId /\ n <= next /\ (next < MaxImpactId => next = n + 1)
  <2>1. PICK after : after = n + 1
    OBVIOUS
  <2>2. after \in Int /\ MaxImpactId \in Int /\ n \in Nat /\ n <= MaxImpactId
    BY <1>5, <2>1, Bases
  <2>3. next = IF after <= MaxImpactId THEN after ELSE MaxImpactId
    BY <1>4, <2>1, <2>2, MaxOfTwo
  <2>4. QED BY <2>1, <2>2, <2>3, Bases
<1>7. PICK impact : impact = [id |-> n, left |-> ImpactLifetimeTicks]
  OBVIOUS
<1>8. impact \in Impact /\ impact.id = n
  BY <1>5, <1>7, Parameters, Bases DEF Impact
<1>9. PICK more : more = Append(room.impacts, impact)
  OBVIOUS
<1>10. /\ more \in Seq(Impact) /\ Len(more) = Len(room.impacts) + 1
       /\ Ids(more) = Ids(room.impacts) \cup {n}
       /\ n \notin Ids(room.impacts) /\ Distinct(room.impacts) => Distinct(more)
  BY <1>5, <1>8, <1>9, AppendOne
<1>11. PICK p : p = ImpactPayloads(<<impact>>)
  OBVIOUS
<1>12. p \in World /\ DOMAIN p = {ImpactEntity(n)}
  BY <1>8, <1>11, OneImpact
<1>13. PICK world : world = Spawn(room.world, p)
  OBVIOUS
<1>14. /\ world \in World /\ DOMAIN world = DOMAIN room.world \cup {ImpactEntity(n)}
       /\ \A e \in DOMAIN room.world \ {ImpactEntity(n)} : world[e] = room.world[e]
  <2>1. /\ world \in World /\ DOMAIN world = DOMAIN room.world \cup DOMAIN p
        /\ \A e \in DOMAIN room.world \ DOMAIN p : world[e] = room.world[e]
    BY <1>5, <1>12, <1>13, SpawnIs
  <2>2. QED BY <1>12, <2>1
<1>15. h = WithImpacts(room, more, next, world)
  <2>1. h = [room EXCEPT !.impacts = more, !.nextImpact = next, !.world = world]
    <3>1. impact = [id |-> g.nextImpact, left |-> ImpactLifetimeTicks]
      BY <1>2, <1>3, <1>7
    <3>2. next = Min({room.nextImpact + 1, MaxImpactId})
      BY <1>3, <1>4
    <3>3. QED BY <1>1, <1>9, <1>11, <1>13, <3>1, <3>2 DEF SpawnImpact
  <2>2. QED BY <1>5, <2>1 DEF Game, WithImpacts
<1>16. ASSUME IdsFit(h), IdsFit(room)
       PROVE  /\ DOMAIN world = RosterWith(room, more) /\ Distinct(more)
              /\ \A m \in Ids(more) : m < next
              /\ SameElsewhere(room, world)
  <2>1. ImpactEntity(next) <= ScoreBase
    BY <1>15, <1>16 DEF IdsFit, WithImpacts
  <2>2. next = n + 1 /\ n \in Nat /\ ImpactEntity(n) \in ImpactIds
    <3>1. n \in Nat /\ next \in Nat
      BY <1>5, <1>6, Bases
    <3>2. next < MaxImpactId
      BY <2>1, <3>1, Bases DEF ImpactEntity
    <3>3. next = n + 1
      BY <1>6, <3>2
    <3>4. QED BY <2>1, <3>1, <3>3, Bases DEF ImpactEntity, ImpactIds
  <2>3. /\ \A m \in Ids(room.impacts) : m \in Nat /\ m < n
        /\ Distinct(room.impacts) /\ DOMAIN room.world = RosterOf(room)
    BY <1>2, <1>3, <1>5, <1>16, GoodWorld, IdsAreNumbers
  <2>4. n \notin Ids(room.impacts)
    BY <2>2, <2>3
  <2>5. \A m \in Ids(more) : m < next
    BY <1>10, <2>2, <2>3
  <2>6. DOMAIN world = RosterWith(room, more)
    BY <1>10, <1>14, <2>3, ImpactComes DEF RosterOf, RosterWith
  <2>7. SameElsewhere(room, world)
    BY <1>14, <2>2 DEF SameElsewhere
  <2>8. QED BY <1>10, <2>3, <2>4, <2>5, <2>6, <2>7
<1>17. Len(more) <= MaxActiveImpacts
  <2>1. Len(room.impacts) \in Nat
    BY <1>5
  <2>2. QED BY <1>2, <1>10, <2>1, Parameters
<1>18. Good(h) /\ SameShow(room, h)
  BY <1>2, <1>3, <1>6, <1>10, <1>14, <1>15, <1>16, <1>17, ImpactsChanged
<1>19. QED BY <1>2, <1>18, SameShowTrans

LEMMA EmitterBlastKeeps ==
  ASSUME NEW g, Good(g), NEW blast \in SUBSET DOMAIN g.covers, NEW h, h = EmitterBlast(g, blast)
  PROVE  Good(h) /\ SameShow(g, h)
<1>1. CASE Standing(g, blast) = {}
  BY <1>1 DEF EmitterBlast, SameShow
<1>2. CASE Standing(g, blast) # {}
  <2>1. PICK worn : worn = DamageCovers(g, blast)
    OBVIOUS
  <2>2. Good(worn) /\ SameShow(g, worn)
    BY <2>1, DamageCoversKeeps
  <2>3. h = SpawnImpact(worn)
    BY <1>2, <2>1 DEF EmitterBlast
  <2>4. QED BY <2>2, <2>3, SpawnImpactKeeps, SameShowTrans
<1>3. QED BY <1>1, <1>2
-------------------------------------------------------------------------------
(* The emitters of a tick, one by one *)

\* the games the emitters may leave of g
WornGames(g) == {h \in Game : Good(h) /\ SameShow(g, h)}

LEMMA BlastKeeps ==
  ASSUME NEW g, NEW h \in WornGames(g), NEW blast \in SUBSET DOMAIN g.covers
  PROVE  EmitterBlast(h, blast) \in WornGames(g)
<1>1. Good(h) /\ SameShow(g, h) /\ blast \in SUBSET DOMAIN h.covers
  BY DEF WornGames, SameShow
<1>2. Good(EmitterBlast(h, blast)) /\ SameShow(h, EmitterBlast(h, blast))
  BY <1>1, EmitterBlastKeeps
<1>3. QED BY <1>1, <1>2, SameShowTrans DEF WornGames, Good

BlastEquation(f, g, blasts) ==
  f = [s \in SUBSET DOMAIN blasts |->
         IF s = {} THEN g ELSE EmitterBlast(f[s \ {Max(s)}], blasts[Max(s)])]

LEMMA BlastIsFold ==
  ASSUME NEW g, Good(g), NEW n \in Nat, NEW blasts \in [1..n -> SUBSET DOMAIN g.covers]
  PROVE  \E f : BlastEquation(f, g, blasts) /\ UpdateDestructibleWorld(g, blasts) = f[1..n]
<1> DEFINE A == WornGames(g)
           B == SUBSET DOMAIN g.covers
           step == [r \in A \X B |-> EmitterBlast(r[1], r[2])]
<1>1. g \in A
  BY DEF WornGames, Good, SameShow
<1>2. step \in [A \X B -> A] /\ \A h \in A, blast \in B : step[<<h, blast>>] = EmitterBlast(h, blast)
  BY BlastKeeps
<1> HIDE DEF A, B, step
<1>3. blasts \in [1..n -> B]
  BY DEF B
<1>4. PICK f \in [SUBSET (1..n) -> A] : IsLeftFold(f, n, g, blasts, step)
  BY <1>1, <1>2, <1>3, LeftFoldExists
<1>5. PICK T : T = 1..n
  OBVIOUS
<1>6. \A s \in SUBSET T : s # {} => Max(s) \in s
  BY <1>5, LargestInPart
<1>7. f \in [SUBSET T -> A] /\ blasts \in [T -> B] /\ DOMAIN blasts = T
  BY <1>3, <1>4, <1>5
<1>8. \A s \in SUBSET T : f[s] = IF s = {} THEN g ELSE step[<<f[s \ {Max(s)}], blasts[Max(s)]>>]
  BY <1>4, <1>5 DEF IsLeftFold
<1>9. \A s \in SUBSET T : s # {} => f[s \ {Max(s)}] \in A /\ blasts[Max(s)] \in B
  BY <1>6, <1>7
<1>10. BlastEquation(f, g, blasts)
  BY <1>2, <1>7, <1>8, <1>9 DEF BlastEquation
<1> DEFINE h == CHOOSE k : BlastEquation(k, g, blasts)
<1>11. BlastEquation(h, g, blasts)
  BY <1>10
<1>12. UpdateDestructibleWorld(g, blasts) = h[DOMAIN blasts]
  BY DEF UpdateDestructibleWorld, FoldLeft, MapThenFoldSet, BlastEquation
<1>13. QED BY <1>5, <1>7, <1>11, <1>12

LEMMA UpdateDestructibleWorldKeeps ==
  ASSUME NEW g, Good(g), NEW n \in Nat, NEW blasts \in [1..n -> SUBSET DOMAIN g.covers],
         NEW h, h = UpdateDestructibleWorld(g, blasts)
  PROVE  Good(h) /\ SameShow(g, h)
<1>1. PICK f : BlastEquation(f, g, blasts) /\ h = f[1..n]
  BY BlastIsFold
<1> DEFINE G == {s \in SUBSET (1..n) : f[s] \in WornGames(g)}
<1>2. {} \in G
  <2>1. f[{}] = g
    BY <1>1 DEF BlastEquation
  <2>2. g \in WornGames(g)
    BY DEF WornGames, Good, SameShow
  <2>3. QED BY <2>1, <2>2
<1>3. ASSUME NEW s \in SUBSET (1..n), s # {}, s \ {Max(s)} \in G
      PROVE  s \in G
  <2>1. Max(s) \in 1..n
    BY <1>3, LargestInPart
  <2>2. blasts[Max(s)] \in SUBSET DOMAIN g.covers /\ s \in SUBSET DOMAIN blasts
    BY <2>1
  <2>3. f[s] = EmitterBlast(f[s \ {Max(s)}], blasts[Max(s)])
    BY <1>1, <1>3, <2>2 DEF BlastEquation
  <2>4. f[s \ {Max(s)}] \in WornGames(g)
    BY <1>3
  <2>5. f[s] \in WornGames(g)
    BY <2>2, <2>3, <2>4, BlastKeeps
  <2>6. QED BY <2>5
<1>4. 1..n \in G
  <2> HIDE DEF G
  <2> QED BY <1>2, <1>3, BuiltUp
<1>5. QED BY <1>1, <1>4 DEF WornGames

-------------------------------------------------------------------------------
(* Impacts whose time is over leave, in one pass over the queue. *)

LEMMA KeepType ==
  ASSUME NEW active \in Seq(Impact), NEW impact \in Impact
  PROVE  Keep(active, impact) \in Seq(Impact)
BY DEF Keep

KeepEquation(f, impacts) ==
  f = [s \in SUBSET DOMAIN impacts |->
         IF s = {} THEN <<>> ELSE Keep(f[s \ {Max(s)}], impacts[Max(s)])]

LEMMA KeepIsFold ==
  ASSUME NEW n \in Nat, NEW impacts \in [1..n -> Impact]
  PROVE  \E f : KeepEquation(f, impacts) /\ FoldLeft(Keep, <<>>, impacts) = f[1..n]
<1> DEFINE A == Seq(Impact)
           B == Impact
           step == [r \in A \X B |-> Keep(r[1], r[2])]
<1>1. <<>> \in A
  OBVIOUS
<1>2. step \in [A \X B -> A] /\ \A h \in A, impact \in B : step[<<h, impact>>] = Keep(h, impact)
  BY KeepType
<1> HIDE DEF A, B, step
<1>3. impacts \in [1..n -> B]
  BY DEF B
<1>4. PICK f \in [SUBSET (1..n) -> A] : IsLeftFold(f, n, <<>>, impacts, step)
  BY <1>1, <1>2, <1>3, LeftFoldExists
<1>5. PICK T : T = 1..n
  OBVIOUS
<1>6. \A s \in SUBSET T : s # {} => Max(s) \in s
  BY <1>5, LargestInPart
<1>7. f \in [SUBSET T -> A] /\ impacts \in [T -> B] /\ DOMAIN impacts = T
  BY <1>3, <1>4, <1>5
<1>8. \A s \in SUBSET T : f[s] = IF s = {} THEN <<>> ELSE step[<<f[s \ {Max(s)}], impacts[Max(s)]>>]
  BY <1>4, <1>5 DEF IsLeftFold
<1>9. \A s \in SUBSET T : s # {} => f[s \ {Max(s)}] \in A /\ impacts[Max(s)] \in B
  BY <1>6, <1>7
<1>10. KeepEquation(f, impacts)
  BY <1>2, <1>7, <1>8, <1>9 DEF KeepEquation
<1> DEFINE h == CHOOSE k : KeepEquation(k, impacts)
<1>11. KeepEquation(h, impacts)
  BY <1>10
<1>12. FoldLeft(Keep, <<>>, impacts) = h[DOMAIN impacts]
  BY DEF FoldLeft, MapThenFoldSet, KeepEquation
<1>13. QED BY <1>5, <1>7, <1>11, <1>12

\* what is kept of the impacts at the places s
Lasting(impacts, s) == {impacts[m] : m \in {m \in s : impacts[m].left > 0}}

Kept(impacts, s, active) ==
  /\ active \in Seq(Impact)
  /\ Len(active) <= Cardinality(s)
  /\ Range(active) = Lasting(impacts, s)
  /\ Distinct(impacts) => Distinct(active)

LEMMA KeepKeeps ==
  ASSUME NEW n \in Nat, NEW impacts \in [1..n -> Impact],
         NEW s \in SUBSET (1..n), s # {}, NEW active, Kept(impacts, s \ {Max(s)}, active)
  PROVE  Kept(impacts, s, Keep(active, impacts[Max(s)]))
<1>1. PICK last : last = Max(s)
  OBVIOUS
<1>2. PICK rest : rest = s \ {last}
  OBVIOUS
<1>3. last \in s /\ last \in 1..n /\ last \notin rest /\ rest \subseteq 1..n
  BY <1>1, <1>2, LargestInPart
<1>4. PICK impact : impact = impacts[last]
  OBVIOUS
<1>5. impact \in Impact
  BY <1>3, <1>4
<1>6. Kept(impacts, rest, active)
  BY <1>1, <1>2
<1>7. IsFiniteSet(s) /\ Cardinality(s) \in Nat /\ Cardinality(rest) = Cardinality(s) - 1
  <2>1. PICK S : S = 1..n
    OBVIOUS
  <2>2. IsFiniteSet(S) /\ s \in SUBSET S
    BY <2>1, FS_Interval
  <2>3. IsFiniteSet(s)
    BY <2>2, FS_Subset
  <2>4. QED BY <1>2, <1>3, <2>3, FS_CardinalityType, FS_RemoveElement
<1>8. Len(active) \in Nat
  BY <1>6 DEF Kept
<1>9. CASE impact.left > 0
  <2>1. ASSUME Distinct(impacts) PROVE impact.id \notin Ids(active)
    <3>1. \A m \in rest : impacts[m].id # impact.id
      BY <1>3, <1>4, <2>1 DEF Distinct
    <3>2. QED BY <1>6, <3>1 DEF Kept, Lasting, Ids
  <2>2. PICK more : more = Append(active, impact)
    OBVIOUS
  <2>3. /\ more \in Seq(Impact) /\ Len(more) = Len(active) + 1
        /\ Range(more) = Range(active) \cup {impact}
        /\ Distinct(impacts) => Distinct(more)
    BY <1>5, <1>6, <2>1, <2>2, AppendOne DEF Kept
  <2>4. Lasting(impacts, s) = Lasting(impacts, rest) \cup {impact}
    BY <1>2, <1>3, <1>4, <1>9 DEF Lasting
  <2>5. Len(more) <= Cardinality(s)
    BY <1>6, <1>7, <1>8, <2>3 DEF Kept
  <2>6. Kept(impacts, s, more)
    BY <1>6, <2>3, <2>4, <2>5 DEF Kept
  <2>7. QED BY <1>1, <1>4, <1>9, <2>2, <2>6 DEF Keep
<1>10. CASE ~ (impact.left > 0)
  <2>1. Lasting(impacts, s) = Lasting(impacts, rest)
    BY <1>2, <1>4, <1>10 DEF Lasting
  <2>2. Len(active) <= Cardinality(s)
    BY <1>6, <1>7, <1>8 DEF Kept
  <2>3. Kept(impacts, s, active)
    BY <1>6, <2>1, <2>2 DEF Kept
  <2>4. QED BY <1>1, <1>4, <1>10, <2>3 DEF Keep
<1>11. QED BY <1>9, <1>10

LEMMA ActiveImpacts ==
  ASSUME NEW n \in Nat, NEW impacts \in [1..n -> Impact]
  PROVE  Kept(impacts, 1..n, FoldLeft(Keep, <<>>, impacts))
<1>1. PICK f : KeepEquation(f, impacts) /\ FoldLeft(Keep, <<>>, impacts) = f[1..n]
  BY KeepIsFold
<1> DEFINE G == {s \in SUBSET (1..n) : Kept(impacts, s, f[s])}
<1>2. {} \in G
  <2>1. f[{}] = <<>>
    BY <1>1 DEF KeepEquation
  <2>2. Kept(impacts, {}, <<>>)
    <3>1. Cardinality({}) = 0
      BY FS_EmptySet
    <3>2. PICK none : none = <<>>
      OBVIOUS
    <3>3. Len(none) = 0 /\ DOMAIN none = {} /\ none \in Seq(Impact)
      BY <3>2
    <3>4. Range(none) = {} /\ Lasting(impacts, {}) = {} /\ Distinct(none)
      BY <3>3 DEF Range, Lasting, Distinct
    <3>5. Kept(impacts, {}, none)
      BY <3>1, <3>3, <3>4 DEF Kept
    <3>6. QED BY <3>2, <3>5
  <2>3. QED BY <2>1, <2>2
<1>3. ASSUME NEW s \in SUBSET (1..n), s # {}, s \ {Max(s)} \in G
      PROVE  s \in G
  <2>1. Max(s) \in 1..n
    BY <1>3, LargestInPart
  <2>2. f[s] = Keep(f[s \ {Max(s)}], impacts[Max(s)])
    BY <1>1, <1>3 DEF KeepEquation
  <2>3. Kept(impacts, s \ {Max(s)}, f[s \ {Max(s)}])
    BY <1>3
  <2>4. Kept(impacts, s, f[s])
    <3>1. PICK before : before = f[s \ {Max(s)}]
      OBVIOUS
    <3>2. Kept(impacts, s \ {Max(s)}, before)
      BY <2>3, <3>1
    <3> HIDE DEF G
    <3>3. Kept(impacts, s, Keep(before, impacts[Max(s)]))
      BY <1>3, <3>2, KeepKeeps
    <3>4. QED BY <2>2, <3>1, <3>3
  <2>5. QED BY <2>4
<1>4. 1..n \in G
  <2> HIDE DEF G
  <2> QED BY <1>2, <1>3, BuiltUp
<1>5. QED BY <1>1, <1>4

LEMMA UpdateImpactsKeeps ==
  ASSUME NEW g, Good(g), NEW h, h = UpdateImpacts(g)
  PROVE  Good(h) /\ SameShow(g, h) /\ (IdsFit(h) => ShowsImpacts(h))
<1>1. /\ g \in Game /\ g.impacts \in Seq(Impact) /\ g.world \in World
      /\ g.nextImpact \in 0..MaxImpactId
  BY GameFields DEF Good
<1>2. PICK n : n = Len(g.impacts)
  OBVIOUS
<1>3. n \in Nat /\ n <= MaxActiveImpacts /\ g.impacts \in [1..n -> Impact]
  BY <1>1, <1>2 DEF Good
<1>4. PICK active : active = FoldLeft(Keep, <<>>, g.impacts)
  OBVIOUS
<1>5. Kept(g.impacts, 1..n, active)
  BY <1>3, <1>4, ActiveImpacts
<1>6. /\ active \in Seq(Impact) /\ Len(active) <= MaxActiveImpacts
      /\ Range(active) \subseteq Range(g.impacts)
      /\ Distinct(g.impacts) => Distinct(active)
  <2>1. Cardinality(1..n) = n
    BY <1>3, FS_Interval
  <2>2. Len(active) <= MaxActiveImpacts
    <3>1. active \in Seq(Impact) /\ Len(active) <= n
      BY <1>5, <2>1 DEF Kept
    <3>2. Len(active) \in Nat
      BY <3>1
    <3>3. QED BY <1>3, <3>1, <3>2, Parameters
  <2>3. Range(active) \subseteq Range(g.impacts)
    BY <1>3, <1>5 DEF Kept, Lasting, Range
  <2>4. QED BY <1>5, <2>2, <2>3 DEF Kept
<1>7. PICK gone : gone = {impact.id : impact \in Range(g.impacts) \ Range(active)}
  OBVIOUS
<1>8. gone \subseteq Ids(g.impacts) /\ Ids(active) \subseteq Ids(g.impacts)
  BY <1>6, <1>7 DEF Ids
<1>9. PICK left : left = Despawn(g.world, ImpactEntities(gone))
  OBVIOUS
<1>10. /\ left \in World /\ DOMAIN left = DOMAIN g.world \ ImpactEntities(gone)
       /\ \A e \in DOMAIN g.world \ ImpactEntities(gone) : left[e] = g.world[e]
  BY <1>1, <1>9, DespawnIs
<1>11. PICK p : p = ImpactPayloads(active)
  OBVIOUS
<1>12. /\ p \in World /\ DOMAIN p = ImpactEntities(Ids(active))
       /\ Distinct(active) => \A impact \in Range(active) : p[ImpactEntity(impact.id)] = impact.left
  BY <1>6, <1>11, ImpactPayloadsAre
<1>13. PICK world : world = SetPayloads(left, p)
  OBVIOUS
<1>14. \A e \in DOMAIN p : p[e] \in Payload
  BY <1>12, MapElim DEF World
<1>15. /\ world \in World /\ DOMAIN world = DOMAIN left
       /\ \A e \in DOMAIN left : world[e] = IF e \in DOMAIN p THEN p[e] ELSE left[e]
  BY <1>10, <1>13, <1>14, SetPayloadsIs
<1>16. h = WithImpacts(g, active, g.nextImpact, world)
  <2>1. {ImpactEntity(impact.id) : impact \in Range(g.impacts) \ Range(active)} = ImpactEntities(gone)
    BY <1>7 DEF ImpactEntities
  <2>2. h = [g EXCEPT !.impacts = active, !.world = world]
    BY <1>4, <1>9, <1>11, <1>13, <2>1 DEF UpdateImpacts
  <2>3. QED BY <1>1, <2>2 DEF Game, WithImpacts
<1>17. h.impacts = active /\ h.world = world
  BY <1>16 DEF WithImpacts
<1>18. ASSUME IdsFit(g)
       PROVE  /\ DOMAIN world = RosterWith(g, active) /\ Distinct(active)
              /\ \A m \in Ids(active) : m < g.nextImpact
              /\ SameElsewhere(g, world)
  <2>1. Distinct(g.impacts) /\ Distinct(active) /\ \A m \in Ids(active) : m < g.nextImpact
    BY <1>6, <1>8, <1>18, GoodWorld
  <2>2. Ids(active) = Ids(g.impacts) \ gone
    <3>1. \A a, b \in Range(g.impacts) : a.id = b.id => a = b
      BY <2>1 DEF Range, Distinct
    <3>2. QED BY <1>6, <1>7, <3>1 DEF Ids
  <2>3. RosterWith(g, active) = DOMAIN g.world \ ImpactEntities(gone)
    BY <1>8, <1>18, <2>2, RosterLoses
  <2>4. SameElsewhere(g, world)
    <3>1. ImpactEntities(gone) \subseteq ImpactIds /\ DOMAIN p \subseteq ImpactIds
      BY <1>8, <1>12, <1>18, GoodRanges DEF ImpactEntities
    <3>2. QED BY <1>10, <1>15, <3>1 DEF SameElsewhere
  <2>5. QED BY <1>10, <1>15, <2>1, <2>3, <2>4
<1>19. Good(h) /\ SameShow(g, h)
  <2>1. g.nextImpact <= g.nextImpact
    BY <1>1, Bases
  <2>2. QED BY <1>1, <1>6, <1>15, <1>16, <1>18, <2>1, ImpactsChanged
<1>20. ASSUME IdsFit(h) PROVE ShowsImpacts(h)
  <2>1. IdsFit(g)
    BY <1>19, <1>20 DEF SameShow
  <2>2. Distinct(active) /\ DOMAIN world = RosterWith(g, active)
    BY <1>18, <2>1
  <2>3. \A impact \in Range(active) : ImpactEntity(impact.id) \in DOMAIN left \cap DOMAIN p
    BY <1>12, <1>15, <2>2 DEF Ids, ImpactEntities, RosterWith, Roster
  <2>4. QED BY <1>12, <1>15, <1>17, <2>2, <2>3 DEF ShowsImpacts
<1>21. QED BY <1>19, <1>20
-------------------------------------------------------------------------------
(* A whole tick *)

LEMMA ImagesAreFinite ==
  ASSUME NEW S, IsFiniteSet(S)
  PROVE  IsFiniteSet(BotTargets(S)) /\ IsFiniteSet(ClientTargets(S))
<1>1. [x \in S |-> BotTarget(x)] \in Surjection(S, BotTargets(S))
  BY DEF Surjection, BotTargets
<1>2. [x \in S |-> ClientTarget(x)] \in Surjection(S, ClientTargets(S))
  BY DEF Surjection, ClientTargets
<1>3. QED BY <1>1, <1>2, FS_Surjection

\* Everybody in S, in some order
LEMMA OrderOfSome ==
  ASSUME NEW S, IsFiniteSet(S), NEW order \in SetToSeqs(S)
  PROVE  Cardinality(S) \in Nat /\ order \in [1..Cardinality(S) -> S]
         /\ DOMAIN order = 1..Cardinality(S)
BY FS_CardinalityType DEF SetToSeqs

LEMMA TargetsTakePart ==
  ASSUME NEW g, NEW i
  PROVE  /\ \A team : Enemies(g, team) \subseteq
                        BotTargets(DOMAIN g.bots) \cup ClientTargets(DOMAIN g.clients)
         /\ Targets(g, i) \ {Nobody} \subseteq
              BotTargets(DOMAIN g.bots) \cup ClientTargets(DOMAIN g.clients)
<1>1. \A team : Enemies(g, team) \subseteq
                  BotTargets(DOMAIN g.bots) \cup ClientTargets(DOMAIN g.clients)
  BY DEF Enemies, BotTargets, ClientTargets, AliveBots, AliveClients
<1>2. {BotTarget(j) : j \in {j \in Returning(g) : j < i /\ BotTeam(j) # BotTeam(i)}}
        \subseteq BotTargets(DOMAIN g.bots)
  BY DEF Returning, BotTargets
<1>3. QED BY <1>1, <1>2 DEF Targets

LEMMA CombatEventsAre ==
  ASSUME NEW g, Good(g), NEW now, NEW events \in CombatEvents(g, now)
  PROVE  \E n \in Nat : events \in [1..n -> Event(g)]
<1> DEFINE fired(aim, order) == [n \in DOMAIN order |->
                                   DamageEvent(BotTeam(order[n]), aim[order[n]], BotWeaponDamage)]
<1>0. PICK aim \in Aims(g, Shooters(g, now)) :
        \E order \in FiringOrders(aim) : events = fired(aim, order)
  BY DEF CombatEvents
<1>1. PICK order \in FiringOrders(aim) : events = fired(aim, order)
  BY <1>0
<1>2. PICK S : S = {i \in DOMAIN aim : aim[i] # Nobody}
  OBVIOUS
<1>3. order \in SetToSeqs(S)
  BY <1>2 DEF FiringOrders
<1>4. /\ DOMAIN aim = Shooters(g, now) /\ \A i \in DOMAIN aim : aim[i] \in Targets(g, i)
  BY DEF Aims
<1>5. S \subseteq DOMAIN g.bots
  BY <1>2, <1>4 DEF Shooters, AliveBots
<1>6. IsFiniteSet(S) /\ S \subseteq Nat
  <2>1. DOMAIN g.bots \subseteq Nat
    BY GameFields, MapElim DEF Good
  <2>2. QED BY <1>5, <2>1, FS_Subset DEF Good
<1>7. PICK n : n = Cardinality(S)
  OBVIOUS
<1>8. n \in Nat /\ order \in [1..n -> S] /\ DOMAIN order = 1..n
  BY <1>3, <1>6, <1>7, OrderOfSome
<1>9. \A i \in S : aim[i] \in BotTargets(DOMAIN g.bots) \cup ClientTargets(DOMAIN g.clients)
  BY <1>2, <1>4, TargetsTakePart
<1>10. \A i \in Nat : BotTeam(i) \in Team
  BY DEF BotTeam, Team
<1>11. \A m \in 1..n : DamageEvent(BotTeam(order[m]), aim[order[m]], BotWeaponDamage) \in Event(g)
  BY <1>6, <1>8, <1>9, <1>10, Parameters DEF DamageEvent, Event
<1>12. events \in [1..n -> Event(g)]
  BY <1>1, <1>8, <1>11
<1>13. QED BY <1>8, <1>12

LEMMA BlastsAre ==
  ASSUME NEW g \in Game, NEW now, NEW blasts \in Blasts(g, now)
  PROVE  \E n \in Nat : blasts \in [1..n -> SUBSET DOMAIN g.covers]
<1>1. CASE blasts = <<>>
  <2>1. blasts \in [1..0 -> SUBSET DOMAIN g.covers]
    BY <1>1
  <2>2. QED BY <2>1
<1>2. CASE blasts \in SeqOf((SUBSET DOMAIN g.covers) \ {{}}, g.effects)
  <2>1. PICK n \in 0..g.effects : blasts \in [1..n -> (SUBSET DOMAIN g.covers) \ {{}}]
    BY <1>2 DEF SeqOf
  <2>2. blasts \in [1..n -> SUBSET DOMAIN g.covers] /\ n \in Nat
    BY <2>1, GameFields
  <2>3. QED BY <2>2
<1>3. QED BY <1>1, <1>2 DEF Blasts

LEMMA TickKeeps ==
  ASSUME NEW f, Good(f), NEW now, NEW g, g = MaybeResetRound(Aged(f)),
         NEW events \in CombatEvents(g, now), NEW blasts \in Blasts(g, now),
         NEW h, h = UpdateImpacts(UpdateDestructibleWorld(Combat(g, events), blasts))
  PROVE  /\ Good(h) /\ SameCast(f, h)
         /\ IdsFit(h) => ShowsSessions(h) /\ ShowsScores(h) /\ ShowsImpacts(h)
<1>1. Good(g) /\ SameCast(f, g)
  <2>1. Good(Aged(f)) /\ SameCast(f, Aged(f))
    BY AgedKeeps
  <2>2. QED BY <2>1, MaybeResetRoundKeeps, SameCastTrans
<1>2. PICK n \in Nat : events \in [1..n -> Event(g)]
  BY <1>1, CombatEventsAre
<1>3. PICK a : a = Combat(g, events)
  OBVIOUS
<1>4. Good(a) /\ SameCast(g, a) /\ (IdsFit(a) => ShowsSessions(a) /\ ShowsScores(a))
  BY <1>1, <1>2, <1>3, CombatKeeps
<1>5. PICK k \in Nat : blasts \in [1..k -> SUBSET DOMAIN g.covers]
  BY <1>1, BlastsAre DEF Good
<1>6. blasts \in [1..k -> SUBSET DOMAIN a.covers]
  BY <1>4, <1>5 DEF SameCast
<1>7. PICK b : b = UpdateDestructibleWorld(a, blasts)
  OBVIOUS
<1>8. Good(b) /\ SameShow(a, b)
  BY <1>4, <1>6, <1>7, UpdateDestructibleWorldKeeps
<1>9. h = UpdateImpacts(b)
  BY <1>3, <1>7
<1>10. Good(h) /\ SameShow(b, h) /\ (IdsFit(h) => ShowsImpacts(h))
  BY <1>8, <1>9, UpdateImpactsKeeps
<1>11. SameShow(a, h)
  BY <1>8, <1>10, SameShowTrans
<1>12. SameCast(a, h) /\ (IdsFit(h) => ShowsSessions(h) /\ ShowsScores(h))
  BY <1>4, <1>10, <1>11, StillShown DEF Good
<1>13. QED BY <1>1, <1>4, <1>10, <1>12, SameCastTrans

-------------------------------------------------------------------------------
(* Datagrams *)

NewSession == [health |-> PlayerMaxHealth, cooldown |-> 0, wait |-> 0]

LEMMA ConnectKeeps ==
  ASSUME NEW g, Good(g), NEW c \in Nat \ {0}, NEW h, h = ConnectDemoClient(g, c)
  PROVE  Good(h) /\ DOMAIN h.clients = DOMAIN g.clients \cup {c} /\ h.covers = g.covers
<1>1. CASE c \in DOMAIN g.clients
  BY <1>1 DEF ConnectDemoClient
<1>2. CASE c \notin DOMAIN g.clients
  <2> DEFINE sessions == Put(g.clients, c, NewSession)
  <2>1. g \in Game /\ g.clients \in MapsOf(Nat \ {0}, Session) /\ g.world \in World
    BY GameFields DEF Good
  <2>2. NewSession \in Session /\ Alive(NewSession)
    BY Parameters DEF NewSession, Session, Alive
  <2>3. /\ sessions \in MapsOf(Nat \ {0}, Session) /\ DOMAIN sessions = DOMAIN g.clients \cup {c}
        /\ sessions[c] = NewSession /\ \A d \in DOMAIN g.clients : sessions[d] = g.clients[d]
    <3>1. g.clients \in [DOMAIN g.clients -> Session] /\ DOMAIN g.clients \subseteq Nat \ {0}
      BY <2>1, MapElim
    <3>2. sessions \in [DOMAIN g.clients \cup {c} -> Session]
      BY <2>2, <3>1 DEF Put
    <3>3. sessions \in MapsOf(Nat \ {0}, Session) /\ DOMAIN sessions = DOMAIN g.clients \cup {c}
      <4> HIDE DEF sessions
      <4> QED BY <3>1, <3>2, MapIntro
    <3>4. QED BY <1>2, <3>3 DEF Put
  <2>4. PICK joined : joined = [g EXCEPT !.clients = sessions]
    OBVIOUS
  <2>5. PICK p : p = PlayerPayloads(joined, {c})
    OBVIOUS
  <2>6. PICK world : world = Spawn(g.world, p)
    OBVIOUS
  <2>7. h = [joined EXCEPT !.world = world]
    BY <1>2, <2>1, <2>4, <2>5, <2>6 DEF ConnectDemoClient, NewSession, Game
  <2> HIDE DEF sessions
  <2>8. joined = [bots |-> g.bots, effects |-> g.effects, clients |-> sessions,
                  match |-> g.match, covers |-> g.covers, impacts |-> g.impacts,
                  nextImpact |-> g.nextImpact, world |-> g.world]
    BY <2>1, <2>4, GameWith
  <2>9. joined \in Game
    BY <2>1, <2>3, <2>8, GameFields, GameIntro
  <2>10. p \in World /\ DOMAIN p = {PlayerEntity(c)}
    <3>1. PICK S : S = {c}
      OBVIOUS
    <3>2. S \in SUBSET DOMAIN joined.clients
      BY <2>3, <2>8, <3>1
    <3>3. PlayerPayloads(joined, S) \in World /\ DOMAIN PlayerPayloads(joined, S) = PlayerEntities(S)
      BY <2>9, <3>2, ClientsAre
    <3>4. QED BY <2>5, <3>1, <3>3 DEF PlayerEntities
  <2>11. /\ world \in World /\ DOMAIN world = DOMAIN g.world \cup {PlayerEntity(c)}
         /\ \A e \in DOMAIN g.world \ {PlayerEntity(c)} : world[e] = g.world[e]
    <3>1. /\ world \in World /\ DOMAIN world = DOMAIN g.world \cup DOMAIN p
          /\ \A e \in DOMAIN g.world \ DOMAIN p : world[e] = g.world[e]
      BY <2>1, <2>6, <2>10, SpawnIs
    <3>2. QED BY <2>10, <3>1
  <2>12. h = [bots |-> g.bots, effects |-> g.effects, clients |-> sessions, match |-> g.match,
              covers |-> g.covers, impacts |-> g.impacts, nextImpact |-> g.nextImpact,
              world |-> world]
    BY <2>7, <2>8
  <2>13. h \in Game
    BY <2>1, <2>3, <2>11, <2>12, GameFields, GameIntro
  <2>14. AliveBots(h) = AliveBots(g) /\ AliveClients(h) = AliveClients(g) \cup {c}
    BY <2>2, <2>3, <2>12 DEF AliveBots, AliveClients
  <2>15. ASSUME IdsFit(h) PROVE Shown(h)
    <3>1. IdsFit(g)
      BY <2>12, <2>15 DEF IdsFit
    <3>2. RosterOf(h) = RosterOf(g) \cup {PlayerEntity(c)}
      BY <2>3, <2>12, <2>14, PlayerComes DEF RosterOf
    <3>3. DOMAIN h.world = RosterOf(h) /\ Distinct(h.impacts)
      BY <2>11, <2>12, <3>1, <3>2, GoodWorld
    <3>4. \A k \in DOMAIN g.covers : CoverEntity(k) \in DOMAIN g.world \ {PlayerEntity(c)}
      <4>1. PlayerEntity(c) \in PlayerIds
        BY <2>1, <3>1, InRange DEF PlayerEntities
      <4>2. \A k \in DOMAIN g.covers : CoverEntity(k) # PlayerEntity(c)
        BY <3>1, <4>1, GoodRanges, RangesDiffer
      <4>3. \A k \in DOMAIN g.covers : CoverEntity(k) \in DOMAIN g.world
        BY <3>1, GoodWorld DEF CoverEntities
      <4>4. QED BY <4>2, <4>3
    <3>5. ShowsCovers(h)
      BY <2>11, <2>12, <3>1, <3>4, GoodWorld DEF ShowsCovers
    <3>6. QED BY <2>12, <3>1, <3>3, <3>5, GoodWorld, MirroredIs DEF Shown
  <2>16. IsFiniteSet(DOMAIN h.bots) /\ IsFiniteSet(DOMAIN h.clients)
    <3>1. PICK C : C = DOMAIN g.clients
      OBVIOUS
    <3>2. IsFiniteSet(C) /\ IsFiniteSet(DOMAIN g.bots)
      BY <3>1 DEF Good
    <3>3. IsFiniteSet(C \cup {c})
      BY <3>2, FS_AddElement
    <3>4. h.bots = g.bots /\ DOMAIN h.clients = C \cup {c}
      BY <2>3, <2>12, <3>1
    <3>5. QED BY <3>2, <3>3, <3>4
  <2>17. Scored(h)
    <3>1. \A t : DeadOf(h, t) = DeadOf(g, t)
      <4>1. ASSUME NEW t
            PROVE  DeadOf(h, t) = DeadOf(g, t)
        <5>1. DeadBots(h, t) = DeadBots(g, t) /\ DeadClients(h, t) = DeadClients(g, t)
          BY <1>2, <2>3, <2>12, <2>14 DEF DeadBots, DeadClients
        <5>2. QED BY <2>16, <5>1, DeadAreCounted DEF Good
      <4>2. QED BY <4>1
    <3>2. QED BY <2>12, <3>1 DEF Good, Scored
  <2>18. QED BY <2>3, <2>12, <2>13, <2>15, <2>16, <2>17 DEF Good
<1>3. QED BY <1>1, <1>2

\* The next shot of a session has to wait; everything else is as it was.
Fired(g, c) == [g EXCEPT !.clients[c].cooldown = PlayerFireCooldownTicks]

LEMMA FiredKeeps ==
  ASSUME NEW g, Good(g), NEW c \in DOMAIN g.clients, NEW h, h = Fired(g, c)
  PROVE  Good(h) /\ SameCast(g, h)
<1> DEFINE who == g.clients[c]
           waits == [health |-> who.health, cooldown |-> PlayerFireCooldownTicks,
                     wait |-> who.wait]
<1>1. g \in Game /\ who \in Session /\ g.match \in Match
  BY ClientsAre, GameFields DEF Good
<1>2. waits \in Session /\ (Alive(who) => Alive(waits))
  BY <1>1, Parameters DEF Session, Alive
<1>3. PICK next : next = [who EXCEPT !.cooldown = PlayerFireCooldownTicks]
  OBVIOUS
<1>4. next = waits
  <2> HIDE DEF who
  <2> QED BY <1>1, <1>3 DEF Session
<1>5. h = [g EXCEPT !.clients[c] = next]
  BY <1>3 DEF Fired
<1>6. h = [bots |-> g.bots, effects |-> g.effects,
           clients |-> [g.clients EXCEPT ![c] = waits], match |-> g.match,
           covers |-> g.covers, impacts |-> g.impacts, nextImpact |-> g.nextImpact,
           world |-> g.world]
  BY <1>1, <1>4, <1>5 DEF Game
<1> HIDE DEF waits
<1>7. /\ h \in Game /\ SameCast(g, h) /\ (IdsFit(h) => Shown(h))
      /\ h.match = g.match /\ DOMAIN h.clients = DOMAIN g.clients /\ h.impacts = g.impacts
      /\ AliveBots(h) = AliveBots(g)
      /\ h.clients[c] = waits /\ \A d \in DOMAIN g.clients \ {c} : h.clients[d] = g.clients[d]
  BY <1>1, <1>2, <1>6, ClientChanged
<1>8. AliveClients(g) \subseteq AliveClients(h)
  BY <1>2, <1>7 DEF AliveClients
<1>9. Scored(h)
  BY <1>1, <1>7, <1>8, MoreAliveIsScored DEF Good
<1>10. QED BY <1>7, <1>9 DEF Good, SameCast

LEMMA ShotKeeps ==
  ASSUME NEW g, Good(g), NEW team \in Team, NEW hit \in SUBSET Enemies(g, team),
         NEW targets \in SetToSeqs(hit), NEW events,
         events = [n \in DOMAIN targets |-> DamageEvent(team, targets[n], PlayerWeaponDamage)],
         NEW blast \in SUBSET DOMAIN g.covers,
         NEW h, h = SpawnImpact(DamageCovers(ApplyDamageEvents(g, events), blast))
  PROVE  Good(h) /\ SameCast(g, h)
<1>1. PICK E : E = BotTargets(DOMAIN g.bots) \cup ClientTargets(DOMAIN g.clients)
  OBVIOUS
<1>2. hit \subseteq E /\ IsFiniteSet(hit)
  <2>1. IsFiniteSet(BotTargets(DOMAIN g.bots)) /\ IsFiniteSet(ClientTargets(DOMAIN g.clients))
    BY ImagesAreFinite DEF Good
  <2>2. IsFiniteSet(E)
    BY <1>1, <2>1, FS_Union
  <2>3. hit \subseteq E
    BY <1>1, TargetsTakePart
  <2>4. QED BY <2>2, <2>3, FS_Subset
<1>3. PICK n : n = Cardinality(hit)
  OBVIOUS
<1>4. n \in Nat /\ targets \in [1..n -> hit] /\ DOMAIN targets = 1..n
  BY <1>2, <1>3, OrderOfSome
<1>5. \A m \in 1..n : DamageEvent(team, targets[m], PlayerWeaponDamage) \in Event(g)
  BY <1>1, <1>2, <1>4, Parameters DEF DamageEvent, Event
<1>6. events \in [1..n -> Event(g)]
  BY <1>4, <1>5
<1>7. PICK a : a = ApplyDamageEvents(g, events)
  OBVIOUS
<1>8. Good(a) /\ SameCast(g, a)
  BY <1>4, <1>6, <1>7, ApplyDamageEventsKeeps
<1>9. PICK b : b = DamageCovers(a, blast)
  OBVIOUS
<1>10. Good(b) /\ SameShow(a, b)
  BY <1>8, <1>9, DamageCoversKeeps DEF SameCast
<1>11. Good(h) /\ SameShow(b, h)
  BY <1>7, <1>9, <1>10, SpawnImpactKeeps
<1>12. SameCast(a, b) /\ SameCast(b, h)
  BY <1>8, <1>10, <1>11, StillShown DEF Good
<1>13. QED BY <1>8, <1>11, <1>12, SameCastTrans

-------------------------------------------------------------------------------
(* What always holds *)

DemoInv ==
  /\ clock \in 0..Period - 1
  /\ nextClient \in 1..MaxClients + 1
  /\ DOMAIN game.clients \subseteq 1..nextClient - 1
  /\ Good(game)

LEMMA PeriodIs == Period \in Nat /\ Period > 0
<1>1. \A a, b \in Nat \ {0} : a * b \in Nat /\ a * b > 0
  OBVIOUS
<1>2. QED BY <1>1, Parameters DEF Period

LEMMA InvImpliesTypes ==
  DemoInv => DemoTypeOK
<1> SUFFICES ASSUME DemoInv PROVE DemoTypeOK
  OBVIOUS
<1>1. PICK g : g = game
  OBVIOUS
<1>2. g \in Game
  BY <1>1 DEF DemoInv, Good
<1>3. /\ g.bots \in MapsOf(Nat, Bot) /\ g.clients \in MapsOf(Nat \ {0}, Session)
      /\ g.match \in Match /\ g.covers \in MapsOf(Nat, 0..CoverMaxHealth)
  BY <1>2, GameFields
<1>4. g.bots \in [DOMAIN g.bots -> Bot] /\ g.covers \in [DOMAIN g.covers -> 0..CoverMaxHealth]
  BY <1>3, MapElim
<1>5. ASSUME NEW c \in DOMAIN g.clients
      PROVE  /\ g.clients[c].cooldown \in 0..PlayerFireCooldownTicks
             /\ [health |-> g.clients[c].health, wait |-> g.clients[c].wait]
                  \in Health(PlayerMaxHealth, PlayerRespawnTicks)
  <2>1. g.clients[c] \in Session
    BY <1>2, ClientsAre
  <2>2. QED BY <2>1 DEF Session, Health
<1>6. /\ Len(g.impacts) <= MaxActiveImpacts
      /\ \A impact \in Range(g.impacts) : impact.left \in 0..ImpactLifetimeTicks
      /\ g.nextImpact \in 0..MaxImpactId
  <2>1. g.impacts \in Seq(Impact) /\ g.nextImpact \in 0..MaxImpactId
    BY <1>2, GameFields
  <2>2. Range(g.impacts) \subseteq Impact
    BY <2>1 DEF Range
  <2>3. QED BY <1>1, <2>1, <2>2 DEF DemoInv, Good, Impact
<1>7. QED BY <1>1, <1>3, <1>4, <1>5, <1>6 DEF DemoInv, DemoTypeOK, Match, Bot

LEMMA DemoInitInv ==
  DemoInit => DemoInv
<1> SUFFICES ASSUME DemoInit PROVE DemoInv
  OBVIOUS
<1> DEFINE bots(scene) == [i \in 0..scene.bots - 1 |-> FullBot]
           covers(scene) == [k \in 0..scene.covers - 1 |-> CoverMaxHealth]
           entities(scene) == Spawn(BotPayloads([bots |-> bots(scene)], DOMAIN bots(scene)),
                                    EffectPayloads(scene.effects))
<1>1. PICK scene \in Scenes :
        game = [bots |-> bots(scene), effects |-> scene.effects, clients |-> EmptyMap,
                match |-> FirstMatch, covers |-> covers(scene), impacts |-> <<>>,
                nextImpact |-> 0,
                world |-> Spawn(Spawn(entities(scene), CoverPayloads(covers(scene))),
                                ScorePayloads(FirstMatch))]
  BY DEF DemoInit
<1>2. scene.bots \in Nat /\ scene.effects \in Nat /\ scene.covers \in Nat
  BY DemoAssumption
<1>3. PICK B : B = 0..scene.bots - 1
  OBVIOUS
<1>4. PICK K : K = 0..scene.covers - 1
  OBVIOUS
<1>5. PICK b : b = bots(scene)
  OBVIOUS
<1>6. PICK k : k = covers(scene)
  OBVIOUS
<1>7. /\ B \in SUBSET Nat /\ IsFiniteSet(B) /\ b \in [B -> Bot] /\ b \in MapsOf(Nat, Bot)
      /\ \A i \in B : Alive(b[i])
  <2>1. B \in SUBSET Nat /\ IsFiniteSet(B)
    <3>1. PICK last : last = scene.bots - 1
      OBVIOUS
    <3>2. last \in Int /\ B = 0..last
      BY <1>2, <1>3, <3>1
    <3>3. QED BY <3>2, FS_Interval
  <2>2. b \in [B -> Bot] /\ \A i \in B : Alive(b[i])
    BY <1>3, <1>5, FullBotIs
  <2>3. QED BY <2>1, <2>2, MapIntro
<1>8. /\ k \in MapsOf(Nat, 0..CoverMaxHealth) /\ DOMAIN k = K
  <2>1. K \in SUBSET Nat
    BY <1>2, <1>4
  <2>2. k \in [K -> 0..CoverMaxHealth]
    BY <1>4, <1>6, Parameters
  <2>3. QED BY <2>1, <2>2, MapIntro
<1>9. PICK nobody : nobody = EmptyMap
  OBVIOUS
<1>10. nobody \in MapsOf(Nat \ {0}, Session) /\ DOMAIN nobody = {}
  <2>1. nobody \in [{} -> Session] /\ {} \in SUBSET (Nat \ {0})
    BY <1>9 DEF EmptyMap
  <2>2. QED BY <2>1, MapIntro
<1>11. FirstMatch \in Match /\ FirstMatch.winner = NoWinner /\ \A t \in Team : FirstMatch.scores[t] = 0
  BY Parameters DEF FirstMatch, Match, IsRoundActive
<1>12. PICK called : called = BotPayloads([bots |-> b], B)
  OBVIOUS
<1>13. called \in World /\ DOMAIN called = BotEntities(B)
  BY <1>7, <1>12, BotPayloadsAre
<1>14. PICK E : E = 0..scene.effects - 1
  OBVIOUS
<1>15. PICK burning : burning = EffectPayloads(scene.effects)
  OBVIOUS
<1>16. burning \in World /\ DOMAIN burning = EffectEntities(E)
  BY <1>2, <1>14, <1>15, EffectPayloadsAre
<1>17. PICK mended : mended = CoverPayloads(k)
  OBVIOUS
<1>18. /\ mended \in World /\ DOMAIN mended = CoverEntities(K)
       /\ \A j \in K : mended[CoverEntity(j)] = k[j]
  BY <1>8, <1>17, CoverPayloadsAre
<1>19. PICK scores : scores = ScorePayloads(FirstMatch)
  OBVIOUS
<1>20. scores \in World /\ DOMAIN scores = ScoreEntities
  BY <1>11, <1>16, <1>19, ScorePayloadsAre
<1>21. PICK moving : moving = Spawn(called, burning)
  OBVIOUS
<1>22. moving \in World /\ DOMAIN moving = DOMAIN called \cup DOMAIN burning
  BY <1>13, <1>16, <1>21, SpawnIs
<1>23. PICK both : both = Spawn(moving, mended)
  OBVIOUS
<1>24. /\ both \in World /\ DOMAIN both = DOMAIN moving \cup DOMAIN mended
       /\ \A e \in DOMAIN mended : both[e] = mended[e]
  BY <1>18, <1>22, <1>23, SpawnIs
<1>25. PICK world : world = Spawn(both, scores)
  OBVIOUS
<1>26. /\ world \in World /\ DOMAIN world = DOMAIN both \cup DOMAIN scores
       /\ \A e \in DOMAIN both \ DOMAIN scores : world[e] = both[e]
  BY ZenonT(60), <1>20, <1>24, <1>25, SpawnIs
<1>27. PICK g : g = game
  OBVIOUS
<1>28. g = [bots |-> b, effects |-> scene.effects, clients |-> nobody, match |-> FirstMatch,
            covers |-> k, impacts |-> <<>>, nextImpact |-> 0, world |-> world]
  <2>1. DOMAIN b = B
    BY <1>7
  <2> HIDE DEF bots, covers
  <2>2. called = BotPayloads([bots |-> bots(scene)], DOMAIN bots(scene))
    BY <1>5, <1>12, <2>1
  <2>3. moving = entities(scene)
    BY <1>15, <1>21, <2>2
  <2> HIDE DEF entities
  <2>4. QED BY <1>1, <1>5, <1>6, <1>9, <1>17, <1>19, <1>23, <1>25, <1>27, <2>3
<1>29. g \in Game
  <2>1. PICK none : none = <<>>
    OBVIOUS
  <2>2. none \in Seq(Impact)
    BY <2>1
  <2>3. 0 \in 0..MaxImpactId
    BY Bases
  <2>4. QED BY <1>2, <1>7, <1>8, <1>10, <1>11, <1>26, <1>28, <2>1, <2>2, <2>3, GameIntro
<1>30. AliveBots(g) = DOMAIN g.bots /\ AliveClients(g) = DOMAIN g.clients
  BY <1>7, <1>10, <1>28 DEF AliveBots, AliveClients
<1>31. Len(g.impacts) = 0 /\ Ids(g.impacts) = {} /\ Distinct(g.impacts)
  BY <1>28 DEF Distinct, Ids, Range
<1>32. ASSUME IdsFit(g) PROVE Shown(g)
  <2>1. RosterOf(g) = Roster(B, E, K, {}, {})
    BY <1>7, <1>8, <1>10, <1>14, <1>28, <1>30, <1>31 DEF RosterOf
  <2>2. DOMAIN g.world = RosterOf(g)
    BY <1>13, <1>16, <1>18, <1>20, <1>22, <1>24, <1>26, <1>28, <2>1
       DEF Roster, ImpactEntities, PlayerEntities
  <2>3. \A j \in K : CoverEntity(j) \in DOMAIN mended \ DOMAIN scores
    <3>1. CoverEntities(K) \subseteq CoverIds /\ ScoreEntities \subseteq ScoreIds
      BY <1>8, <1>28, <1>29, <1>32, InRange
    <3>2. QED BY <1>18, <1>20, <3>1, RangesDiffer DEF CoverEntities
  <2>4. ShowsCovers(g)
    BY <1>8, <1>18, <1>24, <1>26, <1>28, <2>3 DEF ShowsCovers
  <2>5. QED BY <1>31, <2>2, <2>4, MirroredIs DEF Shown
<1>33. Scored(g)
  <2>1. \A t \in Team : DeadOf(g, t) = 0 /\ 1 - t \in Team
    BY <1>30, NobodyDead DEF Team
  <2>2. QED BY <1>11, <1>28, <2>1, Parameters DEF Scored, IsRoundActive, Team, NoWinner
<1>34. Good(g)
  <2>1. IsFiniteSet(DOMAIN g.bots) /\ IsFiniteSet(DOMAIN g.clients)
    BY <1>7, <1>10, <1>28, FS_EmptySet
  <2>2. QED BY <1>29, <1>31, <1>32, <1>33, <2>1, Parameters DEF Good
<1>35. QED BY <1>10, <1>27, <1>28, <1>34, PeriodIs, DemoAssumption DEF DemoInit, DemoInv

\* What datagrams do to the game, and the mark of the peer
LEMMA MetKeeps ==
  ASSUME DemoInv, NEW c \in 1..MaxClients, From(c)
  PROVE  /\ Good(Met(c)) /\ DOMAIN Met(c).clients \subseteq DOMAIN game.clients \cup {c}
         /\ Met(c).covers = game.covers
         /\ nextClient' \in 1..MaxClients + 1
         /\ DOMAIN game.clients \cup {c} \subseteq 1..nextClient' - 1
<1>1. /\ nextClient \in 1..MaxClients + 1 /\ MaxClients \in Nat /\ c \in Nat \ {0} /\ Good(game)
      /\ DOMAIN game.clients \subseteq 1..nextClient - 1
  BY DemoAssumption DEF DemoInv
<1>2. PICK n : n = nextClient
  OBVIOUS
<1>3. PICK m : m = nextClient'
  OBVIOUS
<1>4. m = IF n >= c + 1 THEN n ELSE c + 1
  <2>1. m = Max({n, c + 1})
    BY <1>2, <1>3 DEF From
  <2>2. PICK after : after = c + 1
    OBVIOUS
  <2>3. n \in Int /\ after \in Int
    BY <1>1, <1>2, <2>2
  <2>4. Max({n, after}) = IF n >= after THEN n ELSE after
    BY <2>3, MaxOfTwo
  <2>5. QED BY <2>1, <2>2, <2>4
<1>5. nextClient' \in 1..MaxClients + 1 /\ DOMAIN game.clients \cup {c} \subseteq 1..nextClient' - 1
  <2>1. m \in 1..MaxClients + 1 /\ n <= m /\ c <= m - 1 /\ m \in Nat /\ n \in Nat
    BY <1>1, <1>2, <1>4
  <2>2. \A d \in 1..n - 1 : d \in 1..m - 1
    BY <2>1
  <2>3. c \in 1..m - 1
    BY <1>1, <2>1
  <2>4. QED BY <1>1, <1>2, <1>3, <2>1, <2>2, <2>3
<1>6. CASE c = nextClient
  <2>1. PICK g : g = game
    OBVIOUS
  <2>2. PICK h : h = ConnectDemoClient(g, c)
    OBVIOUS
  <2>3. Good(h) /\ DOMAIN h.clients = DOMAIN g.clients \cup {c} /\ h.covers = g.covers
    BY <1>1, <2>1, <2>2, ConnectKeeps
  <2>4. Met(c) = h
    BY <1>6, <2>1, <2>2 DEF Met
  <2>5. QED BY <1>5, <2>1, <2>3, <2>4
<1>7. CASE c # nextClient
  <2>1. Met(c) = game
    BY <1>7 DEF Met
  <2>2. QED BY <1>1, <1>5, <2>1
<1>8. QED BY <1>6, <1>7

\* What a datagram of c leaves, if it keeps the game it meets good and its cast.
LEMMA InboundInv ==
  ASSUME DemoInv, NEW c \in 1..MaxClients, From(c),
         Good(game'), DOMAIN game'.clients \subseteq DOMAIN game.clients \cup {c}
  PROVE  DemoInv'
BY MetKeeps DEF DemoInv, From, Period

LEMMA DemoNextInv ==
  DemoInv /\ [DemoNext]_vars => DemoInv'
<1> SUFFICES ASSUME DemoInv, [DemoNext]_vars PROVE DemoInv'
  OBVIOUS
<1>1. CASE Tick
  <2>1. PICK f : f = game
    OBVIOUS
  <2>2. PICK now : now = (clock + 1) % Period
    OBVIOUS
  <2>3. PICK g : g = MaybeResetRound(Aged(f))
    OBVIOUS
  <2>4. PICK events \in CombatEvents(g, now), blasts \in Blasts(g, now) :
          game' = UpdateImpacts(UpdateDestructibleWorld(Combat(g, events), blasts))
    BY <1>1, <2>1, <2>2, <2>3 DEF Tick
  <2>5. PICK h : h = game'
    OBVIOUS
  <2>6. Good(h) /\ SameCast(f, h)
    BY <2>1, <2>3, <2>4, <2>5, TickKeeps DEF DemoInv
  <2>7. clock' \in 0..Period - 1
    <3>1. clock \in Nat /\ clock' = (clock + 1) % Period
      BY <1>1, PeriodIs DEF Tick, DemoInv
    <3>2. QED BY <3>1, PeriodIs
  <2>8. nextClient' = nextClient
    BY <1>1 DEF Tick
  <2>9. Period' = Period
    BY DEF Period
  <2>10. QED BY <2>1, <2>5, <2>6, <2>7, <2>8, <2>9 DEF DemoInv, SameCast
<1>2. ASSUME NEW c \in 1..MaxClients, Inbound(c)
      PROVE  DemoInv'
  <2>1. From(c)
    BY <1>2 DEF Inbound, Garbled, OtherMessage, InputOfNobody, InputOfDead, MoveInput, FireInput
  <2>2. PICK f : f = game
    OBVIOUS
  <2>3. PICK g : g = Met(c)
    OBVIOUS
  <2>4. PICK h : h = game'
    OBVIOUS
  <2>5. Good(f) /\ Good(g) /\ DOMAIN g.clients \subseteq DOMAIN f.clients \cup {c} /\ g.covers = f.covers
    BY <2>1, <2>2, <2>3, MetKeeps DEF DemoInv
  <2>6. SUFFICES Good(h) /\ (SameCast(f, h) \/ SameCast(g, h))
    <3>1. DOMAIN h.clients \subseteq DOMAIN f.clients \cup {c}
      BY <2>5, <2>6 DEF SameCast
    <3>2. QED BY <2>1, <2>2, <2>4, <2>6, <3>1, InboundInv
  <2>7. CASE Garbled(c)
    BY <2>2, <2>4, <2>5, <2>7 DEF Garbled, SameCast
  <2>8. CASE OtherMessage(c)
    BY <2>3, <2>4, <2>5, <2>8 DEF OtherMessage, SameCast
  <2>9. CASE InputOfNobody(c)
    BY <2>3, <2>4, <2>5, <2>9 DEF InputOfNobody, SameCast
  <2>10. CASE InputOfDead(c)
    <3>1. c \in DOMAIN f.clients
      BY <2>2, <2>10 DEF InputOfDead
    <3>2. CASE h = f
      BY <2>5, <3>2 DEF SameCast
    <3>3. CASE h = RespawnClient(f, c)
      <4>1. Respawned(f, {c}, h)
        BY <2>5, <3>1, <3>3, RespawnedOne DEF Good
      <4>2. {c} \in SUBSET DOMAIN f.clients
        BY <3>1
      <4>3. Good(h) /\ SameCast(f, h)
        BY <2>5, <4>1, <4>2, RespawnedKeeps
      <4>4. QED BY <4>3
    <3>4. QED BY <2>2, <2>4, <2>10, <3>2, <3>3 DEF InputOfDead
  <2>11. CASE MoveInput(c)
    <3>1. c \in DOMAIN g.clients /\ h = SetPlayerPayload(g, c)
      BY <2>3, <2>4, <2>11 DEF MoveInput, AliveClients
    <3>2. QED BY <2>5, <3>1, SetPlayerPayloadKeeps
  <2>12. CASE FireInput(c)
    <3>1. PICK moved : moved = SetPlayerPayload(g, c)
      OBVIOUS
    <3>2. PICK fired : fired = Fired(moved, c)
      OBVIOUS
    <3>3. PICK team : team = TeamForClient(c)
      OBVIOUS
    <3>4. fired = [moved EXCEPT !.clients[c].cooldown = PlayerFireCooldownTicks]
      BY <3>2 DEF Fired
    <3>5. PICK hit \in SUBSET Enemies(fired, team), blast \in SUBSET DOMAIN game.covers :
            \E targets \in SetToSeqs(hit) :
              game' = SpawnImpact(DamageCovers(ApplyDamageEvents(fired,
                        [n \in DOMAIN targets |-> DamageEvent(team, targets[n], PlayerWeaponDamage)]),
                                               blast))
      BY <2>3, <2>12, <3>1, <3>3, <3>4 DEF FireInput
    <3>6. PICK targets \in SetToSeqs(hit) :
            game' = SpawnImpact(DamageCovers(ApplyDamageEvents(fired,
                      [n \in DOMAIN targets |-> DamageEvent(team, targets[n], PlayerWeaponDamage)]),
                                             blast))
      BY <3>5
    <3>7. c \in DOMAIN g.clients
      BY <2>3, <2>12 DEF FireInput, AliveClients
    <3>8. Good(moved) /\ SameCast(g, moved)
      BY <2>5, <3>1, <3>7, SetPlayerPayloadKeeps
    <3>9. Good(fired) /\ SameCast(moved, fired)
      BY <3>2, <3>7, <3>8, FiredKeeps DEF SameCast
    <3>10. team \in Team
      BY <3>3 DEF TeamForClient, Team
    <3>11. blast \in SUBSET DOMAIN fired.covers
      BY <2>2, <2>5, <3>8, <3>9 DEF SameCast
    <3>12. PICK events :
             events = [n \in DOMAIN targets |-> DamageEvent(team, targets[n], PlayerWeaponDamage)]
      OBVIOUS
    <3>13. h = SpawnImpact(DamageCovers(ApplyDamageEvents(fired, events), blast))
      BY <2>4, <3>6, <3>12
    <3>14. Good(h) /\ SameCast(fired, h)
      BY <3>9, <3>10, <3>11, <3>12, <3>13, ShotKeeps
    <3>15. QED BY <3>8, <3>9, <3>14, SameCastTrans
  <2>13. QED BY <1>2, <2>7, <2>8, <2>9, <2>10, <2>11, <2>12 DEF Inbound
<1>3. CASE UNCHANGED vars
  BY <1>3 DEF vars, DemoInv, Period
<1>4. QED BY <1>1, <1>2, <1>3 DEF DemoNext

LEMMA DemoInvariant ==
  DemoSpec => []DemoInv
<1>1. QED BY DemoInitInv, DemoNextInv, PTL DEF DemoSpec

\* Types; the dead alone wait, and only a decided round is to be reset.
THEOREM DemoTypeCorrect ==
  DemoSpec => []DemoTypeOK
BY DemoInvariant, InvImpliesTypes, PTL

\* As long as the ids fit their ranges, the runtime has the entities of the game and no
\* others, whatever ticks and datagrams, kills, respawns, rounds, covers and impacts there
\* are; what follows the last impact that fits is not claimed.
THEOREM WorldAlwaysMirrors ==
  DemoSpec => []WorldMirrorsGame
<1>1. DemoInv => WorldMirrorsGame
  BY DEF DemoInv, Good, Shown, WorldMirrorsGame
<1>2. QED BY <1>1, DemoInvariant, PTL

\* Whoever is dead while a round is on has been counted for the other team, and
\* a decided round has one winner, which alone has reached the limit.
THEOREM ScoresAlwaysAddUp ==
  DemoSpec => []ScoresAddUp
<1>1. DemoInv => ScoresAddUp
  BY DEF DemoInv, Good, ScoresAddUp
<1>2. QED BY <1>1, DemoInvariant, PTL

\* As long as the ids fit their ranges, what a tick leaves the runtime to send of
\* sessions, scores, covers and impacts is what they are after it.
THEOREM SentAlwaysCurrent ==
  DemoSpec => SentIsCurrent
<1>1. DemoInv /\ DemoInv' /\ [DemoNext]_vars
        => [clock' # clock /\ IdsFit(game')
              => /\ ShowsSessions(game') /\ ShowsScores(game')
                 /\ ShowsCovers(game') /\ ShowsImpacts(game')]_vars
  <2> SUFFICES ASSUME DemoInv, DemoInv', [DemoNext]_vars, clock' # clock, IdsFit(game')
               PROVE  /\ ShowsSessions(game') /\ ShowsScores(game')
                      /\ ShowsCovers(game') /\ ShowsImpacts(game')
    OBVIOUS
  <2>1. Tick
    BY DEF DemoNext, vars, Inbound, Garbled, OtherMessage, InputOfNobody, InputOfDead, MoveInput,
           FireInput, From
  <2>2. PICK f : f = game
    OBVIOUS
  <2>3. PICK now : now = (clock + 1) % Period
    OBVIOUS
  <2>4. PICK g : g = MaybeResetRound(Aged(f))
    OBVIOUS
  <2>5. PICK events \in CombatEvents(g, now), blasts \in Blasts(g, now) :
          game' = UpdateImpacts(UpdateDestructibleWorld(Combat(g, events), blasts))
    BY <2>1, <2>2, <2>3, <2>4 DEF Tick
  <2>6. PICK h : h = game'
    OBVIOUS
  <2>7. Good(h) /\ (IdsFit(h) => ShowsSessions(h) /\ ShowsScores(h) /\ ShowsImpacts(h))
    BY <2>2, <2>4, <2>5, <2>6, TickKeeps DEF DemoInv
  <2>8. QED BY <2>6, <2>7 DEF Good, Shown
<1>2. QED BY <1>1, DemoInvariant, PTL DEF DemoSpec, SentIsCurrent
===============================================================================
