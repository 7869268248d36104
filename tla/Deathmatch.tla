------------------------------ MODULE Deathmatch ------------------------------
(***************************************************************************)
(* The rules of the demo server's deathmatch, as operators on the game:    *)
(* what its bots, sessions, match, covers and impacts are, and `world`,    *)
(* the payloads the runtime was given for the entities that stand for      *)
(* them.  The two are kept in step by hand, call by call.                  *)
(*                                                                         *)
(* Ticks the code stores (of a respawn, of the next shot, of an expiry)    *)
(* are kept as the number of ticks until then.  Positions are left out:    *)
(* who is within reach of a shot or of a blast is any set.  Health is in   *)
(* small units, and a cover loses one of them with each blast it is in.    *)
(* Entity ids are the code's: numbers, in ranges that the constants only   *)
(* begin and nothing ends.                                                 *)
(***************************************************************************)
EXTENDS Integers, SequencesExt, Maps

CONSTANTS
  BotMaxHealth, PlayerMaxHealth, CoverMaxHealth,
  BotWeaponDamage, PlayerWeaponDamage,
  BotRespawnTicks, PlayerRespawnTicks, PlayerFireCooldownTicks,
  BotFireIntervalTicks,      \* even, as in the code: who fires together is of one team
  CoverDamageIntervalTicks,
  ImpactLifetimeTicks, MaxActiveImpacts,
  MatchScoreLimit, MatchResetTicks,
  MaxRound,                  \* the largest round payloads can tell apart
  BotBase, EffectBase, CoverBase, ImpactBase, ScoreBase, PlayerBase,
  MaxImpactId                \* where the counter of impacts saturates: u64::MAX

ASSUME DeathmatchAssumption ==
  /\ {BotMaxHealth, PlayerMaxHealth, CoverMaxHealth, BotWeaponDamage, PlayerWeaponDamage,
      BotRespawnTicks, PlayerRespawnTicks, PlayerFireCooldownTicks, BotFireIntervalTicks,
      CoverDamageIntervalTicks, ImpactLifetimeTicks, MaxActiveImpacts, MatchScoreLimit,
      MatchResetTicks, MaxRound} \subseteq Nat \ {0}
  /\ {BotBase, EffectBase, CoverBase, ImpactBase, ScoreBase, PlayerBase, MaxImpactId}
       \subseteq Nat
  /\ EffectBase <= CoverBase /\ CoverBase <= ImpactBase /\ ImpactBase <= ScoreBase
  /\ ScoreBase < PlayerBase
  /\ ScoreBase - ImpactBase < MaxImpactId
  /\ BotFireIntervalTicks % 2 = 0

Team == {0, 1}    \* TEAM_RED, TEAM_BLUE
NoWinner == 2

BotTeam(i) == i % 2
TeamForClient(c) == (c - 1) % 2

\* EntityIds: base + index, of the sessions base + client
BotEntity(i) == BotBase + i
EffectEntity(n) == EffectBase + n
CoverEntity(k) == CoverBase + k
ImpactEntity(n) == ImpactBase + n
ScoreEntity(t) == ScoreBase + t
PlayerEntity(c) == PlayerBase + c

\* the runtime's entities: spawned or replaced, rewritten where they exist, despawned
Spawn(world, payloads) ==
  [e \in DOMAIN world \cup DOMAIN payloads |->
     IF e \in DOMAIN payloads THEN payloads[e] ELSE world[e]]
SetPayloads(world, payloads) ==
  [e \in DOMAIN world |-> IF e \in DOMAIN payloads THEN payloads[e] ELSE world[e]]
Despawn(world, entities) == Drop(world, entities)

-------------------------------------------------------------------------------
(* Who is alive, and what is sent of whom *)

Alive(who) == who.health > 0
IsRoundActive(match) == match.winner = NoWinner
AliveBots(game) == {i \in DOMAIN game.bots : Alive(game.bots[i])}
AliveClients(game) == {c \in DOMAIN game.clients : Alive(game.clients[c])}

PackedScores(match) == <<match.scores, match.winner, match.round>>

\* payloads of the bots i \in S, of the sessions c \in S, and of all of the others; that
\* of an effect says where it is, and is left out
BotPayloads(game, S) ==
  [e \in {BotEntity(i) : i \in S} |-> game.bots[e - BotBase].health]
EffectPayloads(effects) == [e \in {EffectEntity(n) : n \in 0..effects - 1} |-> 0]
PlayerPayloads(game, S) ==
  [e \in {PlayerEntity(c) : c \in S} |->
     [health |-> game.clients[e - PlayerBase].health, style |-> PackedScores(game.match)]]
ScorePayloads(match) == [e \in {ScoreEntity(t) : t \in Team} |-> PackedScores(match)]
CoverPayloads(covers) ==
  [e \in {CoverEntity(k) : k \in DOMAIN covers} |-> covers[e - CoverBase]]
ImpactPayloads(impacts) ==
  [e \in {ImpactEntity(impact.id) : impact \in Range(impacts)} |->
     (CHOOSE impact \in Range(impacts) : impact.id = e - ImpactBase).left]

SetPlayerPayload(game, c) ==
  [game EXCEPT !.world = SetPayloads(@, PlayerPayloads(game, {c}))]

UpdateScoreEntities(game) ==
  [game EXCEPT !.world = SetPayloads(@, ScorePayloads(game.match))]

-------------------------------------------------------------------------------
(* The match *)

FirstMatch == [scores |-> [t \in Team |-> 0], winner |-> NoWinner, reset |-> 0, round |-> 0]

\* Mutant: points are still counted once the round is decided.
AddScoreAlways(match, team) ==
  LET score == match.scores[team] + 1
      won == score >= MatchScoreLimit
  IN  [match EXCEPT !.scores[team] = score,
                    !.winner = IF won THEN team ELSE @,
                    !.reset = IF won THEN MatchResetTicks ELSE @]

AddScore(match, team) ==
  LET score == match.scores[team] + 1
      won == score >= MatchScoreLimit
  IN  IF ~IsRoundActive(match) THEN match
      ELSE [match EXCEPT !.scores[team] = score,
                         !.winner = IF won THEN team ELSE @,
                         !.reset = IF won THEN MatchResetTicks ELSE @]

ResetRound(match) == [FirstMatch EXCEPT !.round = Min({match.round + 1, MaxRound})]

FullBot == [health |-> BotMaxHealth, wait |-> 0]

RespawnClient(game, c) ==
  LET back == [game.clients[c] EXCEPT !.health = PlayerMaxHealth, !.wait = 0]
  IN  SetPlayerPayload([game EXCEPT !.clients[c] = back], c)

RespawnClients(game, S) == FoldSet(LAMBDA c, g : RespawnClient(g, c), game, S)

\* maybe_reset_round: everything is whole again, and every entity says so
MaybeResetRound(game) ==
  IF IsRoundActive(game.match) \/ game.match.reset > 0 THEN game
  ELSE LET fresh == [game EXCEPT !.match = ResetRound(@),
                                 !.bots = [i \in DOMAIN @ |-> FullBot],
                                 !.covers = [k \in DOMAIN @ |-> CoverMaxHealth]]
           world == SetPayloads(Spawn(game.world, BotPayloads(fresh, DOMAIN fresh.bots)),
                                CoverPayloads(fresh.covers))
       IN  UpdateScoreEntities(
             RespawnClients([fresh EXCEPT !.world = world], DOMAIN fresh.clients))

-------------------------------------------------------------------------------
(* Damage.  An event names the team that shot, who is hit, and how hard. *)

\* CombatTarget: bots by index, sessions by ClientId
BotTarget(i) == <<"bot", i>>
ClientTarget(c) == <<"client", c>>

DamageEvent(team, target, damage) == [team |-> team, target |-> target, damage |-> damage]

DamageBot(game, i, event) ==
  LET health == Max({game.bots[i].health - event.damage, 0})
  IN  IF ~Alive(game.bots[i]) \/ BotTeam(i) = event.team THEN game
      ELSE IF health > 0 THEN [game EXCEPT !.bots[i].health = health]
      ELSE [game EXCEPT !.bots[i] = [health |-> 0, wait |-> BotRespawnTicks],
                        !.world = Despawn(@, {BotEntity(i)}),
                        !.match = AddScore(@, event.team)]

DamageClient(game, c, event) ==
  LET client == game.clients[c]
      health == Max({client.health - event.damage, 0})
      hurt == [client EXCEPT !.health = health]
      dead == [client EXCEPT !.health = health, !.wait = PlayerRespawnTicks]
  IN  IF ~Alive(client) \/ TeamForClient(c) = event.team THEN game
      ELSE SetPlayerPayload(
             IF health > 0 THEN [game EXCEPT !.clients[c] = hurt]
             ELSE [game EXCEPT !.clients[c] = dead, !.match = AddScore(@, event.team)], c)

Damage(game, event) ==
  IF event.target[1] = "bot" THEN DamageBot(game, event.target[2], event)
                             ELSE DamageClient(game, event.target[2], event)

\* one by one, each seeing what the earlier ones left
ApplyDamageEvents(game, events) == FoldLeft(Damage, game, events)

Enemies(game, team) ==
  {BotTarget(i) : i \in {i \in AliveBots(game) : BotTeam(i) # team}}
    \cup {ClientTarget(c) : c \in {c \in AliveClients(game) : TeamForClient(c) # team}}

-------------------------------------------------------------------------------
(* Covers and impacts *)

\* Mutant: what is over the cap is forgotten, but not despawned.
ForgetOldest(game) ==
  IF Len(game.impacts) < MaxActiveImpacts THEN game ELSE [game EXCEPT !.impacts = Tail(@)]

\* spawn_impact's loop; the queue is never longer than the cap, so once is enough
DropOldest(game) ==
  IF Len(game.impacts) < MaxActiveImpacts THEN game
  ELSE [game EXCEPT !.impacts = Tail(@),
                    !.world = Despawn(@, {ImpactEntity(Head(game.impacts).id)})]

\* next_impact_id only grows
SpawnImpact(game) ==
  LET room == DropOldest(game)
      impact == [id |-> game.nextImpact, left |-> ImpactLifetimeTicks]
  IN  [room EXCEPT !.impacts = Append(@, impact),
                   !.nextImpact = Min({@ + 1, MaxImpactId}),
                   !.world = Spawn(@, ImpactPayloads(<<impact>>))]

Standing(game, blast) == {k \in blast : game.covers[k] > 0}

DamageCovers(game, blast) ==
  LET hit == Standing(game, blast)
      covers == [k \in DOMAIN game.covers |-> IF k \in hit THEN game.covers[k] - 1
                                                           ELSE game.covers[k]]
  IN  [game EXCEPT !.covers = covers,
                   !.world = SetPayloads(@, CoverPayloads(Restrict(covers, hit)))]

\* one emitter of update_destructible_world: an impact only where something was hit
EmitterBlast(game, blast) ==
  IF Standing(game, blast) = {} THEN game ELSE SpawnImpact(DamageCovers(game, blast))

UpdateDestructibleWorld(game, blasts) == FoldLeft(EmitterBlast, game, blasts)

Keep(active, impact) == IF impact.left > 0 THEN Append(active, impact) ELSE active

UpdateImpacts(game) ==
  LET active == FoldLeft(Keep, <<>>, game.impacts)
      expired == {ImpactEntity(impact.id) : impact \in Range(game.impacts) \ Range(active)}
  IN  [game EXCEPT !.impacts = active,
                   !.world = SetPayloads(Despawn(@, expired), ImpactPayloads(active))]
===============================================================================
