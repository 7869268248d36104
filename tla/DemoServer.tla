------------------------------ MODULE DemoServer ------------------------------
(***************************************************************************)
(* The demo server's loop: datagrams of peers are handled as they come,    *)
(* and ticks run the deathmatch and then the runtime, which sends what it  *)
(* holds.  A peer stands for the ClientId it was given, in the order of    *)
(* the peers' first datagrams; a session begins with the first message.    *)
(***************************************************************************)
EXTENDS Deathmatch, FiniteSets

CONSTANTS
  Scenes,      \* the arguments: numbers of bots, effects and covers
  MaxClients   \* bound of the model on peers

ASSUME DemoAssumption ==
  /\ Scenes \subseteq [bots : Nat, effects : Nat, covers : Nat]
  /\ MaxClients \in Nat

VARIABLES
  clock,       \* tick_count, as far as intervals of ticks ask for it
  nextClient,  \* DemoUdpTransport::next_client
  game         \* the demo's state, and the entities the runtime has of it

vars == <<clock, nextClient, game>>

Period == BotFireIntervalTicks * CoverDamageIntervalTicks

DemoInit ==
  /\ clock = 0
  /\ nextClient = 1
  /\ \E scene \in Scenes :
       LET bots == [i \in 0..scene.bots - 1 |-> FullBot]
           covers == [k \in 0..scene.covers - 1 |-> CoverMaxHealth]
           entities == Spawn(BotPayloads([bots |-> bots], DOMAIN bots),
                             EffectPayloads(scene.effects))
       IN  game = [bots |-> bots, effects |-> scene.effects, clients |-> EmptyMap,
                   match |-> FirstMatch, covers |-> covers, impacts |-> <<>>, nextImpact |-> 0,
                   world |-> Spawn(Spawn(entities, CoverPayloads(covers)),
                                   ScorePayloads(FirstMatch))]

-------------------------------------------------------------------------------
(* Datagrams: of a peer that is known, or of the next one *)

ConnectDemoClient(g, c) ==
  IF c \in DOMAIN g.clients THEN g
  ELSE LET joined == [g EXCEPT !.clients =
                        Put(@, c, [health |-> PlayerMaxHealth, cooldown |-> 0, wait |-> 0])]
       IN  [joined EXCEPT !.world = Spawn(@, PlayerPayloads(joined, {c}))]

\* drain_client_messages: the peer is known from now on, whatever it sent
From(c) ==
  /\ c \in 1..Min({nextClient, MaxClients})
  /\ nextClient' = Max({nextClient, c + 1})
  /\ UNCHANGED clock

\* the game a decoded message of c meets: its first datagram connects it
Met(c) == IF c = nextClient THEN ConnectDemoClient(game, c) ELSE game

\* A datagram that does not decode.
Garbled(c) == From(c) /\ UNCHANGED game

\* An acknowledgement, which is the runtime's, or a payload that is no input.
OtherMessage(c) == From(c) /\ game' = Met(c)

InputOfNobody(c) ==
  /\ From(c)
  /\ c \notin DOMAIN Met(c).clients
  /\ game' = Met(c)

InputOfDead(c) ==
  /\ From(c)
  /\ c \in DOMAIN game.clients /\ ~Alive(game.clients[c])
  /\ game' = IF game.clients[c].wait = 0 THEN RespawnClient(game, c) ELSE game

MoveInput(c) ==
  /\ From(c)
  /\ c \in AliveClients(Met(c))
  /\ game' = SetPlayerPayload(Met(c), c)

CanFire(g, c) == IsRoundActive(g.match) /\ g.clients[c].cooldown = 0

\* bots by index, then sessions in any order
InOrderOfVisit(targets) ==
  \A m, n \in DOMAIN targets :
    m < n /\ targets[n][1] = "bot" => targets[m][1] = "bot" /\ targets[m][2] < targets[n][2]

\* Enemies in reach are hit; then covers are, and there is an impact in any case.
FireInput(c) ==
  LET g == SetPlayerPayload(Met(c), c)
      fired == [g EXCEPT !.clients[c].cooldown = PlayerFireCooldownTicks]
      team == TeamForClient(c)
  IN  /\ From(c)
      /\ c \in AliveClients(Met(c)) /\ CanFire(Met(c), c)
      /\ \E hit \in SUBSET Enemies(fired, team), blast \in SUBSET DOMAIN game.covers :
           \E targets \in SetToSeqs(hit) :
             LET events == [n \in DOMAIN targets |->
                              DamageEvent(team, targets[n], PlayerWeaponDamage)]
             IN  /\ InOrderOfVisit(targets)
                 /\ game' = SpawnImpact(DamageCovers(ApplyDamageEvents(fired, events), blast))

Inbound(c) ==
  \/ Garbled(c)
  \/ OtherMessage(c)
  \/ InputOfNobody(c)
  \/ InputOfDead(c)
  \/ MoveInput(c)
  \/ FireInput(c)

-------------------------------------------------------------------------------
(* Ticks *)

Sooner(n) == Max({n - 1, 0})

\* tick_count + 1: everything that waits is one tick closer
Aged(g) ==
  LET bots == [i \in DOMAIN g.bots |-> [g.bots[i] EXCEPT !.wait = Sooner(@)]]
      clients == [c \in DOMAIN g.clients |->
                    [g.clients[c] EXCEPT !.wait = Sooner(@), !.cooldown = Sooner(@)]]
      match == [g.match EXCEPT !.reset = Sooner(@)]
      impacts == [n \in DOMAIN g.impacts |-> [g.impacts[n] EXCEPT !.left = Sooner(@)]]
  IN  [g EXCEPT !.bots = bots, !.clients = clients, !.match = match, !.impacts = impacts]

\* bots that the loop over the entities finds dead and brings back
Returning(g) ==
  {i \in DOMAIN g.bots : ~Alive(g.bots[i]) /\ g.bots[i].wait = 0 /\ IsRoundActive(g.match)}

\* update_demo_entities: payloads are written before this tick's damage, those of the
\* effects after those of the bots
UpdateDemoEntities(g) ==
  LET bots == [i \in DOMAIN g.bots |-> IF i \in Returning(g) THEN FullBot ELSE g.bots[i]]
      back == [g EXCEPT !.bots = bots]
  IN  [back EXCEPT !.world =
         SetPayloads(SetPayloads(Spawn(@, BotPayloads(back, Returning(g))),
                                 BotPayloads(back, AliveBots(g))),
                     EffectPayloads(g.effects))]

Shooters(g, now) ==
  IF IsRoundActive(g.match) /\ AliveClients(g) # {}
    THEN {i \in AliveBots(g) : now % BotFireIntervalTicks = i % BotFireIntervalTicks}
    ELSE {}

Nobody == <<"nobody", 0>>

\* who bot i may find nearest: a bot that returns in this tick is there for those
\* after it
Targets(g, i) ==
  Enemies(g, BotTeam(i))
    \cup {BotTarget(j) : j \in {j \in Returning(g) : j < i /\ BotTeam(j) # BotTeam(i)}}
    \cup {Nobody}

\* whom each bot that shoots aims at, and the order in which those with a target fire
Aims(g, S) ==
  {aim \in [S -> UNION {Targets(g, i) : i \in S}] : \A i \in S : aim[i] \in Targets(g, i)}

FiringOrders(aim) ==
  {order \in SetToSeqs({i \in DOMAIN aim : aim[i] # Nobody}) :
     \A m, n \in DOMAIN order : m < n => order[m] < order[n]}

CombatEvents(g, now) ==
  UNION {{[n \in DOMAIN order |-> DamageEvent(BotTeam(order[n]), aim[order[n]], BotWeaponDamage)] :
            order \in FiringOrders(aim)} : aim \in Aims(g, Shooters(g, now))}

\* Mutant: only an input of its own brings a session back.
UpdateClientPayloadsOnly(g) ==
  [g EXCEPT !.world = SetPayloads(@, PlayerPayloads(g, DOMAIN g.clients))]

UpdateClientPayloads(g) ==
  LET returning == {c \in DOMAIN g.clients : /\ IsRoundActive(g.match)
                                             /\ ~Alive(g.clients[c]) /\ g.clients[c].wait = 0}
      back == RespawnClients(g, returning)
  IN  [back EXCEPT !.world = SetPayloads(@, PlayerPayloads(back, DOMAIN back.clients))]

\* Mutant: sessions are written before the bots' damage.
UpdateBeforeDamage(g, events) ==
  UpdateScoreEntities(ApplyDamageEvents(UpdateClientPayloads(UpdateDemoEntities(g)), events))

\* the combat of a tick, then everything that shows it
Combat(g, events) ==
  UpdateScoreEntities(UpdateClientPayloads(ApplyDamageEvents(UpdateDemoEntities(g), events)))

\* what the effects that are due in a tick, and find covers, have in reach
Blasts(g, now) ==
  IF now % CoverDamageIntervalTicks = 0
    THEN SeqOf((SUBSET DOMAIN g.covers) \ {{}}, g.effects)
    ELSE {<<>>}

Tick ==
  LET now == (clock + 1) % Period
      g == MaybeResetRound(Aged(game))
  IN  /\ clock' = now
      /\ \E events \in CombatEvents(g, now), blasts \in Blasts(g, now) :
           game' = UpdateImpacts(UpdateDestructibleWorld(Combat(g, events), blasts))
      /\ UNCHANGED nextClient

DemoNext == Tick \/ \E c \in 1..MaxClients : Inbound(c)

\* A tick is always possible and alone moves the clock: that the clock goes on is
\* fairness of ticks.  The loop ticks when one is due, between two drains of the socket.
Due == clock' = (clock + 1) % Period

DemoSpec == DemoInit /\ [][DemoNext]_vars /\ WF_clock(Due)

-------------------------------------------------------------------------------

Health(max, ticks) == {who \in [health : 0..max, wait : 0..ticks] : who.health > 0 => who.wait = 0}

\* Types; also, only the dead wait, and only a decided round is to be reset.
DemoTypeOK ==
  /\ clock \in 0..Period - 1
  /\ nextClient \in 1..MaxClients + 1
  /\ game.bots \in [DOMAIN game.bots -> Health(BotMaxHealth, BotRespawnTicks)]
  /\ DOMAIN game.clients \subseteq 1..nextClient - 1
  /\ \A c \in DOMAIN game.clients :
       /\ game.clients[c].cooldown \in 0..PlayerFireCooldownTicks
       /\ [health |-> game.clients[c].health, wait |-> game.clients[c].wait]
            \in Health(PlayerMaxHealth, PlayerRespawnTicks)
  /\ game.match \in [scores : [Team -> 0..MatchScoreLimit], winner : Team \cup {NoWinner},
                     reset : 0..MatchResetTicks, round : 0..MaxRound]
  /\ game.match.reset > 0 => ~IsRoundActive(game.match)
  /\ game.covers \in [DOMAIN game.covers -> 0..CoverMaxHealth]
  /\ Len(game.impacts) <= MaxActiveImpacts
  /\ \A impact \in Range(game.impacts) : impact.left \in 0..ImpactLifetimeTicks
  /\ game.nextImpact \in 0..MaxImpactId

\* The ids given so far stay below the range of the next kind, and the next impact's
\* will: fewer bots, effects and covers than a range has ids, and no more than
\* ScoreBase - ImpactBase impacts since the start, which are 2,000,000.
IdsFit(g) ==
  /\ \A i \in DOMAIN g.bots : BotEntity(i) < EffectBase
  /\ EffectEntity(g.effects) <= CoverBase
  /\ \A k \in DOMAIN g.covers : CoverEntity(k) < ImpactBase
  /\ ImpactEntity(g.nextImpact) <= ScoreBase

\* the entities the runtime has are those of g
Mirrored(g) ==
  /\ DOMAIN g.world =
       {BotEntity(i) : i \in AliveBots(g)} \cup {EffectEntity(n) : n \in 0..g.effects - 1}
         \cup {CoverEntity(k) : k \in DOMAIN g.covers}
         \cup {ImpactEntity(impact.id) : impact \in Range(g.impacts)}
         \cup {ScoreEntity(t) : t \in Team} \cup {PlayerEntity(c) : c \in DOMAIN g.clients}
  /\ \A m, n \in DOMAIN g.impacts : g.impacts[m].id = g.impacts[n].id => m = n

(* As long as the ids of every kind fit its range, the runtime has exactly    *)
(* the entities of the game: of the bots those that are alive, of the impacts *)
(* those that are queued, none twice.  They are spawned and despawned by      *)
(* hand, in eight places.  Nothing in the code ends a range: the impact after *)
(* the last that fits has the id of a scoreboard, replaces it, and takes it   *)
(* along when it expires.                                                     *)
WorldMirrorsGame == IdsFit(game) => Mirrored(game)

DeadOf(g, team) ==
  Cardinality({i \in DOMAIN g.bots \ AliveBots(g) : BotTeam(i) = team})
    + Cardinality({c \in DOMAIN g.clients \ AliveClients(g) : TeamForClient(c) = team})

\* points and winner of g, and its dead
Scored(g) ==
  \A t \in Team :
    /\ IsRoundActive(g.match) => DeadOf(g, 1 - t) <= g.match.scores[t]
    /\ g.match.scores[t] <= MatchScoreLimit
    /\ g.match.winner = t <=> g.match.scores[t] = MatchScoreLimit

(* Whoever is dead while a round is on was killed in it, and the other team   *)
(* has the point; a round has one winner, the first to reach the limit, and   *)
(* nothing counts after that, also where it ends in the middle of the damage  *)
(* events of a tick or of a shot.                                             *)
ScoresAddUp == Scored(game)

\* payloads of the runtime are what g has
ShowsSessions(g) ==
  \A c \in DOMAIN g.clients :
    g.world[PlayerEntity(c)] = PlayerPayloads(g, {c})[PlayerEntity(c)]
ShowsScores(g) == \A t \in Team : g.world[ScoreEntity(t)] = PackedScores(g.match)
ShowsCovers(g) == \A k \in DOMAIN g.covers : g.world[CoverEntity(k)] = g.covers[k]
ShowsImpacts(g) ==
  \A impact \in Range(g.impacts) : g.world[ImpactEntity(impact.id)] = impact.left

(* What the runtime sends at the end of a tick of sessions, scores, covers    *)
(* and impacts is what they are then, though a tick writes some of it before  *)
(* and some of it after what changes it; again as long as the ids fit, since  *)
(* scores are only ever rewritten where they exist.  (Bots are written before *)
(* the damage of the tick: those that are hit are shown as they were.)        *)
SentIsCurrent ==
  [][clock' # clock /\ IdsFit(game')
       => /\ ShowsSessions(game') /\ ShowsScores(game')
          /\ ShowsCovers(game') /\ ShowsImpacts(game')]_vars

Overdue(who) == ~Alive(who) /\ who.wait = 0

(* Whoever may respawn does, if only to be killed again in the same tick: a   *)
(* respawn needs an active round, a decided round waits for its reset, and    *)
(* the reset brings everybody back, whatever peers send meanwhile.            *)
EveryoneComesBack ==
  /\ \A i \in UNION {0..scene.bots - 1 : scene \in Scenes} :
       (i \in DOMAIN game.bots /\ Overdue(game.bots[i]))
         ~> (i \in DOMAIN game.bots /\ ~Overdue(game.bots[i]))
  /\ \A c \in 1..MaxClients :
       (c \in DOMAIN game.clients /\ Overdue(game.clients[c]))
         ~> (c \in DOMAIN game.clients /\ ~Overdue(game.clients[c]))
===============================================================================
