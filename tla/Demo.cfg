SPECIFICATION DemoSpec
CONSTANTS
  Scenes <- MCScenes
  MaxClients = 2
  BotMaxHealth = 1
  PlayerMaxHealth = 2
  CoverMaxHealth = 2
  BotWeaponDamage = 1
  PlayerWeaponDamage = 2
  BotRespawnTicks = 2
  PlayerRespawnTicks = 1
  PlayerFireCooldownTicks = 1
  BotFireIntervalTicks = 2
  CoverDamageIntervalTicks = 1
  ImpactLifetimeTicks = 2
  MaxActiveImpacts = 2
  MatchScoreLimit = 2
  MatchResetTicks = 3
  MaxRound = 1
  BotBase = 1
  EffectBase = 10
  CoverBase = 20
  ImpactBase = 30
  ScoreBase = 33
  PlayerBase = 40
  MaxImpactId = 4
INVARIANTS
  DemoTypeOK
  WorldMirrorsGame
  ScoresAddUp
PROPERTIES
  SentIsCurrent
  EveryoneComesBack
