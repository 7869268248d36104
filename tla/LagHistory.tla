------------------------------ MODULE LagHistory ------------------------------
(***************************************************************************)
(* gridwake-server's lag-compensation history: every tick appends each     *)
(* entity's position to a bounded queue of the entity, which despawning    *)
(* throws away, and hits are validated against positions looked up in it.  *)
(* Positions of the entities themselves are those of ServerRuntime.      *)
(***************************************************************************)
EXTENDS CoreIds, Sequences, Maps

CONSTANTS
  Position,           \* where entities can be
  LagHistoryTicks,    \* ServerConfig::lag_history_ticks
  MaxTick             \* bound of the model on ticks

ASSUME LagAssumption ==
  /\ Position \subseteq Int
  /\ LagHistoryTicks \in Nat
  /\ MaxTick \in Nat

VARIABLES
  tick,         \* ServerRuntime::tick
  places,       \* positions of the spawned entities, ServerRuntime::entities
  lag_history,  \* per entity, its samples, oldest first
  track         \* history: per spawned entity, its position at every tick of its life

lagVars == <<tick, places, lag_history, track>>

LagSample == [tick : Nat, position : Position]

LagTypeOK ==
  /\ tick \in 0..MaxTick
  /\ \E S \in SUBSET Entity : places \in [S -> Position]
  /\ \E S \in SUBSET Entity : lag_history \in [S -> Seq(LagSample)]
  /\ track \in [DOMAIN places -> UNION {[T -> Position] : T \in SUBSET (1..MaxTick)}]

LagInit ==
  /\ tick = 0
  /\ places = EmptyMap
  /\ lag_history = EmptyMap
  /\ track = EmptyMap

-------------------------------------------------------------------------------
\* Spawning an entity that is there already keeps its samples.
SpawnEntity(e, p) ==
  /\ places' = [d \in DOMAIN places \cup {e} |-> IF d = e THEN p ELSE places[d]]
  /\ track' = [d \in DOMAIN places \cup {e} |->
                 IF d \in DOMAIN places THEN track[d] ELSE EmptyMap]
  /\ UNCHANGED <<tick, lag_history>>

MoveEntity(e, p) ==
  /\ e \in DOMAIN places
  /\ places' = [places EXCEPT ![e] = p]
  /\ UNCHANGED <<tick, lag_history, track>>

\* Mutant: the samples of a despawned entity stay.
DespawnEntityKeepsSamples(e) ==
  /\ places' = Restrict(places, DOMAIN places \ {e})
  /\ track' = Restrict(track, DOMAIN places \ {e})
  /\ UNCHANGED <<tick, lag_history>>

DespawnEntity(e) ==
  /\ places' = Restrict(places, DOMAIN places \ {e})
  /\ track' = Restrict(track, DOMAIN places \ {e})
  /\ lag_history' = Restrict(lag_history, DOMAIN lag_history \ {e})
  /\ UNCHANGED tick

Samples(e) == IF e \in DOMAIN lag_history THEN lag_history[e] ELSE <<>>

\* pop_front until no more than the configured number are left
Bounded(samples) ==
  SubSeq(samples, IF Len(samples) > LagHistoryTicks THEN Len(samples) - LagHistoryTicks + 1 ELSE 1,
         Len(samples))

\* Mutant: an entity that stayed where it is gets no sample.
RecordedIfMoved(e, t) ==
  LET samples == Samples(e)
  IN  IF samples # <<>> /\ samples[Len(samples)].position = places[e] THEN samples
      ELSE Bounded(Append(samples, [tick |-> t, position |-> places[e]]))

\* record_lag_history, for one entity
Recorded(e, t) == Bounded(Append(Samples(e), [tick |-> t, position |-> places[e]]))

\* advance_tick, as far as record_lag_history goes
AdvanceTick ==
  /\ tick < MaxTick
  /\ tick' = tick + 1
  /\ lag_history' =
       [e \in DOMAIN lag_history \cup DOMAIN places |->
          IF e \in DOMAIN places THEN Recorded(e, tick + 1) ELSE lag_history[e]]
  /\ track' = [e \in DOMAIN places |->
                 [t \in DOMAIN track[e] \cup {tick + 1} |->
                    IF t = tick + 1 THEN places[e] ELSE track[e][t]]]
  /\ UNCHANGED places

LagNext ==
  \/ \E e \in Entity, p \in Position : SpawnEntity(e, p) \/ MoveEntity(e, p)
  \/ \E e \in Entity : DespawnEntity(e)
  \/ AdvanceTick

LagSpec == LagInit /\ [][LagNext]_lagVars

-------------------------------------------------------------------------------
(* Lookups.  A lookup answers with a set, empty if there is no answer. *)

\* rewind_entity_position: the first sample of the tick
Rewind(e, t) ==
  LET found == {i \in DOMAIN Samples(e) : Samples(e)[i].tick = t}
  IN  {Samples(e)[i].position : i \in {i \in found : \A j \in found : i <= j}}

\* rewind_entity_position_interpolated strictly between t and t + 1: both ends, the
\* weight of each left to the arithmetic.  With sub_tick 0 its answer is that of Rewind.
RewindInterpolated(e, t) == Rewind(e, t) \X Rewind(e, t + 1)

(* The history neither lies nor forgets early: a spawned entity is found at   *)
(* each of its last LagHistoryTicks ticks of life, where it was then, and at  *)
(* no other tick; an entity that is gone, or was there in an earlier life,    *)
(* is not found.                                                              *)
RewindIsTruth ==
  \A e \in Entity, t \in 1..MaxTick :
    Rewind(e, t) =
      IF e \in DOMAIN places /\ t \in DOMAIN track[e] /\ t > tick - LagHistoryTicks
        THEN {track[e][t]} ELSE {}

(* Between any two ticks that can be looked up there is no gap: an            *)
(* interpolated lookup only fails at the newest sample or where an exact one  *)
(* fails as well.                                                             *)
NoGaps ==
  \A e \in Entity, t \in 1..MaxTick :
    RewindInterpolated(e, t) = {} => Rewind(e, t) = {} \/ t = tick
===============================================================================
