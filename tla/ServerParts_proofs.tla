-------------------------- MODULE ServerParts_proofs --------------------------
(***************************************************************************)
(* Proofs about the parts of the server that share no state, each for      *)
(* every value of its constants: the distance policy, the scheduler, the   *)
(* history of positions, the routing of events and the grid.               *)
(***************************************************************************)
EXTENDS ServerParts, Folds_proofs

-------------------------------------------------------------------------------
(* The distance policy, for every pair of bands, crossed ones included *)

(* The recorded change is one the policy makes: from its tier, at its        *)
(* distance and under the present cap, the policy yields the tier now sent.  *)
ChangeExplained ==
  change.from # NoLod =>
    /\ change.from \in Lod
    /\ change.to = lastLod
    /\ change.to # change.from
    /\ change.to = DesiredLod(cap, change.at, change.from)

(* What SMT needs to compute with the policy. *)
LEMMA DesiredLodType ==
  ASSUME NEW c \in Lod, NEW d \in 0..InterestRadius, NEW p \in SentLod
  PROVE  DesiredLod(c, d, p) \in Lod
<1>1. PolicyLod(d, p) \in Lod
  BY NetworkLodAssumption
  DEF PolicyLod, LodAfterFull, LodAfterReduced, LodAfterMinimal,
      ClassifyNetworkLod, Lod, SentLod, NoLod
<1>2. QED BY <1>1 DEF DesiredLod, CapNetworkLod

(* A tier sent at a distance is the tier desired again at that distance:     *)
(* hysteresis and the entity's cap leave no cycle of re-sends.               *)
THEOREM DesiredLodSettles ==
  ASSUME NEW c \in Lod, NEW d \in 0..InterestRadius, NEW p \in SentLod
  PROVE  LET sent == DesiredLod(c, d, p)
         IN  DesiredLod(c, d, sent) = sent
BY NetworkLodAssumption, SMTT(60)
DEF DesiredLod, CapNetworkLod, PolicyLod, LodAfterFull, LodAfterReduced,
    LodAfterMinimal, ClassifyNetworkLod, Threshold, ReducedBand, MinimalBand,
    DetailRank, Lod, SentLod, NoLod

(* If the policy goes from tier p to tier q at distance a and back from q to *)
(* p at distance d, then a and d are more than the hysteresis apart.         *)
LEMMA UndoingTravelsHysteresis ==
  ASSUME NEW c \in Lod, NEW p \in Lod, NEW q \in Lod, p # q,
         NEW a \in 0..InterestRadius, NEW d \in 0..InterestRadius,
         DesiredLod(c, a, p) = q, DesiredLod(c, d, q) = p
  PROVE  d - a > Hysteresis \/ a - d > Hysteresis
BY NetworkLodAssumption, SMTT(60)
DEF DesiredLod, CapNetworkLod, PolicyLod, LodAfterFull, LodAfterReduced,
    LodAfterMinimal, ClassifyNetworkLod, Threshold, ReducedBand, MinimalBand,
    DetailRank, Lod

LEMMA LodTypeInductive == LodTypeOK /\ [LodNext]_lodVars => LodTypeOK'
<1> SUFFICES ASSUME LodTypeOK, [LodNext]_lodVars PROVE LodTypeOK'
  OBVIOUS
<1>1. CASE Move
  BY <1>1 DEF LodTypeOK, Move
<1>2. CASE SetEntityLod
  BY <1>2, NetworkLodAssumption DEF LodTypeOK, SetEntityLod, NoChange, SentLod
<1>3. CASE Exit
  BY <1>3, NetworkLodAssumption DEF LodTypeOK, Exit, NoChange, SentLod
<1>4. CASE Select
  <2>1. lastLod' \in Lod
    BY <1>4, DesiredLodType DEF LodTypeOK, Select
  <2>2. QED BY <1>4, <2>1 DEF LodTypeOK, Select, SentLod
<1>5. CASE UNCHANGED lodVars
  BY <1>5 DEF LodTypeOK, lodVars
<1>6. QED BY <1>1, <1>2, <1>3, <1>4, <1>5 DEF LodNext

LEMMA LodStarts == LodInit => LodTypeOK
BY NetworkLodAssumption DEF LodInit, LodTypeOK, NoChange, SentLod

(* Every reachable state is well typed. *)
THEOREM LodTypeCorrect == LodSpec => []LodTypeOK
BY LodStarts, LodTypeInductive, PTL DEF LodSpec

LEMMA ChangeExplainedInductive ==
  LodTypeOK /\ ChangeExplained /\ [LodNext]_lodVars => ChangeExplained'
<1> SUFFICES ASSUME LodTypeOK, ChangeExplained, [LodNext]_lodVars PROVE ChangeExplained'
  OBVIOUS
<1>1. CASE Move
  BY <1>1 DEF ChangeExplained, Move
<1>2. CASE SetEntityLod
  BY <1>2 DEF ChangeExplained, SetEntityLod, NoChange
<1>3. CASE Exit
  BY <1>3 DEF ChangeExplained, Exit, NoChange
<1>4. CASE Select
  <2>1. CASE lastLod = NoLod
    <3>1. change.from = NoLod
      BY <2>1, DesiredLodType DEF ChangeExplained, LodTypeOK, SentLod, Lod, NoLod
    <3>2. QED BY <1>4, <2>1, <3>1 DEF ChangeExplained, Select
  <2>2. CASE lastLod # NoLod /\ lastLod' = lastLod
    BY <1>4, <2>2 DEF ChangeExplained, Select
  <2>3. CASE lastLod # NoLod /\ lastLod' # lastLod
    <3>1. change' = [from |-> lastLod, to |-> lastLod', at |-> distance]
      BY <1>4, <2>3 DEF Select
    <3>2. lastLod \in Lod
      BY <2>3 DEF LodTypeOK, SentLod
    <3>3. lastLod' = DesiredLod(cap, distance, lastLod) /\ cap' = cap
      BY <1>4 DEF Select
    <3>4. QED BY <2>3, <3>1, <3>2, <3>3 DEF ChangeExplained
  <2>4. QED BY <2>1, <2>2, <2>3
<1>5. CASE UNCHANGED lodVars
  BY <1>5 DEF ChangeExplained, lodVars
<1>6. QED BY <1>1, <1>2, <1>3, <1>4, <1>5 DEF LodNext

(* With nothing moving the tier sent is the tier desired again, in every     *)
(* reachable state.                                                          *)
THEOREM Settled == LodSpec => []SettledAfterOneSend
<1>1. LodTypeOK => SettledAfterOneSend
  BY DesiredLodSettles DEF LodTypeOK, SettledAfterOneSend
<1>2. QED BY <1>1, LodTypeCorrect, PTL

LEMMA UndoStep ==
  LodTypeOK /\ ChangeExplained /\ [LodNext]_lodVars => UndoNeedsDistance
<1> SUFFICES ASSUME LodTypeOK, ChangeExplained, [LodNext]_lodVars,
                    change.from = lastLod', change.to = lastLod,
                    lastLod' # lastLod, lastLod' # NoLod
             PROVE  \/ distance - change.at > Hysteresis
                    \/ change.at - distance > Hysteresis
  BY DEF UndoNeedsDistance
<1>1. Select
  BY DEF LodNext, Move, SetEntityLod, Exit, lodVars
<1>2. lastLod' = DesiredLod(cap, distance, lastLod)
  BY <1>1 DEF Select
<1>3. lastLod = DesiredLod(cap, change.at, lastLod')
  BY DEF ChangeExplained
<1>4. lastLod' \in Lod /\ lastLod \in Lod
  BY <1>3, DesiredLodType DEF ChangeExplained, LodTypeOK
<1>5. cap \in Lod /\ distance \in 0..InterestRadius /\ change.at \in 0..InterestRadius
  BY DEF LodTypeOK
<1>6. QED BY <1>2, <1>3, <1>4, <1>5, UndoingTravelsHysteresis

(* An entity whose cap stays put never flaps: undoing a change of tier takes *)
(* a move of more than the hysteresis.                                       *)
THEOREM NoFlappingHolds == LodSpec => NoFlapping
<1>1. LodInit => ChangeExplained
  BY DEF LodInit, ChangeExplained, NoChange
<1>2. QED
  BY <1>1, LodTypeCorrect, ChangeExplainedInductive, UndoStep, PTL DEF LodSpec, NoFlapping

-------------------------------------------------------------------------------
(* The scheduler *)

LEMMA Division ==
  ASSUME NEW n \in Nat, NEW d \in Nat \ {0}
  PROVE  /\ n \div d \in Nat
         /\ (n \div d) * d <= n
         /\ n < (n \div d) * d + d
OBVIOUS

LEMMA DivisionBounds ==
  ASSUME NEW n \in Nat, NEW d \in Nat \ {0}, NEW q \in Nat, q * d <= n
  PROVE  /\ q <= n \div d
         /\ n < q * d + d => q = n \div d
OBVIOUS

\* What one step does with the time it is given
LEMMA StepTakes ==
  ASSUME NEW time \in Nat
  PROVE  /\ TicksDue(time) \in 0..MaxTicksPerStep
         /\ Remainder(time) \in Nat
         /\ time = Remainder(time) + TicksDue(time) * TickInterval
         /\ KeptAfter(time) \in Nat
         /\ KeptAfter(time) < TickInterval
         /\ KeptAfter(time) <= Remainder(time)
         /\ ~ Saturated(time) => KeptAfter(time) = Remainder(time)
<1> DEFINE q == time \div TickInterval
<1>1. q \in Nat /\ q * TickInterval <= time /\ time < q * TickInterval + TickInterval
  BY SchedulerAssumption, Division
<1>2. TicksDue(time) \in Nat /\ TicksDue(time) <= MaxTicksPerStep /\ TicksDue(time) <= q
  BY <1>1, SchedulerAssumption DEF TicksDue
<1>3. TicksDue(time) * TickInterval \in Nat /\ TicksDue(time) * TickInterval <= q * TickInterval
  BY <1>1, <1>2, SchedulerAssumption
<1>4. Remainder(time) \in Nat /\ time = Remainder(time) + TicksDue(time) * TickInterval
  <2> DEFINE run == TicksDue(time) * TickInterval
             most == q * TickInterval
  <2>1. run \in Nat /\ run <= most /\ most \in Nat /\ most <= time
    BY <1>1, <1>3, SchedulerAssumption
  <2> HIDE DEF run, most
  <2>2. time - run \in Nat /\ time = (time - run) + run
    BY <2>1
  <2>3. QED BY <2>2 DEF Remainder, run
<1>5. QED BY <1>2, <1>4, SchedulerAssumption DEF KeptAfter, Saturated

\* The time kept and the time run never exceed the time elapsed, and make it up
\* as long as none was dropped.
TimeAccounted ==
  /\ accumulated + ticks * TickInterval <= elapsed
  /\ ~ dropped => accumulated + ticks * TickInterval = elapsed

SchedulerInv == SchedulerTypeOK /\ NoBacklog /\ TimeAccounted

LEMMA AdvanceKeeps ==
  ASSUME SchedulerInv, NEW t \in StepTimes, Advance(t)
  PROVE  SchedulerInv'
<1> DEFINE time == accumulated + t
           due == TicksDue(time)
<1>1. /\ accumulated \in Nat /\ ticks \in Nat /\ elapsed \in 0..MaxElapsed /\ dropped \in BOOLEAN
      /\ t \in Nat /\ time \in Nat
  BY SchedulerAssumption DEF SchedulerInv, SchedulerTypeOK
<1>2. /\ due \in 0..MaxTicksPerStep
      /\ Remainder(time) \in Nat
      /\ time = Remainder(time) + due * TickInterval
      /\ KeptAfter(time) \in Nat
      /\ KeptAfter(time) < TickInterval
      /\ KeptAfter(time) <= Remainder(time)
      /\ ~ Saturated(time) => KeptAfter(time) = Remainder(time)
  BY <1>1, StepTakes
<1>3. /\ accumulated' = KeptAfter(time)
      /\ step' = [ticks_due |-> due, saturated |-> Saturated(time)]
      /\ ticks' = ticks + due
      /\ elapsed' = elapsed + t
      /\ dropped' = (dropped \/ Saturated(time))
      /\ elapsed + t <= MaxElapsed
  BY DEF Advance
<1>4. SchedulerTypeOK'
  BY <1>1, <1>2, <1>3, SchedulerAssumption DEF SchedulerTypeOK, Saturated
<1>5. NoBacklog'
  BY <1>2, <1>3 DEF NoBacklog
<1>6. TimeAccounted'
  <2>1. (ticks + due) * TickInterval = ticks * TickInterval + due * TickInterval
    BY <1>1, <1>2, SchedulerAssumption
  <2>2. ticks * TickInterval \in Nat /\ due * TickInterval \in Nat
    BY <1>1, <1>2, SchedulerAssumption
  <2> HIDE DEF due, time
  <2>3. /\ accumulated + ticks * TickInterval <= elapsed
        /\ ~ dropped => accumulated + ticks * TickInterval = elapsed
    BY DEF SchedulerInv, TimeAccounted
  <2>4. accumulated' + ticks' * TickInterval <= elapsed'
    BY <1>1, <1>2, <1>3, <2>1, <2>2, <2>3 DEF time
  <2>5. ASSUME ~ dropped' PROVE accumulated' + ticks' * TickInterval = elapsed'
    <3>1. ~ dropped /\ ~ Saturated(time)
      BY <1>3, <2>5
    <3>2. QED BY <1>1, <1>2, <1>3, <2>1, <2>2, <2>3, <3>1 DEF time
  <2>6. QED BY <2>4, <2>5 DEF TimeAccounted
<1>7. QED BY <1>4, <1>5, <1>6 DEF SchedulerInv

(* The invariant the scheduler's properties follow from: types, no backlog,  *)
(* and the time that passed accounted for by ticks run, time kept and time   *)
(* dropped.                                                                  *)
THEOREM SchedulerSpecInv == SchedulerSpec => []SchedulerInv
<1>1. SchedulerInit => SchedulerInv
  <2>1. 0 + 0 * TickInterval = 0
    BY SchedulerAssumption
  <2>2. SchedulerInit => SchedulerTypeOK /\ NoBacklog
    <3>1. [ticks_due |-> 0, saturated |-> FALSE] \in [ticks_due : 0..MaxTicksPerStep, saturated : BOOLEAN]
      BY SchedulerAssumption
    <3>2. 0 \in 0..MaxElapsed /\ 0 < TickInterval
      BY SchedulerAssumption
    <3>3. SchedulerInit => /\ step \in [ticks_due : 0..MaxTicksPerStep, saturated : BOOLEAN]
                           /\ dropped \in BOOLEAN
      BY <3>1, Zenon DEF SchedulerInit
    <3>4. SchedulerInit => accumulated \in Nat /\ ticks \in Nat /\ elapsed \in 0..MaxElapsed /\ NoBacklog
      BY <3>2 DEF SchedulerInit, NoBacklog
    <3>5. QED BY <3>3, <3>4 DEF SchedulerTypeOK
  <2>3. SchedulerInit => TimeAccounted
    BY <2>1 DEF SchedulerInit, TimeAccounted
  <2>4. QED BY <2>2, <2>3 DEF SchedulerInv
<1>2. SchedulerInv /\ [SchedulerNext]_schedulerVars => SchedulerInv'
  <2>1. SchedulerInv /\ SchedulerNext => SchedulerInv'
    BY AdvanceKeeps DEF SchedulerNext
  <2>2. SchedulerInv /\ UNCHANGED schedulerVars => SchedulerInv'
    BY DEF SchedulerInv, SchedulerTypeOK, NoBacklog, TimeAccounted, schedulerVars
  <2>3. QED BY <2>1, <2>2
<1>3. QED BY <1>1, <1>2, PTL DEF SchedulerSpec

(* The ticks run are never more than the time elapsed is worth, and just as  *)
(* many while no step was saturated, however that time was cut into steps;   *)
(* and no due tick waits for a later step, saturated or not.                 *)
THEOREM SchedulerKeepsPace == SchedulerSpec => []KeepsPace
<1>1. SchedulerInv => KeepsPace
  <2> SUFFICES ASSUME SchedulerInv PROVE KeepsPace
    OBVIOUS
  <2>1. /\ accumulated \in Nat /\ accumulated < TickInterval
        /\ ticks \in Nat /\ elapsed \in Nat
        /\ accumulated + ticks * TickInterval <= elapsed
        /\ ~ dropped => accumulated + ticks * TickInterval = elapsed
    BY DEF SchedulerInv, SchedulerTypeOK, NoBacklog, TimeAccounted
  <2>2. ticks * TickInterval \in Nat
    BY <2>1, SchedulerAssumption
  <2>3. ticks <= elapsed \div TickInterval
    BY <2>1, <2>2, SchedulerAssumption, DivisionBounds
  <2>4. ASSUME ~ dropped PROVE ticks = elapsed \div TickInterval
    <3>1. elapsed < ticks * TickInterval + TickInterval
      BY <2>1, <2>2, <2>4, SchedulerAssumption
    <3>2. QED BY <2>1, <2>2, <3>1, SchedulerAssumption, DivisionBounds
  <2>5. NoBacklog
    BY DEF SchedulerInv
  <2>6. QED BY <2>3, <2>4, <2>5 DEF KeepsPace
<1>2. QED BY SchedulerSpecInv, <1>1, PTL

(* A step no longer than the ticks it may run never drops time: what was     *)
(* left from earlier steps is less than an interval and cannot tip it over.  *)
THEOREM ShortStepsKeepTime == SchedulerSpec => ShortStepsLoseNothing
<1>1. ASSUME SchedulerInv, [SchedulerNext]_schedulerVars,
             ~ UNCHANGED schedulerVars,
             elapsed' - elapsed <= MaxTicksPerStep * TickInterval
      PROVE  ~ step'.saturated
  <2>1. PICK t \in StepTimes : Advance(t)
    BY <1>1 DEF SchedulerNext
  <2> DEFINE time == accumulated + t
             most == MaxTicksPerStep * TickInterval
             q == time \div TickInterval
  <2>2. /\ accumulated \in Nat /\ accumulated < TickInterval
        /\ elapsed \in Nat /\ t \in Nat /\ time \in Nat
        /\ most \in Nat
    BY <1>1, SchedulerAssumption DEF SchedulerInv, SchedulerTypeOK, NoBacklog
  <2>3. t <= most
    BY <1>1, <2>1, <2>2 DEF Advance
  <2>4. time < most + TickInterval
    BY <2>2, <2>3, SchedulerAssumption
  <2>5. Remainder(time) < TickInterval
    <3>1. q \in Nat /\ q * TickInterval <= time /\ time < q * TickInterval + TickInterval
      BY <2>2, SchedulerAssumption, Division
    <3>2. CASE q < MaxTicksPerStep
      BY <2>2, <3>1, <3>2, SchedulerAssumption DEF Remainder, TicksDue
    <3>3. CASE ~ (q < MaxTicksPerStep)
      BY <2>2, <2>4, <3>3, SchedulerAssumption DEF Remainder, TicksDue
    <3>4. QED BY <3>2, <3>3
  <2>6. step'.saturated = Saturated(time)
    BY <2>1 DEF Advance
  <2>7. ~ Saturated(time)
    <3>1. Remainder(time) \in Int
      BY <2>2, StepTakes
    <3>2. QED BY <2>5, <3>1, SchedulerAssumption DEF Saturated
  <2>8. QED BY <2>6, <2>7
<1>2. QED BY <1>1, SchedulerSpecInv, PTL DEF SchedulerSpec, ShortStepsLoseNothing

-------------------------------------------------------------------------------
(* The history of positions *)

\* as many samples as an entity has that was spawned after tick b
Kept(b) == IF tick - b < LagHistoryTicks THEN tick - b ELSE LagHistoryTicks

\* An entity spawned after tick b has been tracked ever since, and its samples
\* are the last of what was tracked, tick by tick.
Remembers(e, b) ==
  /\ DOMAIN track[e] = (b + 1)..tick
  /\ Len(Samples(e)) = Kept(b)
  /\ \A i \in 1..Kept(b) :
       Samples(e)[i] = [tick |-> tick - Kept(b) + i, position |-> track[e][tick - Kept(b) + i]]

LagInv ==
  /\ LagTypeOK
  /\ DOMAIN lag_history \subseteq DOMAIN places
  /\ \A e \in DOMAIN places : \E b \in 0..tick : Remembers(e, b)

LEMMA BoundedAppend ==
  ASSUME NEW s \in Seq(LagSample), Len(s) <= LagHistoryTicks, NEW x \in LagSample,
         NEW m, m = IF Len(s) < LagHistoryTicks THEN Len(s) + 1 ELSE LagHistoryTicks
  PROVE  /\ Bounded(Append(s, x)) \in Seq(LagSample)
         /\ Len(Bounded(Append(s, x))) = m
         /\ \A i \in 1..m : Bounded(Append(s, x))[i] =
              IF i = m THEN x ELSE s[Len(s) + 1 - m + i]
<1> DEFINE pushed == Append(s, x)
           first == IF Len(pushed) > LagHistoryTicks THEN Len(pushed) - LagHistoryTicks + 1 ELSE 1
<1>1. pushed \in Seq(LagSample) /\ Len(pushed) = Len(s) + 1
  OBVIOUS
<1>2. first \in 1..(Len(pushed) + 1) /\ Len(pushed) - first + 1 = m
  <2> HIDE DEF pushed
  <2>1. Len(s) \in Nat
    OBVIOUS
  <2>2. CASE Len(s) < LagHistoryTicks
    <3>1. first = 1 /\ m = Len(s) + 1
      BY <1>1, <2>1, <2>2, LagAssumption
    <3> HIDE DEF first
    <3>2. QED BY <1>1, <2>1, <3>1
  <2>3. CASE Len(s) = LagHistoryTicks
    <3>1. first = 2 /\ m = Len(s)
      BY <1>1, <2>1, <2>3, LagAssumption
    <3> HIDE DEF first
    <3>2. QED BY <1>1, <2>1, <3>1
  <2>4. Len(s) < LagHistoryTicks \/ Len(s) = LagHistoryTicks
    BY <2>1, LagAssumption
  <2> HIDE DEF first
  <2>5. QED BY <2>2, <2>3, <2>4
<1>3. Bounded(pushed) = SubSeq(pushed, first, Len(pushed))
  BY DEF Bounded
<1> HIDE DEF first
<1>4. /\ SubSeq(pushed, first, Len(pushed)) \in Seq(LagSample)
      /\ Len(SubSeq(pushed, first, Len(pushed))) = m
      /\ \A i \in 1..m : SubSeq(pushed, first, Len(pushed))[i] = pushed[first + i - 1]
  BY <1>1, <1>2
<1>5. ASSUME NEW i \in 1..m
      PROVE  pushed[first + i - 1] = IF i = m THEN x ELSE s[Len(s) + 1 - m + i]
  BY SMTT(30), <1>1, <1>2
<1>6. QED BY <1>3, <1>4, <1>5

LEMMA LagTypeFacts ==
  ASSUME LagTypeOK
  PROVE  /\ tick \in Nat /\ tick <= MaxTick
         /\ DOMAIN places \subseteq Entity
         /\ \A e \in DOMAIN places :
              /\ places[e] \in Position
              /\ \E T \in SUBSET (1..MaxTick) : track[e] \in [T -> Position]
         /\ \A e \in DOMAIN lag_history : lag_history[e] \in Seq(LagSample)
<1>1. \A e \in DOMAIN places : \E T \in SUBSET (1..MaxTick) : track[e] \in [T -> Position]
  <2> SUFFICES ASSUME NEW e \in DOMAIN places
               PROVE  \E T \in SUBSET (1..MaxTick) : track[e] \in [T -> Position]
    OBVIOUS
  <2>1. track[e] \in UNION {[T -> Position] : T \in SUBSET (1..MaxTick)}
    BY DEF LagTypeOK
  <2>2. QED BY <2>1
<1>2. QED BY <1>1, LagAssumption DEF LagTypeOK

LEMMA LagSpawnKeeps ==
  ASSUME LagInv, NEW e \in Entity, NEW p \in Position, SpawnEntity(e, p)
  PROVE  LagInv'
<1>1. /\ DOMAIN places' = DOMAIN places \cup {e} /\ DOMAIN track' = DOMAIN places'
      /\ places' = [d \in DOMAIN places \cup {e} |-> places'[d]]
      /\ track' = [d \in DOMAIN places \cup {e} |-> track'[d]]
      /\ UNCHANGED <<tick, lag_history>>
      /\ \A d \in DOMAIN places' : places'[d] = IF d = e THEN p ELSE places[d]
      /\ \A d \in DOMAIN places' : track'[d] = IF d \in DOMAIN places THEN track[d] ELSE EmptyMap
  BY DEF SpawnEntity
<1>2. EmptyMap \in [{} -> Position] /\ {} \in SUBSET (1..MaxTick)
  BY DEF EmptyMap
<1>3. LagTypeOK'
  <2> DEFINE D == DOMAIN places \cup {e}
  <2>1. LagTypeOK /\ D \in SUBSET Entity
    BY LagTypeFacts DEF LagInv
  <2>2. \A d \in D : places'[d] \in Position
    BY <1>1, <2>1, LagTypeFacts
  <2>3. \A d \in D : track'[d] \in UNION {[T -> Position] : T \in SUBSET (1..MaxTick)}
    <3>1. EmptyMap \in UNION {[T -> Position] : T \in SUBSET (1..MaxTick)}
      BY <1>2
    <3>2. \A d \in DOMAIN places : track[d] \in UNION {[T -> Position] : T \in SUBSET (1..MaxTick)}
      BY <2>1 DEF LagTypeOK
    <3>3. QED BY <1>1, <3>1, <3>2
  <2> HIDE DEF D
  <2>4. places' \in [D -> Position]
        /\ track' \in [D -> UNION {[T -> Position] : T \in SUBSET (1..MaxTick)}]
        /\ DOMAIN places' = D
    BY <1>1, <2>2, <2>3 DEF D
  <2>5. QED BY <1>1, <2>1, <2>4 DEF LagTypeOK
<1>4. DOMAIN lag_history' \subseteq DOMAIN places'
  BY <1>1 DEF LagInv
<1>5. ASSUME NEW d \in DOMAIN places'
      PROVE  \E b \in 0..tick' : Remembers(d, b)'
  <2>1. CASE d \in DOMAIN places
    <3>1. PICK b \in 0..tick : Remembers(d, b)
      BY <2>1 DEF LagInv
    <3>2. Remembers(d, b)'
      BY <1>1, <2>1, <3>1 DEF Remembers, Samples, Kept
    <3>3. QED BY <1>1, <3>1, <3>2
  <2>2. CASE d \notin DOMAIN places
    <3>1. tick \in Nat /\ Samples(d)' = <<>> /\ track'[d] = EmptyMap
      BY <1>1, <2>2 DEF LagInv, LagTypeOK, Samples
    <3>2. Kept(tick)' = 0
      BY <1>1, <3>1, LagAssumption DEF Kept
    <3>3. Remembers(d, tick)'
      BY <1>1, <3>1, <3>2 DEF Remembers, EmptyMap
    <3>4. QED BY <1>1, <3>1, <3>3
  <2>3. QED BY <2>1, <2>2
<1>6. QED BY <1>3, <1>4, <1>5 DEF LagInv

LEMMA LagMoveKeeps ==
  ASSUME LagInv, NEW e \in Entity, NEW p \in Position, MoveEntity(e, p)
  PROVE  LagInv'
<1>1. DOMAIN places' = DOMAIN places /\ UNCHANGED <<tick, lag_history, track>>
  BY DEF MoveEntity
<1>2. LagTypeOK'
  BY <1>1 DEF LagInv, LagTypeOK, MoveEntity
<1>3. ASSUME NEW d \in DOMAIN places, NEW b, Remembers(d, b) PROVE Remembers(d, b)'
  BY <1>1, <1>3 DEF Remembers, Samples, Kept
<1>4. QED BY <1>1, <1>2, <1>3 DEF LagInv

LEMMA LagDespawnKeeps ==
  ASSUME LagInv, NEW e \in Entity, DespawnEntity(e)
  PROVE  LagInv'
<1>1. /\ DOMAIN places' = DOMAIN places \ {e} /\ DOMAIN track' = DOMAIN places'
      /\ DOMAIN lag_history' = DOMAIN lag_history \ {e}
      /\ places' = [d \in DOMAIN places' |-> places[d]]
      /\ track' = [d \in DOMAIN places' |-> track[d]]
      /\ lag_history' = [d \in DOMAIN lag_history' |-> lag_history[d]]
      /\ UNCHANGED tick
  BY DEF DespawnEntity, Restrict, LagInv, LagTypeOK
<1>2. LagTypeOK'
  <2>1. LagTypeOK /\ DOMAIN places' \in SUBSET Entity /\ DOMAIN lag_history' \in SUBSET Entity
    BY <1>1 DEF LagInv, LagTypeOK
  <2>2. \A d \in DOMAIN places' : places[d] \in Position
          /\ track[d] \in UNION {[T -> Position] : T \in SUBSET (1..MaxTick)}
    BY <1>1, <2>1 DEF LagTypeOK
  <2>3. \A d \in DOMAIN lag_history' : lag_history[d] \in Seq(LagSample)
    BY <1>1, <2>1 DEF LagTypeOK
  <2>4. /\ places' \in [DOMAIN places' -> Position]
        /\ track' \in [DOMAIN places' -> UNION {[T -> Position] : T \in SUBSET (1..MaxTick)}]
        /\ lag_history' \in [DOMAIN lag_history' -> Seq(LagSample)]
    BY <1>1, <2>2, <2>3
  <2>5. QED BY <1>1, <2>1, <2>4 DEF LagTypeOK
<1>3. ASSUME NEW d \in DOMAIN places', NEW b, Remembers(d, b)
      PROVE  Remembers(d, b)'
  <2>1. Samples(d)' = Samples(d) /\ track'[d] = track[d] /\ Kept(b)' = Kept(b)
    BY <1>1 DEF Samples, Kept
  <2>2. QED BY <1>1, <1>3, <2>1 DEF Remembers
<1>4. QED BY <1>1, <1>2, <1>3 DEF LagInv

LEMMA LagTickKeeps ==
  ASSUME LagInv, AdvanceTick
  PROVE  LagInv'
<1>1. /\ tick' = tick + 1 /\ places' = places
      /\ tick \in 0..MaxTick /\ tick' \in 1..MaxTick /\ tick \in Nat
      /\ DOMAIN lag_history' = DOMAIN places /\ DOMAIN track' = DOMAIN places
  BY LagAssumption DEF AdvanceTick, LagInv, LagTypeOK
<1>2. ASSUME NEW e \in DOMAIN places
      PROVE  /\ track'[e] \in UNION {[T -> Position] : T \in SUBSET (1..MaxTick)}
             /\ lag_history'[e] \in Seq(LagSample)
             /\ \E b \in 0..tick' : Remembers(e, b)'
  <2> DEFINE s == Samples(e)
             x == [tick |-> tick + 1, position |-> places[e]]
  <2>1. PICK b \in 0..tick : Remembers(e, b)
    BY DEF LagInv
  <2>2. /\ s \in Seq(LagSample) /\ x \in LagSample /\ places[e] \in Position
        /\ track[e] \in UNION {[T -> Position] : T \in SUBSET (1..MaxTick)}
    <3>1. places[e] \in Position /\ track[e] \in UNION {[T -> Position] : T \in SUBSET (1..MaxTick)}
      BY DEF LagInv, LagTypeOK
    <3>2. s \in Seq(LagSample)
      BY LagTypeFacts DEF LagInv, Samples
    <3>3. x \in LagSample
      BY <1>1, <3>1 DEF LagSample
    <3>4. QED BY <3>1, <3>2, <3>3
  <2>3. /\ track'[e] = [t \in DOMAIN track[e] \cup {tick + 1} |->
                          IF t = tick + 1 THEN places[e] ELSE track[e][t]]
        /\ lag_history'[e] = Bounded(Append(s, x))
    BY <1>1 DEF AdvanceTick, Recorded
  <2>4. track'[e] \in UNION {[T -> Position] : T \in SUBSET (1..MaxTick)}
    <3>1. PICK T \in SUBSET (1..MaxTick) : track[e] \in [T -> Position]
      BY <2>2
    <3>2. track'[e] \in [T \cup {tick + 1} -> Position] /\ T \cup {tick + 1} \in SUBSET (1..MaxTick)
      BY <1>1, <2>2, <2>3, <3>1
    <3>3. QED BY <3>2
  <2>4a. PICK n, m : n = Kept(b) /\ m = Kept(b)'
    OBVIOUS
  <2>5. /\ n \in Nat /\ m \in Nat /\ n <= LagHistoryTicks /\ n <= tick - b
        /\ m = IF n < LagHistoryTicks THEN n + 1 ELSE LagHistoryTicks
    BY <1>1, <2>4a, LagAssumption DEF Kept
  <2>6. Len(s) = n /\ \A i \in 1..n : s[i] = [tick |-> tick - n + i, position |-> track[e][tick - n + i]]
    BY <2>1, <2>4a DEF Remembers
  <2>7. /\ lag_history'[e] \in Seq(LagSample)
        /\ Len(lag_history'[e]) = m
        /\ \A i \in 1..m : lag_history'[e][i] = IF i = m THEN x ELSE s[n + 1 - m + i]
    <3> HIDE DEF s, x
    <3> QED BY SMTT(30), <2>2, <2>3, <2>5, <2>6, BoundedAppend
  <2>8. Samples(e)' = lag_history'[e]
    BY <1>1 DEF Samples
  <2>9. DOMAIN track'[e] = (b + 1)..tick'
    BY <1>1, <2>1, <2>3 DEF Remembers
  <2>10. ASSUME NEW i \in 1..m
         PROVE  Samples(e)'[i] = [tick |-> tick' - m + i, position |-> track'[e][tick' - m + i]]
    <3> HIDE DEF s
    <3>1. CASE i = m
      <4>1. tick' - m + i = tick + 1
        BY <1>1, <2>5, <3>1, LagAssumption
      <4>2. track'[e][tick + 1] = places[e]
        BY <2>3
      <4>3. QED BY <2>7, <2>8, <3>1, <4>1, <4>2
    <3>2. CASE i # m
      <4>1. n + 1 - m + i \in 1..n /\ tick - n + (n + 1 - m + i) = tick' - m + i
        BY <1>1, <2>5, <3>2, LagAssumption
      <4>2. Samples(e)'[i] = [tick |-> tick' - m + i, position |-> track[e][tick' - m + i]]
        BY <2>6, <2>7, <2>8, <3>2, <4>1
      <4>3. tick' - m + i \in (b + 1)..tick
        BY <1>1, <2>5, <3>2, LagAssumption
      <4>4. track'[e][tick' - m + i] = track[e][tick' - m + i]
        BY <1>1, <2>1, <2>3, <4>3 DEF Remembers
      <4>5. QED BY <4>2, <4>4
    <3>3. QED BY <3>1, <3>2
  <2>11. Remembers(e, b)'
    BY <2>4a, <2>7, <2>8, <2>9, <2>10 DEF Remembers
  <2>12. QED BY <1>1, <2>4, <2>7, <2>11
<1>3. LagTypeOK'
  <2>1. track' = [e \in DOMAIN places |-> track'[e]] /\ lag_history' = [e \in DOMAIN places |-> lag_history'[e]]
    BY <1>1 DEF AdvanceTick
  <2>2. QED BY <1>1, <1>2, <2>1 DEF LagInv, LagTypeOK
<1>4. QED BY <1>1, <1>2, <1>3 DEF LagInv

(* The invariant of the history: each spawned entity has, since some tick,   *)
(* been sampled at the end of every one, and the last of those samples are   *)
(* kept.                                                                     *)
THEOREM LagSpecInv == LagSpec => []LagInv
<1>1. LagInit => LagInv
  <2> SUFFICES ASSUME LagInit PROVE LagInv
    OBVIOUS
  <2>1. /\ places \in [{} -> Position] /\ lag_history \in [{} -> Seq(LagSample)]
        /\ track \in [{} -> UNION {[T -> Position] : T \in SUBSET (1..MaxTick)}]
        /\ DOMAIN places = {} /\ DOMAIN lag_history = {} /\ tick \in 0..MaxTick
    BY LagAssumption DEF LagInit, EmptyMap
  <2>2. QED BY <2>1 DEF LagInv, LagTypeOK
<1>2. LagInv /\ [LagNext]_lagVars => LagInv'
  <2>1. LagInv /\ UNCHANGED lagVars => LagInv'
    BY DEF LagInv, LagTypeOK, Remembers, Samples, Kept, lagVars
  <2>2. LagInv /\ LagNext => LagInv'
    BY LagSpawnKeeps, LagMoveKeeps, LagDespawnKeeps, LagTickKeeps DEF LagNext
  <2>3. QED BY <2>1, <2>2
<1>3. QED BY <1>1, <1>2, PTL DEF LagSpec

(* Every reachable state is well typed; above all no history exceeds its     *)
(* bound.                                                                    *)
THEOREM LagTypeCorrect == LagSpec => []LagTypeOK
BY LagSpecInv, PTL DEF LagInv

LEMMA LookupsTell == LagInv => RewindIsTruth
<1> SUFFICES ASSUME LagInv, NEW e \in Entity, NEW t \in 1..MaxTick
             PROVE  Rewind(e, t) =
                      IF e \in DOMAIN places /\ t \in DOMAIN track[e] /\ t > tick - LagHistoryTicks
                        THEN {track[e][t]} ELSE {}
  BY DEF RewindIsTruth
<1> DEFINE s == Samples(e)
           found == {i \in DOMAIN s : s[i].tick = t}
<1>1. Rewind(e, t) = {s[i].position : i \in {i \in found : \A j \in found : i <= j}}
  BY DEF Rewind
<1>2. CASE e \notin DOMAIN places
  <2>1. s = <<>>
    BY <1>2 DEF LagInv, Samples
  <2>2. QED BY <1>1, <1>2, <2>1
<1>3. CASE e \in DOMAIN places
  <2>1. PICK b \in 0..tick : Remembers(e, b)
    BY <1>3 DEF LagInv
  <2> DEFINE n == Kept(b)
             at == t - tick + n
  <2>2. /\ tick \in Nat /\ n \in Nat /\ n <= LagHistoryTicks /\ n <= tick - b
        /\ n = tick - b \/ n = LagHistoryTicks
    BY LagAssumption DEF Kept, LagInv, LagTypeOK
  <2>3. /\ DOMAIN track[e] = (b + 1)..tick /\ DOMAIN s = 1..n
        /\ \A i \in 1..n : s[i] = [tick |-> tick - n + i, position |-> track[e][tick - n + i]]
    <3>1. s \in Seq(LagSample)
      BY <1>3 DEF LagInv, LagTypeOK, Samples
    <3>2. QED BY <2>1, <2>2, <3>1 DEF Remembers
  <2>4. t \in DOMAIN track[e] /\ t > tick - LagHistoryTicks <=> at \in 1..n
    <3> HIDE DEF n
    <3> QED BY <2>2, <2>3, LagAssumption
  <2> HIDE DEF n, s
  <2>5. \A i \in 1..n : s[i].tick = tick - n + i /\ s[i].position = track[e][tick - n + i]
    BY <2>3
  <2>5a. \A i \in 1..n : tick - n + i = t <=> i = at
    BY <2>2
  <2>5b. found = {at} \cap (1..n)
    BY <2>3, <2>5, <2>5a
  <2>6. CASE at \in 1..n
    <3>1. {i \in found : \A j \in found : i <= j} = {at}
      <4> HIDE DEF at
      <4> QED BY <2>2, <2>5b, <2>6
    <3>2. s[at].position = track[e][t]
      BY <2>2, <2>5, <2>5a, <2>6
    <3> HIDE DEF at, found
    <3>3. QED BY <1>1, <1>3, <2>4, <2>6, <3>1, <3>2
  <2>7. CASE at \notin 1..n
    <3>1. found = {}
      BY <2>5b, <2>7
    <3>2. QED BY <1>1, <1>3, <2>4, <2>7, <3>1
  <2>8. QED BY <2>6, <2>7
<1>4. QED BY <1>2, <1>3

(* A rewind lookup returns where the entity was at that tick, and it returns *)
(* something for just the ticks the history reaches back to.                 *)
THEOREM LookupsTellTheTruth == LagSpec => []RewindIsTruth
BY LagSpecInv, LookupsTell, PTL

(* Between two ticks that can be looked up interpolation never fails: the    *)
(* history has no gap, however entities are spawned, moved and removed.      *)
THEOREM LookupsHaveNoGaps == LagSpec => []NoGaps
<1>1. LagInv => NoGaps
  <2> SUFFICES ASSUME LagInv, NEW e \in Entity, NEW t \in 1..MaxTick,
                      Rewind(e, t) # {}, t # tick
               PROVE  RewindInterpolated(e, t) # {}
    BY DEF NoGaps
  <2>1. RewindIsTruth
    BY LookupsTell
  <2>2. e \in DOMAIN places /\ t \in DOMAIN track[e] /\ t > tick - LagHistoryTicks
    BY <2>1 DEF RewindIsTruth
  <2>3. PICK b \in 0..tick : DOMAIN track[e] = (b + 1)..tick
    BY <2>2 DEF LagInv, Remembers
  <2>4. tick \in 0..MaxTick
    BY DEF LagInv, LagTypeOK
  <2>5. t + 1 \in 1..MaxTick /\ t + 1 \in DOMAIN track[e] /\ t + 1 > tick - LagHistoryTicks
    BY <2>2, <2>3, <2>4, LagAssumption
  <2>6. Rewind(e, t + 1) # {}
    BY <2>1, <2>2, <2>5 DEF RewindIsTruth
  <2>7. PICK p \in Rewind(e, t), q \in Rewind(e, t + 1) : TRUE
    BY <2>6
  <2>8. <<p, q>> \in RewindInterpolated(e, t)
    BY <2>7 DEF RewindInterpolated
  <2>9. QED BY <2>8
<1>2. QED BY LagSpecInv, <1>1, PTL

-------------------------------------------------------------------------------
(* Routing: where the events are *)

Orderly ==
  /\ \A r \in Destinations : \A p, q \in Places(r) :
       Earlier(p, q) => EventAt(r, p).id < EventAt(r, q).id
  /\ \A r \in Destinations : \A p \in Places(r) :
       EventAt(r, p).target_owner = r /\ EventAt(r, p).id \in 1..enqueued
  /\ \A id \in 1..enqueued : \E r \in Destinations : \E p \in Places(r) : EventAt(r, p).id = id
  /\ \A r, d \in Destinations : r # d =>
       \A p \in Places(r), q \in Places(d) : EventAt(r, p).id # EventAt(d, q).id

RoutingInv ==
  /\ RoutingTypeOK
  /\ IsFiniteSet(DOMAIN region_cell_events)
  /\ Orderly

\* A step may move the events of d together to other places.
SameEvents(d) ==
  \E m \in [Places(d)' -> Places(d)] :
    /\ \A p \in Places(d)' : EventAt(d, p)' = EventAt(d, m[p])
    /\ \A p, q \in Places(d)' : Earlier(p, q) => Earlier(m[p], m[q])
    /\ \A q \in Places(d) : \E p \in Places(d)' : m[p] = q

LEMMA PlacesAre ==
  ASSUME NEW r
  PROVE  /\ \A p \in Places(r) : /\ p = <<p[1], p[2]>>
                                 /\ p[1] \in DOMAIN Batches(r) /\ Batches(r)[p[1]].from = r
                                 /\ p[2] \in DOMAIN Batches(r)[p[1]].events
         /\ \A i \in DOMAIN Batches(r) : Batches(r)[i].from = r =>
              \A k \in DOMAIN Batches(r)[i].events : <<i, k>> \in Places(r)
BY DEF Places

LEMMA BatchesAre ==
  ASSUME NEW r, handedOver \in Seq(Batch)
  PROVE  /\ Len(handedOver) \in Nat
         /\ DOMAIN Batches(r) = 1..(Len(handedOver) + 1)
         /\ \A i \in 1..Len(handedOver) : Batches(r)[i] = handedOver[i]
         /\ Batches(r)[Len(handedOver) + 1] = [from |-> r, events |-> Queue(r)]
BY DEF Batches

LEMMA SameEventsKeepOrder ==
  ASSUME Orderly, \A d \in Destinations : SameEvents(d), enqueued' = enqueued
  PROVE  Orderly'
<1>1. \A r \in Destinations : \A p, q \in Places(r)' :
        Earlier(p, q) => EventAt(r, p)'.id < EventAt(r, q)'.id
  <2> SUFFICES ASSUME NEW r \in Destinations, NEW p \in Places(r)', NEW q \in Places(r)', Earlier(p, q)
               PROVE  EventAt(r, p)'.id < EventAt(r, q)'.id
    OBVIOUS
  <2>1. PICK m \in [Places(r)' -> Places(r)] :
          /\ \A x \in Places(r)' : EventAt(r, x)' = EventAt(r, m[x])
          /\ \A x, y \in Places(r)' : Earlier(x, y) => Earlier(m[x], m[y])
    BY DEF SameEvents
  <2>2. Earlier(m[p], m[q]) /\ m[p] \in Places(r) /\ m[q] \in Places(r)
    BY <2>1
  <2>3. EventAt(r, m[p]).id < EventAt(r, m[q]).id
    BY <2>2 DEF Orderly
  <2>4. QED BY <2>1, <2>3
<1>2. \A r \in Destinations : \A p \in Places(r)' : \E q \in Places(r) : EventAt(r, p)' = EventAt(r, q)
  <2> SUFFICES ASSUME NEW r \in Destinations, NEW p \in Places(r)'
               PROVE  \E q \in Places(r) : EventAt(r, p)' = EventAt(r, q)
    OBVIOUS
  <2>1. PICK m \in [Places(r)' -> Places(r)] : \A x \in Places(r)' : EventAt(r, x)' = EventAt(r, m[x])
    BY DEF SameEvents
  <2>2. QED BY <2>1
<1>3. \A r \in Destinations : \A q \in Places(r) : \E p \in Places(r)' : EventAt(r, p)' = EventAt(r, q)
  <2> SUFFICES ASSUME NEW r \in Destinations, NEW q \in Places(r)
               PROVE  \E p \in Places(r)' : EventAt(r, p)' = EventAt(r, q)
    OBVIOUS
  <2>1. PICK m \in [Places(r)' -> Places(r)] :
          /\ \A x \in Places(r)' : EventAt(r, x)' = EventAt(r, m[x])
          /\ \E p \in Places(r)' : m[p] = q
    BY DEF SameEvents
  <2>2. QED BY <2>1
<1>4. \A r \in Destinations : \A p \in Places(r)' :
        EventAt(r, p)'.target_owner = r /\ EventAt(r, p)'.id \in 1..enqueued
  BY <1>2 DEF Orderly
<1>5. \A id \in 1..enqueued : \E r \in Destinations : \E p \in Places(r)' : EventAt(r, p)'.id = id
  <2> SUFFICES ASSUME NEW id \in 1..enqueued
               PROVE  \E r \in Destinations : \E p \in Places(r)' : EventAt(r, p)'.id = id
    OBVIOUS
  <2>1. PICK r \in Destinations : \E q \in Places(r) : EventAt(r, q).id = id
    BY DEF Orderly
  <2>2. \E p \in Places(r)' : EventAt(r, p)'.id = id
    BY <1>3, <2>1
  <2>3. QED BY <2>2
<1>6. \A r, d \in Destinations : r # d =>
        \A p \in Places(r)', q \in Places(d)' : EventAt(r, p)'.id # EventAt(d, q)'.id
  <2> SUFFICES ASSUME NEW r \in Destinations, NEW d \in Destinations, r # d,
                      NEW p \in Places(r)', NEW q \in Places(d)'
               PROVE  EventAt(r, p)'.id # EventAt(d, q)'.id
    OBVIOUS
  <2>1. PICK x \in Places(r), y \in Places(d) :
          EventAt(r, p)' = EventAt(r, x) /\ EventAt(d, q)' = EventAt(d, y)
    BY <1>2
  <2>2. EventAt(r, x).id # EventAt(d, y).id
    BY DEF Orderly
  <2>3. QED BY <2>1, <2>2
<1>7. QED BY <1>1, <1>4, <1>5, <1>6 DEF Orderly, Destinations, Earlier

\* Events keep their order when the queue of d becomes a batch handed over, or
\* other queues do.
LEMMA HandingOverKeepsEvents ==
  ASSUME handedOver \in Seq(Batch), NEW more \in Seq(Batch), handedOver' = handedOver \o more,
         NEW d \in Destinations,
         \/ /\ \A i \in DOMAIN more : more[i].from # d
            /\ Queue(d)' = Queue(d)
         \/ /\ Queue(d)' = <<>>
            /\ \E i \in DOMAIN more :
                 /\ more[i] = [from |-> d, events |-> Queue(d)]
                 /\ \A j \in DOMAIN more : j # i => more[j].from # d
  PROVE  SameEvents(d)
<1> DEFINE L == Len(handedOver)
           n == Len(more)
           B == Batches(d)
<1>1. L \in Nat /\ n \in Nat /\ DOMAIN more = 1..n
  OBVIOUS
<1>2. /\ DOMAIN B = 1..(L + 1)
      /\ \A i \in 1..L : B[i] = handedOver[i]
      /\ B[L + 1] = [from |-> d, events |-> Queue(d)]
  BY BatchesAre
<1>3. /\ DOMAIN B' = 1..(L + n + 1)
      /\ \A i \in 1..L : B'[i] = handedOver[i]
      /\ \A i \in 1..n : B'[L + i] = more[i]
      /\ B'[L + n + 1] = [from |-> d, events |-> Queue(d)']
  <2>1. handedOver' \in Seq(Batch) /\ Len(handedOver') = L + n
    OBVIOUS
  <2>2. B' = Append(handedOver', [from |-> d, events |-> Queue(d)'])
    BY DEF Batches
  <2>3. \A i \in 1..L : handedOver'[i] = handedOver[i]
    OBVIOUS
  <2>4. \A i \in 1..n : handedOver'[L + i] = more[i]
    OBVIOUS
  <2> HIDE DEF L, n
  <2>5. DOMAIN B' = 1..(L + n + 1) /\ B'[L + n + 1] = [from |-> d, events |-> Queue(d)']
    BY <1>1, <2>1, <2>2
  <2>6. \A i \in 1..(L + n) : B'[i] = handedOver'[i]
    BY <1>1, <2>1, <2>2
  <2>7. \A i \in 1..L : B'[i] = handedOver[i]
    <3>1. \A i \in 1..L : i \in 1..(L + n)
      BY <1>1
    <3>2. QED BY <2>3, <2>6, <3>1
  <2>8. \A i \in 1..n : B'[L + i] = more[i]
    <3>1. \A i \in 1..n : L + i \in 1..(L + n)
      BY <1>1
    <3>2. QED BY <2>4, <2>6, <3>1
  <2>9. QED BY <2>5, <2>7, <2>8
<1> HIDE DEF L, n, B
<1>4. \E late \in (L + 1)..(L + n + 1) :
        /\ B'[late] = [from |-> d, events |-> Queue(d)]
        /\ \A i \in (L + 1)..(L + n + 1) : i # late => B'[i].from # d \/ B'[i].events = <<>>
  <2>1. \A i \in (L + 1)..(L + n + 1) : i = L + n + 1 \/ (i - L \in 1..n /\ B'[i] = more[i - L])
    <3>1. \A i \in (L + 1)..(L + n + 1) : i = L + n + 1 \/ (i - L \in 1..n /\ i = L + (i - L))
      BY <1>1
    <3>2. QED BY <1>3, <3>1
  <2>2. CASE (\A i \in DOMAIN more : more[i].from # d) /\ Queue(d)' = Queue(d)
    <3>1. L + n + 1 \in (L + 1)..(L + n + 1)
      BY <1>1
    <3>2. \A i \in (L + 1)..(L + n + 1) : i # L + n + 1 => B'[i].from # d
      BY <1>1, <2>1, <2>2
    <3>3. B'[L + n + 1] = [from |-> d, events |-> Queue(d)]
      BY <1>3, <2>2
    <3>4. QED BY <3>1, <3>2, <3>3
  <2>3. CASE /\ Queue(d)' = <<>>
             /\ \E i \in DOMAIN more :
                  /\ more[i] = [from |-> d, events |-> Queue(d)]
                  /\ \A j \in DOMAIN more : j # i => more[j].from # d
    <3>1. PICK i \in 1..n : /\ more[i] = [from |-> d, events |-> Queue(d)]
                            /\ \A j \in 1..n : j # i => more[j].from # d
      BY <1>1, <2>3
    <3>2. L + i \in (L + 1)..(L + n + 1) /\ B'[L + i] = [from |-> d, events |-> Queue(d)]
      BY <1>1, <1>3, <3>1
    <3>3. \A j \in (L + 1)..(L + n + 1) : j # L + i => B'[j].from # d \/ B'[j].events = <<>>
      <4> SUFFICES ASSUME NEW j \in (L + 1)..(L + n + 1), j # L + i
                   PROVE  B'[j].from # d \/ B'[j].events = <<>>
        OBVIOUS
      <4>1. CASE j = L + n + 1
        BY <1>3, <2>3, <4>1
      <4>2. CASE j # L + n + 1
        <5>1. j - L \in 1..n /\ B'[j] = more[j - L]
          BY <2>1, <4>2
        <5>2. j - L # i
          BY <1>1
        <5>3. QED BY <3>1, <5>1, <5>2
      <4>3. QED BY <4>1, <4>2
    <3>4. QED BY <3>2, <3>3
  <2>4. QED BY <2>2, <2>3
<1>5. PICK late \in (L + 1)..(L + n + 1) :
        /\ B'[late] = [from |-> d, events |-> Queue(d)]
        /\ \A i \in (L + 1)..(L + n + 1) : i # late => B'[i].from # d \/ B'[i].events = <<>>
  BY <1>4
<1> DEFINE m == [p \in Places(d)' |-> IF p[1] <= L THEN p ELSE <<L + 1, p[2]>>]
<1>6. \A p \in Places(d)' :
        /\ p = <<p[1], p[2]>> /\ p[1] \in 1..(L + n + 1) /\ B'[p[1]].from = d
        /\ p[2] \in DOMAIN B'[p[1]].events
  BY <1>3, PlacesAre DEF Places, B
<1>7. \A p \in Places(d)' : p[1] <= L \/ p[1] = late
  <2> SUFFICES ASSUME NEW p \in Places(d)', ~ (p[1] <= L), p[1] # late PROVE FALSE
    OBVIOUS
  <2>1. p[1] \in (L + 1)..(L + n + 1)
    BY <1>1, <1>6
  <2>2. B'[p[1]].events = <<>>
    BY <1>5, <1>6, <2>1
  <2>3. DOMAIN B'[p[1]].events = {}
    BY <2>2
  <2>4. QED BY <1>6, <2>3
<1>8. \A p \in Places(d)' : m[p] \in Places(d) /\ EventAt(d, p)' = EventAt(d, m[p])
  <2> SUFFICES ASSUME NEW p \in Places(d)'
               PROVE  m[p] \in Places(d) /\ EventAt(d, p)' = EventAt(d, m[p])
    OBVIOUS
  <2>1. EventAt(d, p)' = B'[p[1]].events[p[2]]
    BY DEF EventAt, B
  <2>2. CASE p[1] <= L
    <3>1. p[1] \in 1..L /\ p[1] \in 1..(L + 1)
      BY <1>1, <1>6, <2>2
    <3>2. B'[p[1]] = B[p[1]]
      BY <1>2, <1>3, <3>1
    <3>3. p \in Places(d)
      <4>1. /\ p = <<p[1], p[2]>> /\ p[1] \in DOMAIN B /\ B[p[1]].from = d
            /\ p[2] \in DOMAIN B[p[1]].events
        BY <1>2, <1>6, <3>1, <3>2
      <4>2. QED BY <4>1 DEF Places, B
    <3>4. QED BY <2>1, <2>2, <3>2, <3>3 DEF EventAt, B
  <2>3. CASE p[1] = late
    <3>1. ~ (p[1] <= L) /\ L + 1 \in 1..(L + 1)
      BY <1>1, <2>3
    <3>2. p[2] \in DOMAIN Queue(d)
      BY <1>5, <1>6, <2>3
    <3>3. <<L + 1, p[2]>> \in Places(d)
      <4>1. L + 1 \in DOMAIN B /\ B[L + 1].from = d /\ p[2] \in DOMAIN B[L + 1].events
        BY <1>2, <3>1, <3>2
      <4>2. QED BY <4>1 DEF Places, B
    <3>4. EventAt(d, <<L + 1, p[2]>>) = Queue(d)[p[2]]
      BY <1>2 DEF EventAt, B
    <3>5. QED BY <1>5, <2>1, <2>3, <3>1, <3>3, <3>4
  <2>4. QED BY <1>7, <2>2, <2>3
<1>9. \A p, q \in Places(d)' : Earlier(p, q) => Earlier(m[p], m[q])
  <2> SUFFICES ASSUME NEW p \in Places(d)', NEW q \in Places(d)', Earlier(p, q)
               PROVE  Earlier(m[p], m[q])
    OBVIOUS
  <2>1. /\ p[1] \in Nat /\ q[1] \in Nat /\ late \in Nat /\ late > L
        /\ p[1] <= L \/ p[1] = late
        /\ q[1] <= L \/ q[1] = late
    BY <1>1, <1>6, <1>7
  <2>2. m[p] = (IF p[1] <= L THEN p ELSE <<L + 1, p[2]>>) /\ m[q] = IF q[1] <= L THEN q ELSE <<L + 1, q[2]>>
    OBVIOUS
  <2> HIDE DEF m
  <2>3. CASE q[1] <= L
    BY <1>1, <2>1, <2>2, <2>3 DEF Earlier
  <2>4. CASE q[1] = late /\ p[1] <= L
    BY <1>1, <2>1, <2>2, <2>4 DEF Earlier
  <2>5. CASE q[1] = late /\ p[1] = late
    BY <1>1, <2>1, <2>2, <2>5 DEF Earlier
  <2>6. QED BY <2>1, <2>3, <2>4, <2>5
<1>10. \A q \in Places(d) : \E p \in Places(d)' : m[p] = q
  <2> SUFFICES ASSUME NEW q \in Places(d)
               PROVE  \E p \in Places(d)' : m[p] = q
    OBVIOUS
  <2>1. /\ q = <<q[1], q[2]>> /\ q[1] \in 1..(L + 1) /\ B[q[1]].from = d
        /\ q[2] \in DOMAIN B[q[1]].events
    BY <1>2, PlacesAre DEF B
  <2>2. CASE q[1] <= L
    <3>1. q[1] \in 1..L /\ q[1] \in 1..(L + n + 1)
      BY <1>1, <2>1, <2>2
    <3>2. B'[q[1]] = B[q[1]]
      BY <1>2, <1>3, <3>1
    <3>3. q \in Places(d)'
      BY <1>3, <2>1, <3>1, <3>2, PlacesAre DEF Places, B
    <3>4. QED BY <2>2, <3>3
  <2>3. CASE ~ (q[1] <= L)
    <3>1. q[1] = L + 1
      BY <1>1, <2>1, <2>3
    <3>2. late \in 1..(L + n + 1) /\ ~ (late <= L)
      BY <1>1
    <3>3. q[2] \in DOMAIN B'[late].events /\ B'[late].from = d
      BY <1>2, <1>5, <2>1, <3>1
    <3>4. <<late, q[2]>> \in Places(d)'
      BY <1>3, <3>2, <3>3 DEF Places, B
    <3>5. m[<<late, q[2]>>] = q
      BY <2>1, <3>1, <3>2, <3>4
    <3>6. QED BY <3>4, <3>5
  <2>4. QED BY <2>2, <2>3
<1>11. m \in [Places(d)' -> Places(d)]
  BY <1>8
<1>12. QED BY <1>8, <1>9, <1>10, <1>11 DEF SameEvents

LEMMA DrainKeepsEvents ==
  ASSUME handedOver \in Seq(Batch), NEW r \in Destinations, Queue(r) \in Seq(RoutedCellEvent),
         HandOver(r, Queue(r)), Queue(r)' = <<>>,
         \A d \in Destinations : d # r => Queue(d)' = Queue(d)
  PROVE  handedOver' \in Seq(Batch) /\ \A d \in Destinations : SameEvents(d)
<1>1. CASE Queue(r) = <<>>
  <2>1. handedOver' = handedOver \o <<>> /\ <<>> \in Seq(Batch) /\ handedOver' \in Seq(Batch)
    BY <1>1 DEF HandOver
  <2>2. ASSUME NEW d \in Destinations PROVE SameEvents(d)
    <3>1. Queue(d)' = Queue(d)
      BY <1>1
    <3>2. \A i \in DOMAIN <<>> : <<>>[i].from # d
      OBVIOUS
    <3>3. QED BY <2>1, <3>1, <3>2, HandingOverKeepsEvents
  <2>3. QED BY <2>1, <2>2
<1>2. CASE Queue(r) # <<>>
  <2> DEFINE batch == [from |-> r, events |-> Queue(r)]
             more == <<batch>>
  <2>1. batch \in Batch
    BY <1>2 DEF Batch, Destinations
  <2>2. handedOver' = Append(handedOver, batch)
    BY <1>2 DEF HandOver
  <2> HIDE DEF batch
  <2>3. /\ handedOver' = handedOver \o more /\ more \in Seq(Batch) /\ handedOver' \in Seq(Batch)
        /\ DOMAIN more = {1} /\ more[1] = batch
    BY <2>1, <2>2
  <2> HIDE DEF more
  <2>4. batch = [from |-> r, events |-> Queue(r)] /\ batch.from = r
    BY DEF batch
  <2>5. ASSUME NEW d \in Destinations PROVE SameEvents(d)
    <3>1. CASE d = r
      <4>1. /\ 1 \in DOMAIN more /\ more[1] = [from |-> d, events |-> Queue(d)]
            /\ \A j \in DOMAIN more : j # 1 => more[j].from # d
        BY <2>3, <2>4, <3>1
      <4>2. QED BY <2>3, <3>1, <4>1, HandingOverKeepsEvents
    <3>2. CASE d # r
      <4>1. (\A j \in DOMAIN more : more[j].from # d) /\ Queue(d)' = Queue(d)
        BY <2>3, <2>4, <3>2
      <4>2. QED BY <2>3, <4>1, HandingOverKeepsEvents
    <3>3. QED BY <3>1, <3>2
  <2>6. QED BY <2>3, <2>5
<1>3. QED BY <1>1, <1>2

LEMMA RoutingTypeFacts ==
  ASSUME RoutingTypeOK
  PROVE  /\ cell_owners \in [DOMAIN cell_owners -> Region] /\ DOMAIN cell_owners \subseteq Cell
         /\ DOMAIN region_cell_events \subseteq Region
         /\ region_cell_events \in [DOMAIN region_cell_events -> Seq(RoutedCellEvent) \ {<<>>}]
         /\ unowned_cell_events \in Seq(RoutedCellEvent)
         /\ \A d \in Destinations : Queue(d) \in Seq(RoutedCellEvent)
         /\ NoRegion \notin Region
<1>1. /\ cell_owners \in [DOMAIN cell_owners -> Region] /\ DOMAIN cell_owners \subseteq Cell
      /\ DOMAIN region_cell_events \subseteq Region
      /\ region_cell_events \in [DOMAIN region_cell_events -> Seq(RoutedCellEvent) \ {<<>>}]
      /\ unowned_cell_events \in Seq(RoutedCellEvent)
  BY DEF RoutingTypeOK
<1>2. NoRegion \notin Region
  BY RoutingAssumption DEF NoRegion
<1>3. \A d \in Destinations : Queue(d) \in Seq(RoutedCellEvent)
  <2> SUFFICES ASSUME NEW d \in Destinations PROVE Queue(d) \in Seq(RoutedCellEvent)
    OBVIOUS
  <2>1. CASE d = NoRegion
    BY <1>1, <2>1 DEF Queue
  <2>2. CASE d # NoRegion /\ d \in DOMAIN region_cell_events
    BY <1>1, <2>2 DEF Queue, RegionQueue
  <2>3. CASE d # NoRegion /\ d \notin DOMAIN region_cell_events
    BY <2>3 DEF Queue, RegionQueue
  <2>4. QED BY <2>1, <2>2, <2>3
<1>4. QED BY <1>1, <1>2, <1>3

\* The batches of a dispatch: one for every region with a queue.
LEMMA DispatchedBatches ==
  ASSUME RoutingInv
  PROVE  /\ RegionEventBatches \in Seq(Batch)
         /\ \A i \in DOMAIN RegionEventBatches :
              RegionEventBatches[i].from \in DOMAIN region_cell_events
         /\ \A r \in DOMAIN region_cell_events : \E i \in DOMAIN RegionEventBatches :
              /\ RegionEventBatches[i] = [from |-> r, events |-> region_cell_events[r]]
              /\ \A j \in DOMAIN RegionEventBatches : j # i => RegionEventBatches[j].from # r
<1> DEFINE S == DOMAIN region_cell_events
           n == Cardinality(S)
<1>1. IsFiniteSet(S) /\ Integral(S)
  BY RoutingTypeFacts, RoutingAssumption DEF RoutingInv, Integral
<1>2. PICK order \in [1..n -> S] : Ascending(order)
  BY <1>1, OrderExists
<1>3. TargetsInOrder \in [1..n -> S] /\ Ascending(TargetsInOrder)
  BY <1>2 DEF TargetsInOrder, Ascending
<1>4. PICK targets : targets = TargetsInOrder
  OBVIOUS
<1>5. targets \in [1..n -> S] /\ Ascending(targets)
  BY <1>3, <1>4
<1>6. /\ n \in Nat
      /\ \A x \in S : \E i \in 1..n : targets[i] = x
      /\ \A i, j \in 1..n : targets[i] = targets[j] => i = j
  BY <1>1, <1>5, OrderIsComplete
<1>7. RegionEventBatches = [i \in 1..n |-> [from |-> targets[i], events |-> region_cell_events[targets[i]]]]
  BY <1>4, <1>5 DEF RegionEventBatches
<1> HIDE DEF n
<1>8. \A r \in S : r \in Region /\ region_cell_events[r] \in Seq(RoutedCellEvent) \ {<<>>}
  BY RoutingTypeFacts DEF RoutingInv
<1>9. \A r \in S : [from |-> r, events |-> region_cell_events[r]] \in Batch
  BY <1>8 DEF Batch
<1> HIDE DEF S
<1>10. \A i \in 1..n : targets[i] \in S
  BY <1>5
<1>11. RegionEventBatches \in [1..n -> Batch]
  BY <1>7, <1>9, <1>10
<1>12. RegionEventBatches \in Seq(Batch) /\ DOMAIN RegionEventBatches = 1..n
  BY <1>6, <1>11
<1>13. \A i \in 1..n : RegionEventBatches[i] = [from |-> targets[i], events |-> region_cell_events[targets[i]]]
  BY <1>7
<1>14. \A i \in 1..n : RegionEventBatches[i].from = targets[i]
  <2> SUFFICES ASSUME NEW i \in 1..n PROVE RegionEventBatches[i].from = targets[i]
    OBVIOUS
  <2>1. RegionEventBatches[i] = [from |-> targets[i], events |-> region_cell_events[targets[i]]]
    BY <1>13
  <2>2. QED BY ONLY <2>1
<1>15. \A r \in S : \E i \in 1..n :
          /\ RegionEventBatches[i] = [from |-> r, events |-> region_cell_events[r]]
          /\ \A j \in 1..n : j # i => RegionEventBatches[j].from # r
  <2> SUFFICES ASSUME NEW r \in S
               PROVE \E i \in 1..n :
                       /\ RegionEventBatches[i] = [from |-> r, events |-> region_cell_events[r]]
                       /\ \A j \in 1..n : j # i => RegionEventBatches[j].from # r
    OBVIOUS
  <2>1. PICK i \in 1..n : targets[i] = r
    BY <1>6
  <2>2. RegionEventBatches[i] = [from |-> r, events |-> region_cell_events[r]]
    BY <1>13, <2>1
  <2>3. \A j \in 1..n : j # i => RegionEventBatches[j].from # r
    BY <1>6, <1>14, <2>1
  <2>4. QED BY <2>2, <2>3
<1>16. QED BY <1>10, <1>12, <1>14, <1>15 DEF S

LEMMA DispatchKeepsEvents ==
  ASSUME RoutingInv, DispatchRegionEvents
  PROVE  handedOver' \in Seq(Batch) /\ \A d \in Destinations : SameEvents(d)
<1> DEFINE more == RegionEventBatches
<1>1. handedOver \in Seq(Batch) /\ handedOver' = handedOver \o more
  BY DEF RoutingInv, RoutingTypeOK, DispatchRegionEvents
<1>2. /\ more \in Seq(Batch)
      /\ \A i \in DOMAIN more : more[i].from \in DOMAIN region_cell_events
      /\ \A r \in DOMAIN region_cell_events : \E i \in DOMAIN more :
           /\ more[i] = [from |-> r, events |-> region_cell_events[r]]
           /\ \A j \in DOMAIN more : j # i => more[j].from # r
  BY DispatchedBatches
<1>3. PICK batches : batches = more
  OBVIOUS
<1>4. handedOver' \in Seq(Batch)
  BY <1>1, <1>2, <1>3
<1>5. ASSUME NEW d \in Destinations PROVE SameEvents(d)
  <2>1. CASE d \in DOMAIN region_cell_events
    <3>1. d # NoRegion
      BY <2>1, RoutingTypeFacts DEF RoutingInv
    <3>2. Queue(d) = region_cell_events[d] /\ Queue(d)' = <<>>
      BY <2>1, <3>1 DEF Queue, RegionQueue, DispatchRegionEvents, EmptyMap
    <3>3. \E i \in DOMAIN more :
            /\ more[i] = [from |-> d, events |-> Queue(d)]
            /\ \A j \in DOMAIN more : j # i => more[j].from # d
      BY <1>2, <2>1, <3>2
    <3> HIDE DEF more
    <3>4. QED BY <1>1, <1>2, <3>2, <3>3, HandingOverKeepsEvents
  <2>2. CASE d \notin DOMAIN region_cell_events
    <3>1. \A i \in DOMAIN more : more[i].from # d
      BY <1>2, <2>2
    <3>2. Queue(d)' = Queue(d)
      BY <2>2 DEF Queue, RegionQueue, DispatchRegionEvents, EmptyMap
    <3> HIDE DEF more
    <3>3. QED BY <1>1, <1>2, <3>1, <3>2, HandingOverKeepsEvents
  <2>3. QED BY <2>1, <2>2
<1>6. QED BY <1>4, <1>5

\* An event is put behind the others of its destination.
LEMMA EnqueuedBehind ==
  ASSUME RoutingInv, NEW owner \in Destinations, NEW routed \in RoutedCellEvent,
         routed.id = enqueued + 1, routed.target_owner = owner,
         enqueued' = enqueued + 1, handedOver' = handedOver,
         Queue(owner)' = Append(Queue(owner), routed),
         \A d \in Destinations : d # owner => Queue(d)' = Queue(d)
  PROVE  Orderly'
<1> DEFINE L == Len(handedOver)
           k == Len(Queue(owner))
<1>0. PICK new : new = <<L + 1, k + 1>>
  OBVIOUS
<1>1. /\ handedOver \in Seq(Batch) /\ L \in Nat /\ k \in Nat /\ enqueued \in Nat
      /\ Queue(owner) \in Seq(RoutedCellEvent)
  BY RoutingTypeFacts, RoutingAssumption DEF RoutingInv, RoutingTypeOK
<1>2. \A d \in Destinations \ {owner} : Batches(d)' = Batches(d)
  BY DEF Batches
<1>3. \A d \in Destinations \ {owner} :
        Places(d)' = Places(d) /\ \A p : EventAt(d, p)' = EventAt(d, p)
  BY <1>2 DEF Places, EventAt
<1>4. PICK B : B = Batches(owner)
  OBVIOUS
<1>5. PICK C : C = Batches(owner)'
  OBVIOUS
<1>6. /\ DOMAIN B = 1..(L + 1) /\ DOMAIN C = 1..(L + 1)
      /\ \A i \in 1..L : C[i] = B[i]
      /\ B[L + 1] = [from |-> owner, events |-> Queue(owner)]
      /\ C[L + 1] = [from |-> owner, events |-> Append(Queue(owner), routed)]
  <2>1. B = Append(handedOver, [from |-> owner, events |-> Queue(owner)])
    BY <1>4 DEF Batches
  <2>2. C = Append(handedOver, [from |-> owner, events |-> Append(Queue(owner), routed)])
    BY <1>5 DEF Batches
  <2>3. QED BY <1>1, <2>1, <2>2
<1>7. PICK last, longer : last = B[L + 1].events /\ longer = C[L + 1].events
  OBVIOUS
<1>7a. /\ B[L + 1].from = owner /\ C[L + 1].from = owner
       /\ DOMAIN last = 1..k /\ DOMAIN longer = 1..(k + 1)
       /\ \A j \in 1..k : longer[j] = last[j]
       /\ longer[k + 1] = routed
  <2>1. last = Queue(owner) /\ longer = Append(Queue(owner), routed)
    BY <1>6, <1>7
  <2>2. B[L + 1].from = owner /\ C[L + 1].from = owner
    BY <1>6
  <2>3. QED BY <1>1, <2>1, <2>2
<1> HIDE DEF L, k
<1>8. /\ \A p \in Places(owner) : p = <<p[1], p[2]>> /\ p[1] \in DOMAIN B /\ B[p[1]].from = owner
                                  /\ p[2] \in DOMAIN B[p[1]].events
      /\ \A i \in DOMAIN B : B[i].from = owner => \A j \in DOMAIN B[i].events : <<i, j>> \in Places(owner)
  BY <1>4 DEF Places
<1>9. /\ \A p \in Places(owner)' : p = <<p[1], p[2]>> /\ p[1] \in DOMAIN C /\ C[p[1]].from = owner
                                   /\ p[2] \in DOMAIN C[p[1]].events
      /\ \A i \in DOMAIN C : C[i].from = owner => \A j \in DOMAIN C[i].events : <<i, j>> \in Places(owner)'
  BY <1>5 DEF Places
<1>10. \A p : EventAt(owner, p) = B[p[1]].events[p[2]] /\ EventAt(owner, p)' = C[p[1]].events[p[2]]
  BY <1>4, <1>5 DEF EventAt
<1>11. new \in Places(owner)' /\ EventAt(owner, new)' = routed
  <2>1. L + 1 \in DOMAIN C /\ C[L + 1].from = owner /\ k + 1 \in DOMAIN C[L + 1].events
    BY <1>1, <1>6, <1>7, <1>7a
  <2>2. new \in Places(owner)'
    BY <1>0, <1>9, <2>1
  <2>3. C[new[1]].events[new[2]] = routed
    BY <1>0, <1>6, <1>7, <1>7a
  <2>4. QED BY <1>10, <2>2, <2>3
<1>12. \A p \in Places(owner) : p \in Places(owner)' /\ EventAt(owner, p)' = EventAt(owner, p)
  <2> SUFFICES ASSUME NEW p \in Places(owner)
               PROVE  p \in Places(owner)' /\ EventAt(owner, p)' = EventAt(owner, p)
    OBVIOUS
  <2>1. p = <<p[1], p[2]>> /\ p[1] \in 1..(L + 1) /\ B[p[1]].from = owner /\ p[2] \in DOMAIN B[p[1]].events
    BY <1>6, <1>8
  <2>2. /\ C[p[1]].from = owner /\ p[2] \in DOMAIN C[p[1]].events
        /\ C[p[1]].events[p[2]] = B[p[1]].events[p[2]]
    <3>1. CASE p[1] \in 1..L
      BY <1>6, <2>1, <3>1
    <3>2. CASE p[1] = L + 1
      <4>1. p[2] \in 1..k /\ p[2] \in 1..(k + 1)
        BY <1>1, <1>6, <1>7, <1>7a, <2>1, <3>2
      <4>2. C[p[1]].events = longer /\ B[p[1]].events = last /\ C[p[1]].from = owner
        BY ONLY <1>7, <1>7a, <3>2
      <4>3. QED BY <1>7a, <4>1, <4>2
    <3>3. QED BY <1>1, <2>1, <3>1, <3>2
  <2>3. QED BY <1>6, <1>9, <1>10, <2>1, <2>2
<1>13. \A p \in Places(owner)' : p = new \/ (p \in Places(owner) /\ Earlier(p, new))
  <2> SUFFICES ASSUME NEW p \in Places(owner)', p # new
               PROVE  p \in Places(owner) /\ Earlier(p, new)
    OBVIOUS
  <2>1. p = <<p[1], p[2]>> /\ p[1] \in 1..(L + 1) /\ C[p[1]].from = owner /\ p[2] \in DOMAIN C[p[1]].events
    BY <1>6, <1>9
  <2>2. CASE p[1] \in 1..L
    <3>1. B[p[1]].from = owner /\ p[2] \in DOMAIN B[p[1]].events
      BY <1>6, <2>1, <2>2
    <3>2. p \in Places(owner)
      BY <1>6, <1>8, <2>1, <3>1
    <3>3. p[1] < new[1]
      BY <1>0, <1>1, <2>2
    <3>4. QED BY <3>2, <3>3 DEF Earlier
  <2>3. CASE p[1] = L + 1
    <3>1. p[2] \in 1..(k + 1) /\ p[2] # k + 1
      BY <1>0, <1>6, <1>7, <1>7a, <2>1, <2>3
    <3>2. p[2] \in 1..k /\ p[2] < k + 1
      BY <1>1, <3>1
    <3>3. p \in Places(owner)
      <4>1. B[p[1]].from = owner /\ p[2] \in DOMAIN B[p[1]].events
        BY <1>6, <1>7, <1>7a, <2>3, <3>2
      <4>2. QED BY <1>6, <1>8, <2>1, <4>1
    <3>4. p[1] = new[1] /\ p[2] < new[2]
      BY <1>0, <2>3, <3>2
    <3>5. QED BY <3>3, <3>4 DEF Earlier
  <2>4. QED BY <1>1, <2>1, <2>2, <2>3
<1>14. /\ \A r \in Destinations : \A p, q \in Places(r) : Earlier(p, q) => EventAt(r, p).id < EventAt(r, q).id
       /\ \A r \in Destinations : \A p \in Places(r) :
            EventAt(r, p).target_owner = r /\ EventAt(r, p).id \in 1..enqueued
       /\ \A id \in 1..enqueued : \E r \in Destinations : \E p \in Places(r) : EventAt(r, p).id = id
       /\ \A r, d \in Destinations : r # d =>
            \A p \in Places(r), q \in Places(d) : EventAt(r, p).id # EventAt(d, q).id
  BY DEF RoutingInv, Orderly
<1>15. ~ Earlier(new, new) /\ \A p \in Places(owner) : ~ Earlier(new, p)
  <2>1. new = <<L + 1, k + 1>>
    BY <1>0
  <2>2. ~ Earlier(new, new)
    BY <1>1, <2>1 DEF Earlier
  <2>3. ASSUME NEW p \in Places(owner) PROVE ~ Earlier(new, p)
    <3>1. p[1] \in 1..(L + 1) /\ p[2] \in DOMAIN B[p[1]].events
      BY <1>6, <1>8
    <3>2. p[1] = L + 1 => p[2] \in 1..k
      BY <1>6, <1>7, <1>7a, <3>1
    <3>3. QED BY <1>1, <2>1, <3>1, <3>2 DEF Earlier
  <2>4. QED BY <2>2, <2>3
<1>16. \A r \in Destinations : \A p, q \in Places(r)' :
         Earlier(p, q) => EventAt(r, p)'.id < EventAt(r, q)'.id
  <2> SUFFICES ASSUME NEW r \in Destinations, NEW p \in Places(r)', NEW q \in Places(r)', Earlier(p, q)
               PROVE  EventAt(r, p)'.id < EventAt(r, q)'.id
    OBVIOUS
  <2>1. CASE r # owner
    BY <1>3, <1>14, <2>1
  <2>2. CASE r = owner /\ q = new
    <3>1. p \in Places(owner)
      BY <1>13, <1>15, <2>2
    <3>2. EventAt(owner, p)' = EventAt(owner, p) /\ EventAt(owner, p).id \in 1..enqueued
      BY <1>12, <1>14, <3>1
    <3>3. EventAt(owner, new)'.id = enqueued + 1
      BY <1>11
    <3>4. QED BY <1>1, <2>2, <3>2, <3>3
  <2>3. CASE r = owner /\ q # new
    <3>1. q \in Places(owner) /\ p \in Places(owner)
      BY <1>13, <1>15, <2>3
    <3>2. QED BY <1>12, <1>14, <2>3, <3>1
  <2>4. QED BY <2>1, <2>2, <2>3
<1>17. \A r \in Destinations : \A p \in Places(r)' :
         /\ EventAt(r, p)'.target_owner = r
         /\ \/ r = owner /\ p = new /\ EventAt(r, p)'.id = enqueued + 1
            \/ p \in Places(r) /\ EventAt(r, p)' = EventAt(r, p)
  <2> SUFFICES ASSUME NEW r \in Destinations, NEW p \in Places(r)'
               PROVE  /\ EventAt(r, p)'.target_owner = r
                      /\ \/ r = owner /\ p = new /\ EventAt(r, p)'.id = enqueued + 1
                         \/ p \in Places(r) /\ EventAt(r, p)' = EventAt(r, p)
    OBVIOUS
  <2>1. CASE r # owner
    BY <1>3, <1>14, <2>1
  <2>2. CASE r = owner /\ p = new
    BY <1>11, <2>2
  <2>3. CASE r = owner /\ p # new
    BY <1>12, <1>13, <1>14, <2>3
  <2>4. QED BY <2>1, <2>2, <2>3
<1>18. \A r \in Destinations : \A p \in Places(r)' :
         EventAt(r, p)'.target_owner = r /\ EventAt(r, p)'.id \in 1..(enqueued + 1)
  <2> SUFFICES ASSUME NEW r \in Destinations, NEW p \in Places(r)'
               PROVE  EventAt(r, p)'.id \in 1..(enqueued + 1)
    BY <1>17
  <2>1. EventAt(r, p)'.id = enqueued + 1 \/ EventAt(r, p)'.id \in 1..enqueued
    BY <1>14, <1>17
  <2>2. QED BY <1>1, <2>1
<1>19. \A id \in 1..(enqueued + 1) : \E r \in Destinations : \E p \in Places(r)' : EventAt(r, p)'.id = id
  <2> SUFFICES ASSUME NEW id \in 1..(enqueued + 1)
               PROVE  \E r \in Destinations : \E p \in Places(r)' : EventAt(r, p)'.id = id
    OBVIOUS
  <2>1. CASE id = enqueued + 1
    BY <1>11, <2>1
  <2>2. CASE id # enqueued + 1
    <3>1. id \in 1..enqueued
      BY <1>1, <2>2
    <3>2. PICK r \in Destinations : \E p \in Places(r) : EventAt(r, p).id = id
      BY <1>14, <3>1
    <3>3. \E p \in Places(r)' : EventAt(r, p)'.id = id
      BY <1>3, <1>12, <3>2
    <3>4. QED BY <3>3
  <2>3. QED BY <2>1, <2>2
<1>20. \A r, d \in Destinations : r # d =>
         \A p \in Places(r)', q \in Places(d)' : EventAt(r, p)'.id # EventAt(d, q)'.id
  <2> SUFFICES ASSUME NEW r \in Destinations, NEW d \in Destinations, r # d,
                      NEW p \in Places(r)', NEW q \in Places(d)'
               PROVE  EventAt(r, p)'.id # EventAt(d, q)'.id
    OBVIOUS
  <2>1. CASE r # owner /\ d # owner
    BY <1>14, <1>17, <2>1
  <2>2. CASE r = owner
    <3>1. q \in Places(d) /\ EventAt(d, q)' = EventAt(d, q) /\ EventAt(d, q).id \in 1..enqueued
      BY <1>14, <1>17, <2>2
    <3>2. CASE EventAt(r, p)'.id = enqueued + 1
      BY <1>1, <3>1, <3>2
    <3>3. CASE p \in Places(r) /\ EventAt(r, p)' = EventAt(r, p)
      BY <1>14, <3>1, <3>3
    <3>4. QED BY <1>17, <3>2, <3>3
  <2>3. CASE d = owner
    <3>1. p \in Places(r) /\ EventAt(r, p)' = EventAt(r, p) /\ EventAt(r, p).id \in 1..enqueued
      BY <1>14, <1>17, <2>3
    <3>2. CASE EventAt(d, q)'.id = enqueued + 1
      BY <1>1, <3>1, <3>2
    <3>3. CASE q \in Places(d) /\ EventAt(d, q)' = EventAt(d, q)
      BY <1>14, <3>1, <3>3
    <3>4. QED BY <1>17, <3>2, <3>3
  <2>4. QED BY <2>1, <2>2, <2>3
<1>21. QED BY <1>16, <1>18, <1>19, <1>20 DEF Orderly, Destinations, Earlier

LEMMA RoutingStarts ==
  ASSUME RoutingInit
  PROVE  RoutingInv
<1>1. RoutingTypeOK
  <2>1. cell_owners \in [{} -> Region] /\ region_cell_events \in [{} -> Seq(RoutedCellEvent) \ {<<>>}]
    BY DEF RoutingInit, EmptyMap
  <2>2. unowned_cell_events \in Seq(RoutedCellEvent) /\ enqueued \in 0..MaxEvents /\ handedOver \in Seq(Batch)
    BY RoutingAssumption DEF RoutingInit
  <2>3. QED BY <2>1, <2>2 DEF RoutingTypeOK
<1>2. IsFiniteSet(DOMAIN region_cell_events)
  BY FS_EmptySet DEF RoutingInit, EmptyMap
<1>3. \A r \in Destinations : Places(r) = {}
  <2> SUFFICES ASSUME NEW r \in Destinations PROVE Places(r) = {}
    OBVIOUS
  <2>1. Queue(r) = <<>>
    BY DEF RoutingInit, Queue, RegionQueue, EmptyMap
  <2>2. Batches(r) = Append(<<>>, [from |-> r, events |-> <<>>])
    BY <2>1 DEF Batches, RoutingInit
  <2>3. DOMAIN Batches(r) = {1} /\ Batches(r)[1] = [from |-> r, events |-> <<>>]
    BY <2>2
  <2>4. \A i \in DOMAIN Batches(r) : DOMAIN Batches(r)[i].events = {}
    BY <2>3
  <2>5. QED BY <2>4 DEF Places
<1>4. enqueued = 0
  BY DEF RoutingInit
<1>5. QED BY <1>1, <1>2, <1>3, <1>4 DEF RoutingInv, Orderly

\* Steps that queue nothing and hand nothing over.
LEMMA EventsStay ==
  ASSUME handedOver \in Seq(Batch), handedOver' = handedOver, \A d \in Destinations : Queue(d)' = Queue(d)
  PROVE  \A d \in Destinations : SameEvents(d)
<1> SUFFICES ASSUME NEW d \in Destinations PROVE SameEvents(d)
  OBVIOUS
<1>1. handedOver' = handedOver \o <<>> /\ <<>> \in Seq(Batch) /\ \A i \in DOMAIN <<>> : <<>>[i].from # d
  OBVIOUS
<1>2. QED BY <1>1, HandingOverKeepsEvents

LEMMA SetOwnerKeeps ==
  ASSUME RoutingInv, NEW cell \in Cell, NEW r \in Region, SetCellOwner(cell, r)
  PROVE  RoutingInv'
<1>1. cell_owners' \in [DOMAIN cell_owners \cup {cell} -> Region] /\ DOMAIN cell_owners \cup {cell} \in SUBSET Cell
  BY RoutingTypeFacts DEF RoutingInv, SetCellOwner, Put
<1>2. UNCHANGED <<region_cell_events, unowned_cell_events, enqueued, handedOver>>
  BY DEF SetCellOwner, queues
<1>3. RoutingTypeOK'
  BY <1>1, <1>2 DEF RoutingInv, RoutingTypeOK
<1>4. \A d \in Destinations : Queue(d)' = Queue(d)
  BY <1>2 DEF Queue, RegionQueue
<1>5. Orderly'
  BY <1>2, <1>4, EventsStay, SameEventsKeepOrder DEF RoutingInv, RoutingTypeOK
<1>6. QED BY <1>2, <1>3, <1>5 DEF RoutingInv

LEMMA ClearOwnerKeeps ==
  ASSUME RoutingInv, NEW cell \in Cell, ClearCellOwner(cell)
  PROVE  RoutingInv'
<1>1. cell_owners' \in [DOMAIN cell_owners \ {cell} -> Region] /\ DOMAIN cell_owners \ {cell} \in SUBSET Cell
  BY RoutingTypeFacts DEF RoutingInv, ClearCellOwner, Drop, Restrict
<1>2. UNCHANGED <<region_cell_events, unowned_cell_events, enqueued, handedOver>>
  BY DEF ClearCellOwner, queues
<1>3. RoutingTypeOK'
  BY <1>1, <1>2 DEF RoutingInv, RoutingTypeOK
<1>4. \A d \in Destinations : Queue(d)' = Queue(d)
  BY <1>2 DEF Queue, RegionQueue
<1>5. Orderly'
  BY <1>2, <1>4, EventsStay, SameEventsKeepOrder DEF RoutingInv, RoutingTypeOK
<1>6. QED BY <1>2, <1>3, <1>5 DEF RoutingInv

LEMMA EnqueueKeeps ==
  ASSUME RoutingInv, NEW source \in Cell, NEW target \in Cell, EnqueueCellEvent(source, target)
  PROVE  RoutingInv'
<1>1. PICK routed : routed = RouteCellEvent(enqueued + 1, source, target)
  OBVIOUS
<1>2. PICK owner : owner = Destination(routed)
  OBVIOUS
<1>3. /\ enqueued < MaxEvents /\ enqueued' = enqueued + 1
      /\ UNCHANGED <<cell_owners, handedOver>>
      /\ enqueued \in 0..MaxEvents /\ MaxEvents \in Nat
  BY RoutingAssumption DEF EnqueueCellEvent, RoutingInv, RoutingTypeOK
<1>4. \A cell : CellOwner(cell) \in Region \cup {NoRegion}
  BY RoutingTypeFacts DEF RoutingInv, CellOwner
<1>5. /\ routed \in RoutedCellEvent /\ routed.id = enqueued + 1
      /\ routed.target_owner = owner /\ owner \in Destinations
  <2>1. enqueued + 1 \in 1..MaxEvents
    BY <1>3
  <2>2. /\ CellOwner(source) \in Region \cup {NoRegion}
        /\ CellOwner(target) \in Region \cup {NoRegion}
    BY <1>4
  <2>3. routed = [id |-> enqueued + 1, source_owner |-> CellOwner(source), target_owner |-> CellOwner(target)]
    BY <1>1 DEF RouteCellEvent
  <2>4. routed \in RoutedCellEvent
    BY <2>1, <2>2, <2>3 DEF RoutedCellEvent
  <2>5. QED BY <1>2, <2>2, <2>3, <2>4 DEF Destination, Destinations
<1>6. NoRegion \notin Region
  BY RoutingTypeFacts DEF RoutingInv
<1>7. CASE owner # NoRegion
  <2>1. /\ region_cell_events' = Put(region_cell_events, owner, Append(RegionQueue(owner), routed))
        /\ unowned_cell_events' = unowned_cell_events
    BY <1>1, <1>2, <1>7 DEF EnqueueCellEvent
  <2>2. owner \in Region /\ Queue(owner) = RegionQueue(owner)
    BY <1>5, <1>7 DEF Destinations, Queue
  <2>3. RegionQueue(owner) \in Seq(RoutedCellEvent)
    BY <1>5, <2>2, RoutingTypeFacts DEF RoutingInv
  <2>4. Append(RegionQueue(owner), routed) \in Seq(RoutedCellEvent) \ {<<>>}
    BY <1>5, <2>3
  <2>5. /\ DOMAIN region_cell_events' = DOMAIN region_cell_events \cup {owner}
        /\ region_cell_events'[owner] = Append(RegionQueue(owner), routed)
        /\ \A d \in DOMAIN region_cell_events : d # owner => region_cell_events'[d] = region_cell_events[d]
        /\ region_cell_events' \in [DOMAIN region_cell_events \cup {owner} -> Seq(RoutedCellEvent) \ {<<>>}]
    <3>1. PICK longer : longer = Append(RegionQueue(owner), routed)
      OBVIOUS
    <3>2. /\ region_cell_events \in [DOMAIN region_cell_events -> Seq(RoutedCellEvent) \ {<<>>}]
          /\ longer \in Seq(RoutedCellEvent) \ {<<>>}
      BY <2>4, <3>1, RoutingTypeFacts DEF RoutingInv
    <3>3. region_cell_events' = [d \in DOMAIN region_cell_events \cup {owner} |->
                                   IF d = owner THEN longer ELSE region_cell_events[d]]
      BY <2>1, <3>1 DEF Put
    <3>4. QED BY <3>1, <3>2, <3>3
  <2>6. DOMAIN region_cell_events \subseteq Region /\ DOMAIN region_cell_events \cup {owner} \in SUBSET Region
    BY <2>2, RoutingTypeFacts DEF RoutingInv
  <2>7. RoutingTypeOK'
    <3>1. \E R \in SUBSET Region : region_cell_events' \in [R -> Seq(RoutedCellEvent) \ {<<>>}]
      BY <2>5, <2>6
    <3>2. \E C \in SUBSET Cell : cell_owners' \in [C -> Region]
      BY <1>3 DEF RoutingInv, RoutingTypeOK
    <3>3. enqueued' \in 0..MaxEvents
      BY <1>3
    <3>4. unowned_cell_events' \in Seq(RoutedCellEvent) /\ handedOver' \in Seq(Batch)
      BY <1>3, <2>1 DEF RoutingInv, RoutingTypeOK
    <3>5. QED BY <3>1, <3>2, <3>3, <3>4 DEF RoutingTypeOK
  <2>8. IsFiniteSet(DOMAIN region_cell_events)'
    BY SMTT(30), <2>5, FS_AddElement DEF RoutingInv
  <2>9. Queue(owner)' = Append(Queue(owner), routed)
    BY <1>7, <2>2, <2>5 DEF Queue, RegionQueue
  <2>10. \A d \in Destinations : d # owner => Queue(d)' = Queue(d)
    BY <2>1, <2>5 DEF Queue, RegionQueue
  <2>11. Orderly'
    BY <1>3, <1>5, <2>9, <2>10, EnqueuedBehind
  <2>12. QED BY <2>7, <2>8, <2>11 DEF RoutingInv
<1>8. CASE owner = NoRegion
  <2>1. /\ unowned_cell_events' = Append(unowned_cell_events, routed)
        /\ region_cell_events' = region_cell_events
    BY <1>1, <1>2, <1>8 DEF EnqueueCellEvent
  <2>2. unowned_cell_events \in Seq(RoutedCellEvent) /\ unowned_cell_events' \in Seq(RoutedCellEvent)
    BY <1>5, <2>1 DEF RoutingInv, RoutingTypeOK
  <2>3. RoutingTypeOK'
    BY <1>3, <2>1, <2>2 DEF RoutingInv, RoutingTypeOK
  <2>4. Queue(owner)' = Append(Queue(owner), routed)
    BY <1>8, <2>1 DEF Queue
  <2>5. \A d \in Destinations : d # owner => Queue(d)' = Queue(d)
    BY <1>8, <2>1 DEF Queue, RegionQueue
  <2>6. Orderly'
    BY <1>3, <1>5, <2>4, <2>5, EnqueuedBehind
  <2>7. QED BY <2>1, <2>3, <2>6 DEF RoutingInv
<1>9. QED BY <1>7, <1>8

LEMMA DrainRegionKeeps ==
  ASSUME RoutingInv, NEW r \in Region, DrainRegionEvents(r)
  PROVE  RoutingInv'
<1>1. /\ HandOver(r, RegionQueue(r)) /\ region_cell_events' = Drop(region_cell_events, {r})
      /\ UNCHANGED <<cell_owners, unowned_cell_events, enqueued>>
  BY DEF DrainRegionEvents
<1>2. r # NoRegion /\ r \in Destinations /\ Queue(r) = RegionQueue(r)
  BY RoutingTypeFacts DEF RoutingInv, Destinations, Queue
<1>3. /\ DOMAIN region_cell_events' = DOMAIN region_cell_events \ {r}
      /\ \A d \in DOMAIN region_cell_events : d # r => region_cell_events'[d] = region_cell_events[d]
      /\ region_cell_events' \in [DOMAIN region_cell_events \ {r} -> Seq(RoutedCellEvent) \ {<<>>}]
      /\ DOMAIN region_cell_events \ {r} \in SUBSET Region
  BY <1>1, RoutingTypeFacts DEF RoutingInv, Drop, Restrict
<1>4. Queue(r)' = <<>> /\ \A d \in Destinations : d # r => Queue(d)' = Queue(d)
  BY <1>1, <1>2, <1>3 DEF Queue, RegionQueue
<1>5. handedOver \in Seq(Batch) /\ Queue(r) \in Seq(RoutedCellEvent) /\ HandOver(r, Queue(r))
  BY <1>1, <1>2, RoutingTypeFacts DEF RoutingInv, RoutingTypeOK
<1>6. handedOver' \in Seq(Batch) /\ \A d \in Destinations : SameEvents(d)
  BY <1>2, <1>4, <1>5, DrainKeepsEvents
<1>7. RoutingTypeOK'
  BY <1>1, <1>3, <1>6 DEF RoutingInv, RoutingTypeOK
<1>8. IsFiniteSet(DOMAIN region_cell_events)'
  BY <1>3, FS_RemoveElement DEF RoutingInv
<1>9. Orderly'
  BY <1>1, <1>6, SameEventsKeepOrder DEF RoutingInv
<1>10. QED BY <1>7, <1>8, <1>9 DEF RoutingInv

LEMMA DispatchKeeps ==
  ASSUME RoutingInv, DispatchRegionEvents
  PROVE  RoutingInv'
<1>1. region_cell_events' = EmptyMap /\ UNCHANGED <<cell_owners, unowned_cell_events, enqueued>>
  BY DEF DispatchRegionEvents
<1>2. handedOver' \in Seq(Batch) /\ \A d \in Destinations : SameEvents(d)
  BY DispatchKeepsEvents
<1>3. region_cell_events' \in [{} -> Seq(RoutedCellEvent) \ {<<>>}] /\ DOMAIN region_cell_events' = {}
  BY <1>1 DEF EmptyMap
<1>4. RoutingTypeOK'
  <2>1. \E R \in SUBSET Region : region_cell_events' \in [R -> Seq(RoutedCellEvent) \ {<<>>}]
    <3>1. {} \in SUBSET Region
      OBVIOUS
    <3>2. QED BY <1>3, <3>1
  <2>2. QED BY <1>1, <1>2, <2>1 DEF RoutingInv, RoutingTypeOK
<1>5. Orderly'
  BY <1>1, <1>2, SameEventsKeepOrder DEF RoutingInv
<1>6. QED BY <1>3, <1>4, <1>5, FS_EmptySet DEF RoutingInv

LEMMA DrainUnownedKeeps ==
  ASSUME RoutingInv, DrainUnownedCellEvents
  PROVE  RoutingInv'
<1>1. /\ HandOver(NoRegion, unowned_cell_events) /\ unowned_cell_events' = <<>>
      /\ UNCHANGED <<cell_owners, region_cell_events, enqueued>>
  BY DEF DrainUnownedCellEvents
<1>2. NoRegion \in Destinations /\ Queue(NoRegion) = unowned_cell_events /\ Queue(NoRegion)' = <<>>
  BY <1>1 DEF Destinations, Queue
<1>3. \A d \in Destinations : d # NoRegion => Queue(d)' = Queue(d)
  BY <1>1 DEF Queue, RegionQueue
<1>4. /\ handedOver \in Seq(Batch) /\ Queue(NoRegion) \in Seq(RoutedCellEvent)
      /\ HandOver(NoRegion, Queue(NoRegion))
  BY <1>1, <1>2, RoutingTypeFacts DEF RoutingInv, RoutingTypeOK
<1>5. handedOver' \in Seq(Batch) /\ \A d \in Destinations : SameEvents(d)
  BY <1>2, <1>3, <1>4, DrainKeepsEvents
<1>6. unowned_cell_events' \in Seq(RoutedCellEvent)
  BY <1>1
<1>7. RoutingTypeOK'
  BY <1>1, <1>5, <1>6 DEF RoutingInv, RoutingTypeOK
<1>8. Orderly'
  BY <1>1, <1>5, SameEventsKeepOrder DEF RoutingInv
<1>9. QED BY <1>1, <1>7, <1>8 DEF RoutingInv

(* The invariant of routing: the events handed over and queued, destination  *)
(* by destination, are those enqueued, in that order and at no two           *)
(* destinations.                                                             *)
THEOREM RoutingSpecInv == RoutingSpec => []RoutingInv
<1>1. RoutingInit => RoutingInv
  BY RoutingStarts
<1>2. RoutingInv /\ [RoutingNext]_routingVars => RoutingInv'
  <2> SUFFICES ASSUME RoutingInv, [RoutingNext]_routingVars PROVE RoutingInv'
    OBVIOUS
  <2>1. CASE UNCHANGED routingVars
    <3>1. UNCHANGED <<cell_owners, region_cell_events, unowned_cell_events, enqueued, handedOver>>
      BY <2>1 DEF routingVars, queues
    <3>2. RoutingTypeOK' /\ IsFiniteSet(DOMAIN region_cell_events)'
      BY <3>1 DEF RoutingInv, RoutingTypeOK
    <3>3. \A d \in Destinations : Queue(d)' = Queue(d)
      BY <3>1 DEF Queue, RegionQueue
    <3>4. Orderly'
      BY <3>1, <3>3, EventsStay, SameEventsKeepOrder DEF RoutingInv, RoutingTypeOK
    <3>5. QED BY <3>2, <3>4 DEF RoutingInv
  <2>2. CASE \E cell \in Cell, r \in Region : SetCellOwner(cell, r)
    BY <2>2, SetOwnerKeeps
  <2>3. CASE \E cell \in Cell : ClearCellOwner(cell)
    BY <2>3, ClearOwnerKeeps
  <2>4. CASE \E source, target \in Cell : EnqueueCellEvent(source, target)
    BY <2>4, EnqueueKeeps
  <2>5. CASE \E r \in Region : DrainRegionEvents(r)
    BY <2>5, DrainRegionKeeps
  <2>6. CASE DispatchRegionEvents
    BY <2>6, DispatchKeeps
  <2>7. CASE DrainUnownedCellEvents
    BY <2>7, DrainUnownedKeeps
  <2>8. QED BY <2>1, <2>2, <2>3, <2>4, <2>5, <2>6, <2>7 DEF RoutingNext
<1>3. QED BY <1>1, <1>2, PTL DEF RoutingSpec

(* Every reachable state is well typed; above all no region has an empty     *)
(* queue, so that none is handed an empty batch.                             *)
THEOREM RoutingTypeCorrect == RoutingSpec => []RoutingTypeOK
<1>1. RoutingInv => RoutingTypeOK
  BY DEF RoutingInv
<1>2. QED BY <1>1, RoutingSpecInv, PTL

(* Every event reaches, or waits for, the owner its route names, whatever    *)
(* owners cells get while it is queued.                                      *)
THEOREM EventsGoWhereRouted == RoutingSpec => []GoesWhereRouted
<1>1. RoutingInv => GoesWhereRouted
  BY DEF RoutingInv, Orderly, GoesWhereRouted
<1>2. QED BY <1>1, RoutingSpecInv, PTL

(* No drain or dispatch loses, repeats or reorders the events of a           *)
(* destination, for any cells, regions and number of events.                 *)
THEOREM EventsArriveOnceInOrder == RoutingSpec => []OnceAndInOrder
<1>1. RoutingInv => OnceAndInOrder
  <2> SUFFICES ASSUME Orderly PROVE OnceAndInOrder
    BY DEF RoutingInv
  <2>1. ASSUME NEW id \in 1..enqueued
        PROVE Cardinality({r \in Destinations : \E p \in Places(r) : EventAt(r, p).id = id}) = 1
    <3>1. PICK r \in Destinations : \E p \in Places(r) : EventAt(r, p).id = id
      BY DEF Orderly
    <3>2. \A d \in Destinations : (\E p \in Places(d) : EventAt(d, p).id = id) => d = r
      BY <3>1 DEF Orderly
    <3>3. {d \in Destinations : \E p \in Places(d) : EventAt(d, p).id = id} = {r}
      BY <3>1, <3>2
    <3>4. QED BY <3>3, FS_Singleton
  <2>2. QED BY <2>1 DEF Orderly, OnceAndInOrder
<1>2. QED BY <1>1, RoutingSpecInv, PTL

-------------------------------------------------------------------------------
(* The grid *)

LEMMA CellDivision ==
  ASSUME NEW n \in Int, NEW m \in Int
  PROVE  /\ n \div CellSize \in Int
         /\ n <= m => n \div CellSize <= m \div CellSize
<1>1. CellSize \in Nat \ {0}
  BY GridAssumption
<1>2. QED BY <1>1

LEMMA CellNumberType ==
  ASSUME NEW n \in Int
  PROVE  CellNumber(n) \in MinCell..MaxCell
<1>1. n \div CellSize \in Int
  BY CellDivision
<1>2. QED BY <1>1, GridAssumption DEF CellNumber

LEMMA CellNumberMonotonic ==
  ASSUME NEW n \in Int, NEW m \in Int, n <= m
  PROVE  CellNumber(n) <= CellNumber(m)
<1>1. PICK p, q : p = n \div CellSize /\ q = m \div CellSize
  OBVIOUS
<1>2. p \in Int /\ q \in Int /\ p <= q
  BY <1>1, CellDivision
<1>3. /\ CellNumber(n) = CASE p < MinCell -> MinCell [] p > MaxCell -> MaxCell [] OTHER -> p
      /\ CellNumber(m) = CASE q < MinCell -> MinCell [] q > MaxCell -> MaxCell [] OTHER -> q
  BY <1>1 DEF CellNumber
<1>4. QED BY <1>2, <1>3, GridAssumption

LEMMA SquareBounds ==
  ASSUME NEW n \in Int, NEW r \in Nat, n * n <= r * r
  PROVE  -r <= n /\ n <= r
<1>1. ASSUME n > r PROVE FALSE
  <2>1. n * n > r * r
    BY <1>1
  <2>2. n * n \in Int /\ r * r \in Int
    OBVIOUS
  <2>3. QED BY <2>1, <2>2
<1>2. ASSUME -n > r PROVE FALSE
  <2>1. PICK m \in Int : m = -n
    OBVIOUS
  <2>2. m * m = n * n
    BY <2>1
  <2>3. m * m > r * r
    BY <1>2, <2>1
  <2>4. n * n \in Int /\ r * r \in Int
    OBVIOUS
  <2>5. QED BY <2>2, <2>3, <2>4
<1>3. QED BY <1>1, <1>2

LEMMA SquareType ==
  ASSUME NEW n \in Int
  PROVE  n * n \in Nat
OBVIOUS


\* How many keys of a map have each value
Counts(h) ==
  [n \in {h[e] : e \in DOMAIN h} |-> Cardinality({e \in DOMAIN h : h[e] = n})]

LEMMA DropIs ==
  ASSUME NEW h, NEW e
  PROVE  /\ DOMAIN Drop(h, {e}) = DOMAIN h \ {e}
         /\ \A d \in DOMAIN h \ {e} : Drop(h, {e})[d] = h[d]
         /\ Drop(h, {e}) = [d \in DOMAIN h \ {e} |-> h[d]]
BY DEF Drop, Restrict

LEMMA PutIs ==
  ASSUME NEW h, NEW e, NEW n
  PROVE  /\ DOMAIN Put(h, e, n) = DOMAIN h \cup {e}
         /\ \A d \in DOMAIN h : d # e => Put(h, e, n)[d] = h[d]
         /\ Put(h, e, n)[e] = n
         /\ Put(h, e, n) = [d \in DOMAIN h \cup {e} |-> IF d = e THEN n ELSE h[d]]
BY DEF Put

LEMMA CountsAre ==
  ASSUME NEW h, IsFiniteSet(DOMAIN h)
  PROVE  /\ DOMAIN Counts(h) = {h[e] : e \in DOMAIN h}
         /\ \A n \in DOMAIN Counts(h) :
              /\ Counts(h)[n] = Cardinality({e \in DOMAIN h : h[e] = n})
              /\ Counts(h)[n] \in Nat \ {0}
<1>1. /\ DOMAIN Counts(h) = {h[e] : e \in DOMAIN h}
      /\ \A n \in DOMAIN Counts(h) : Counts(h)[n] = Cardinality({e \in DOMAIN h : h[e] = n})
  BY DEF Counts
<1>2. ASSUME NEW e \in DOMAIN h
      PROVE  Cardinality({d \in DOMAIN h : h[d] = h[e]}) \in Nat \ {0}
  <2>1. /\ {d \in DOMAIN h : h[d] = h[e]} \subseteq DOMAIN h
        /\ e \in {d \in DOMAIN h : h[d] = h[e]}
    OBVIOUS
  <2>2. PICK S : S = {d \in DOMAIN h : h[d] = h[e]}
    OBVIOUS
  <2>3. IsFiniteSet(S) /\ S # {}
    BY <2>1, <2>2, FS_Subset
  <2>4. Cardinality(S) \in Nat /\ Cardinality(S) # 0
    BY <2>3, FS_CardinalityType, FS_EmptySet
  <2>5. QED BY <2>2, <2>4
<1>3. QED BY <1>1, <1>2

LEMMA CountsOneLess ==
  ASSUME NEW h, IsFiniteSet(DOMAIN h), NEW e \in DOMAIN h
  PROVE  Decremented(Counts(h), h[e]) = Counts(Drop(h, {e}))
<1> DEFINE k == Drop(h, {e})
           Left(n) == {d \in DOMAIN h : h[d] = n}
<1>1. /\ DOMAIN k = DOMAIN h \ {e}
      /\ \A d \in DOMAIN k : k[d] = h[d]
  BY DEF Drop, Restrict
<1>2. IsFiniteSet(DOMAIN k)
  BY <1>1, FS_RemoveElement
<1>3. PICK C, D : C = Counts(h) /\ D = Counts(k)
  OBVIOUS
<1>4. /\ C = [n \in {h[d] : d \in DOMAIN h} |-> Cardinality(Left(n))]
      /\ D = [n \in {k[d] : d \in DOMAIN k} |-> Cardinality({d \in DOMAIN k : k[d] = n})]
  BY <1>3 DEF Counts
<1>5. \A n \in DOMAIN C : C[n] \in Nat \ {0} /\ C[n] = Cardinality(Left(n))
  <2>1. \A n \in DOMAIN C : C[n] \in Nat \ {0}
    BY <1>3, CountsAre
  <2>2. QED BY <1>4, <2>1
<1>6. \A n \in DOMAIN D : D[n] \in Nat \ {0} /\ D[n] = Cardinality({d \in DOMAIN k : k[d] = n})
  <2>1. \A n \in DOMAIN D : D[n] \in Nat \ {0}
    <3> HIDE DEF k
    <3> QED BY <1>2, <1>3, CountsAre
  <2>2. QED BY <1>4, <2>1
<1>7. \A n : n # h[e] => {d \in DOMAIN k : k[d] = n} = Left(n)
  BY <1>1
<1>8. {d \in DOMAIN k : k[d] = h[e]} = Left(h[e]) \ {e}
  BY <1>1
<1>9. e \in Left(h[e]) /\ IsFiniteSet(Left(h[e]))
  BY FS_Subset
<1>10. Cardinality(Left(h[e]) \ {e}) = Cardinality(Left(h[e])) - 1
  <2> HIDE DEF Left
  <2> QED BY <1>9, FS_RemoveElement
<1>11. \A n \in DOMAIN C : n # h[e] => n \in DOMAIN D /\ D[n] = C[n]
  <2> SUFFICES ASSUME NEW n \in DOMAIN C, n # h[e] PROVE n \in DOMAIN D /\ D[n] = C[n]
    OBVIOUS
  <2>1. PICK d \in DOMAIN h : h[d] = n
    BY <1>4
  <2>2. d \in DOMAIN k /\ k[d] = n
    BY <1>1, <2>1
  <2>3. n \in DOMAIN D
    BY <1>4, <2>2
  <2>4. {x \in DOMAIN k : k[x] = n} = Left(n)
    BY <1>7
  <2> HIDE DEF Left, k
  <2>5. QED BY <1>5, <1>6, <2>3, <2>4
<1>12. DOMAIN D \subseteq DOMAIN C /\ h[e] \in DOMAIN C
  BY <1>1, <1>4
<1>13. h[e] \in DOMAIN D <=> Left(h[e]) # {e}
  <2>1. h[e] \in DOMAIN D <=> \E d \in DOMAIN k : k[d] = h[e]
    BY <1>4
  <2>2. QED BY <1>1, <1>9, <2>1
<1>14. CASE Left(h[e]) = {e}
  <2>1. C[h[e]] = 1
    BY <1>5, <1>12, <1>14, FS_Singleton
  <2>2. Decremented(C, h[e]) = [n \in DOMAIN C \ {h[e]} |-> C[n]]
    BY <2>1 DEF Decremented, Drop, Restrict
  <2>3. DOMAIN D = DOMAIN C \ {h[e]}
    BY <1>11, <1>12, <1>13, <1>14
  <2>4. D = [n \in DOMAIN D |-> D[n]]
    BY <1>4
  <2> HIDE DEF Left, k
  <2>5. QED BY <1>3, <1>11, <2>2, <2>3, <2>4 DEF k
<1>15. CASE Left(h[e]) # {e}
  <2>1. h[e] \in DOMAIN D
    BY <1>13, <1>15
  <2>2. D[h[e]] = C[h[e]] - 1
    BY <1>5, <1>6, <1>8, <1>10, <1>12, <2>1
  <2>3. C[h[e]] > 1
    <3>1. C[h[e]] \in Nat /\ D[h[e]] \in Nat \ {0}
      BY <1>5, <1>6, <1>12, <2>1
    <3>2. QED BY <2>2, <3>1
  <2>4. Decremented(C, h[e]) = [C EXCEPT ![h[e]] = @ - 1]
    BY <1>12, <2>3 DEF Decremented
  <2>5. DOMAIN D = DOMAIN C
    BY <1>11, <1>12, <2>1
  <2>6. D = [n \in DOMAIN D |-> D[n]] /\ C = [n \in DOMAIN C |-> C[n]]
    BY <1>4
  <2> HIDE DEF Left, k
  <2>7. [C EXCEPT ![h[e]] = @ - 1] = [n \in DOMAIN C |-> IF n = h[e] THEN C[n] - 1 ELSE C[n]]
    BY <2>6
  <2>8. \A n \in DOMAIN C : D[n] = IF n = h[e] THEN C[n] - 1 ELSE C[n]
    BY <1>11, <2>2
  <2>9. D = [n \in DOMAIN C |-> IF n = h[e] THEN C[n] - 1 ELSE C[n]]
    BY <2>5, <2>6, <2>8
  <2>10. QED BY <1>3, <2>4, <2>7, <2>9 DEF k
<1>16. QED BY <1>14, <1>15

LEMMA CountsOneMore ==
  ASSUME NEW h, IsFiniteSet(DOMAIN h), NEW e, e \notin DOMAIN h, NEW n
  PROVE  Incremented(Counts(h), n) = Counts(Put(h, e, n))
<1> DEFINE k == Put(h, e, n)
           Has(m) == {d \in DOMAIN h : h[d] = m}
<1>1. /\ DOMAIN k = DOMAIN h \cup {e}
      /\ \A d \in DOMAIN h : k[d] = h[d]
      /\ k[e] = n
  BY DEF Put
<1>2. IsFiniteSet(DOMAIN k)
  BY <1>1, FS_AddElement
<1>3. PICK C, D : C = Counts(h) /\ D = Counts(k)
  OBVIOUS
<1>4. /\ C = [m \in {h[d] : d \in DOMAIN h} |-> Cardinality(Has(m))]
      /\ D = [m \in {k[d] : d \in DOMAIN k} |-> Cardinality({d \in DOMAIN k : k[d] = m})]
  BY <1>3 DEF Counts
<1>5. \A m \in DOMAIN C : C[m] \in Nat \ {0} /\ C[m] = Cardinality(Has(m))
  BY <1>3, CountsAre
<1>6. \A m : m # n => {d \in DOMAIN k : k[d] = m} = Has(m)
  BY <1>1
<1>7. {d \in DOMAIN k : k[d] = n} = Has(n) \cup {e} /\ e \notin Has(n)
  BY <1>1
<1>8. IsFiniteSet(Has(n)) /\ (n \notin DOMAIN C => Has(n) = {})
  BY <1>4, FS_Subset
<1>9. Cardinality(Has(n) \cup {e}) = Cardinality(Has(n)) + 1
  <2> HIDE DEF Has
  <2> QED BY <1>7, <1>8, FS_AddElement
<1>10. DOMAIN D = DOMAIN C \cup {n}
  <2>1. DOMAIN D = {k[d] : d \in DOMAIN h \cup {e}} /\ DOMAIN C = {h[d] : d \in DOMAIN h}
    BY <1>1, <1>4
  <2> HIDE DEF k
  <2>2. QED BY <1>1, <2>1
<1>11. \A m \in DOMAIN C : m # n => D[m] = C[m]
  BY <1>4, <1>6, <1>10
<1>12. D[n] = IF n \in DOMAIN C THEN C[n] + 1 ELSE 1
  <2>1. D[n] = Cardinality(Has(n)) + 1
    BY <1>4, <1>7, <1>9, <1>10
  <2> HIDE DEF Has, k
  <2>2. CASE n \in DOMAIN C
    BY <1>5, <2>1, <2>2
  <2>3. CASE n \notin DOMAIN C
    BY <1>8, <2>1, <2>3, FS_EmptySet
  <2>4. QED BY <2>2, <2>3
<1>13. D = [m \in DOMAIN D |-> D[m]]
  BY <1>4
<1> HIDE DEF Has, k
<1>14. Incremented(C, n) = [m \in DOMAIN C \cup {n} |-> IF m = n THEN (IF n \in DOMAIN C THEN C[n] + 1 ELSE 1) ELSE C[m]]
  BY DEF Incremented, Put
<1>15. D = [m \in DOMAIN C \cup {n} |-> IF m = n THEN (IF n \in DOMAIN C THEN C[n] + 1 ELSE 1) ELSE C[m]]
  BY <1>10, <1>11, <1>12, <1>13
<1>16. QED BY <1>3, <1>14, <1>15 DEF k


\* The cell of each entity, and the index it makes
Where(f) == [e \in DOMAIN f |-> f[e].cell]
OnAxis(where, a) == [e \in DOMAIN where |-> where[e][a]]
CellsOf(where) ==
  [cell \in {where[e] : e \in DOMAIN where} |-> {e \in DOMAIN where : where[e] = cell}]
LayersOf(where) == [a \in Axis |-> Counts(OnAxis(where, a))]

GridInv ==
  /\ GridTypeOK
  /\ IsFiniteSet(DOMAIN entities)
  /\ \A e \in DOMAIN entities : entities[e].cell = CellForPosition(entities[e].position)
  /\ cells = CellsOf(Where(entities))
  /\ layers = LayersOf(Where(entities))

LEMMA LeavingCells ==
  ASSUME NEW where, cells = CellsOf(where), NEW e \in DOMAIN where
  PROVE  CellsWithout(e, where[e]) = CellsOf(Drop(where, {e}))
<1> DEFINE home == where[e]
<1>1. PICK left : left = Drop(where, {e})
  OBVIOUS
<1>2. DOMAIN left = DOMAIN where \ {e} /\ \A d \in DOMAIN left : left[d] = where[d]
  BY <1>1 DEF Drop, Restrict
<1>3. /\ DOMAIN cells = {where[d] : d \in DOMAIN where}
      /\ \A cell \in DOMAIN cells : cells[cell] = {d \in DOMAIN where : where[d] = cell}
      /\ cells = [cell \in DOMAIN cells |-> cells[cell]]
  BY DEF CellsOf
<1>4. CellsOf(left) = [cell \in {left[d] : d \in DOMAIN left} |-> {d \in DOMAIN left : left[d] = cell}]
  BY DEF CellsOf
<1>5. home \in DOMAIN cells /\ Members(home) = cells[home] /\ e \in cells[home]
  BY <1>3 DEF Members
<1>6. \A cell \in DOMAIN cells : cell # home =>
         cell \in {left[d] : d \in DOMAIN left} /\ {d \in DOMAIN left : left[d] = cell} = cells[cell]
  BY <1>2, <1>3
<1>7. {d \in DOMAIN left : left[d] = home} = cells[home] \ {e}
  BY <1>2, <1>3, <1>5
<1>8. {left[d] : d \in DOMAIN left} \subseteq DOMAIN cells
  BY <1>2, <1>3
<1>9. home \in {left[d] : d \in DOMAIN left} <=> cells[home] \ {e} # {}
  BY <1>7
<1> HIDE DEF home
<1>10. CASE cells[home] \subseteq {e}
  <2>1. CellsWithout(e, home) = [cell \in DOMAIN cells \ {home} |-> cells[cell]]
    BY <1>5, <1>10 DEF CellsWithout, Drop, Restrict
  <2>2. {left[d] : d \in DOMAIN left} = DOMAIN cells \ {home}
    BY <1>6, <1>8, <1>9, <1>10
  <2>3. CellsOf(left) = [cell \in DOMAIN cells \ {home} |-> cells[cell]]
    BY <1>4, <1>6, <2>2
  <2>4. QED BY <1>1, <2>1, <2>3 DEF home
<1>11. CASE ~ (cells[home] \subseteq {e})
  <2>1. CellsWithout(e, home) = [cells EXCEPT ![home] = @ \ {e}]
    BY <1>5, <1>11 DEF CellsWithout
  <2>2. [cells EXCEPT ![home] = @ \ {e}] =
           [cell \in DOMAIN cells |-> IF cell = home THEN cells[cell] \ {e} ELSE cells[cell]]
    BY <1>3
  <2>3. cells[home] \ {e} # {}
    BY <1>11
  <2>4. {left[d] : d \in DOMAIN left} = DOMAIN cells
    BY <1>5, <1>6, <1>8, <1>9, <2>3
  <2>5. CellsOf(left) =
           [cell \in DOMAIN cells |-> IF cell = home THEN cells[cell] \ {e} ELSE cells[cell]]
    BY <1>4, <1>6, <1>7, <2>4
  <2>6. QED BY <1>1, <2>1, <2>2, <2>5 DEF home
<1>12. QED BY <1>10, <1>11

LEMMA LeavingLayers ==
  ASSUME NEW where, IsFiniteSet(DOMAIN where), NEW e \in DOMAIN where,
         cells = CellsOf(where), layers = LayersOf(where)
  PROVE  LayersWithout(e, where[e]) = LayersOf(Drop(where, {e}))
<1>1. e \in Members(where[e])
  BY DEF Members, CellsOf
<1>2. LayersWithout(e, where[e]) = [a \in Axis |-> Decremented(layers[a], where[e][a])]
  BY <1>1 DEF LayersWithout
<1>3. ASSUME NEW a \in Axis
      PROVE  Decremented(layers[a], where[e][a]) = Counts(OnAxis(Drop(where, {e}), a))
  <2>1. PICK h : h = OnAxis(where, a)
    OBVIOUS
  <2>2. DOMAIN h = DOMAIN where /\ h[e] = where[e][a]
    BY <2>1 DEF OnAxis
  <2>3. layers[a] = Counts(h)
    BY <2>1 DEF LayersOf
  <2>4. Decremented(Counts(h), h[e]) = Counts(Drop(h, {e}))
    BY <2>2, CountsOneLess
  <2>5. Drop(h, {e}) = OnAxis(Drop(where, {e}), a)
    BY <2>1 DEF OnAxis, Drop, Restrict
  <2>6. QED BY <2>2, <2>3, <2>4, <2>5
<1>4. QED BY <1>2, <1>3 DEF LayersOf

LEMMA EnteringCells ==
  ASSUME NEW where, NEW e, e \notin DOMAIN where, NEW cell
  PROVE  CellsWith(CellsOf(where), e, cell) = CellsOf(Put(where, e, cell))
<1>1. PICK more : more = Put(where, e, cell)
  OBVIOUS
<1>2. /\ DOMAIN more = DOMAIN where \cup {e} /\ more[e] = cell
      /\ \A d \in DOMAIN where : more[d] = where[d]
  BY <1>1 DEF Put
<1>3. PICK map : map = CellsOf(where)
  OBVIOUS
<1>4. /\ DOMAIN map = {where[d] : d \in DOMAIN where}
      /\ \A c \in DOMAIN map : map[c] = {d \in DOMAIN where : where[d] = c}
  BY <1>3 DEF CellsOf
<1>5. CellsOf(more) = [c \in {more[d] : d \in DOMAIN more} |-> {d \in DOMAIN more : more[d] = c}]
  BY DEF CellsOf
<1>6. {more[d] : d \in DOMAIN more} = DOMAIN map \cup {cell}
  BY <1>2, <1>4
<1>7. \A c \in DOMAIN map : c # cell => {d \in DOMAIN more : more[d] = c} = map[c]
  BY <1>2, <1>4
<1>8. {d \in DOMAIN more : more[d] = cell} = {e} \cup (IF cell \in DOMAIN map THEN map[cell] ELSE {})
  BY <1>2, <1>4
<1>9. CellsWith(map, e, cell) =
        [c \in DOMAIN map \cup {cell} |->
           IF c = cell THEN {e} \cup (IF cell \in DOMAIN map THEN map[cell] ELSE {}) ELSE map[c]]
  BY DEF CellsWith, Put
<1>10. QED BY <1>1, <1>3, <1>5, <1>6, <1>7, <1>8, <1>9

LEMMA EnteringLayers ==
  ASSUME NEW where, IsFiniteSet(DOMAIN where), NEW e, e \notin DOMAIN where, NEW cell
  PROVE  LayersWith(LayersOf(where), cell) = LayersOf(Put(where, e, cell))
<1>1. ASSUME NEW a \in Axis
      PROVE  Incremented(LayersOf(where)[a], cell[a]) = Counts(OnAxis(Put(where, e, cell), a))
  <2>1. PICK h : h = OnAxis(where, a)
    OBVIOUS
  <2>2. DOMAIN h = DOMAIN where
    BY <2>1 DEF OnAxis
  <2>3. LayersOf(where)[a] = Counts(h)
    BY <2>1 DEF LayersOf
  <2>4. Incremented(Counts(h), cell[a]) = Counts(Put(h, e, cell[a]))
    BY <2>2, CountsOneMore
  <2>5. Put(h, e, cell[a]) = OnAxis(Put(where, e, cell), a)
    BY <2>1 DEF OnAxis, Put
  <2>6. QED BY <2>3, <2>4, <2>5
<1>2. LayersWith(LayersOf(where), cell) = [a \in Axis |-> Incremented(LayersOf(where)[a], cell[a])]
  BY DEF LayersWith
<1>3. QED BY <1>1, <1>2 DEF LayersOf

LEMMA ReindexKeeps ==
  ASSUME NEW where, IsFiniteSet(DOMAIN where), cells = CellsOf(where), layers = LayersOf(where),
         NEW e, NEW cell, NEW old, old = {where[d] : d \in DOMAIN where \cap {e}},
         Reindex(e, old, cell)
  PROVE  cells' = CellsOf(Put(where, e, cell)) /\ layers' = LayersOf(Put(where, e, cell))
<1>1. CASE e \notin DOMAIN where
  <2>1. old = {}
    BY <1>1
  <2>2. cells' = CellsWith(cells, e, cell) /\ layers' = LayersWith(layers, cell)
    BY <2>1 DEF Reindex
  <2>3. QED BY <1>1, <2>2, EnteringCells, EnteringLayers
<1>2. CASE e \in DOMAIN where
  <2>1. old = {where[e]} /\ old # {}
    BY <1>2
  <2>2. /\ cells' = CellsWith(CellsWithout(e, where[e]), e, cell)
        /\ layers' = LayersWith(LayersWithout(e, where[e]), cell)
    BY <2>1 DEF Reindex
  <2>3. PICK left : left = Drop(where, {e})
    OBVIOUS
  <2>4. CellsWithout(e, where[e]) = CellsOf(left) /\ LayersWithout(e, where[e]) = LayersOf(left)
    BY <1>2, <2>3, LeavingCells, LeavingLayers
  <2>5. e \notin DOMAIN left /\ IsFiniteSet(DOMAIN left)
    BY <2>3, FS_RemoveElement DEF Drop, Restrict
  <2>6. cells' = CellsOf(Put(left, e, cell)) /\ layers' = LayersOf(Put(left, e, cell))
    BY <2>2, <2>4, <2>5, EnteringCells, EnteringLayers
  <2>7. Put(left, e, cell) = Put(where, e, cell)
    BY <1>2, <2>3 DEF Put, Drop, Restrict
  <2>8. QED BY <2>6, <2>7
<1>3. QED BY <1>1, <1>2

LEMMA PositionCell ==
  ASSUME NEW p \in Point
  PROVE  CellForPosition(p) \in CellCoord /\ \A a \in Axis : p[a] \in Int
<1>1. p.x \in Int /\ p.y \in Int /\ p.z \in Int
  BY GridAssumption
<1>2. \A a \in Axis : p[a] \in Int
  BY <1>1 DEF Axis
<1>3. QED BY <1>2, CellNumberType DEF CellForPosition, CellCoord

\* The types of the index are those of what makes it.
LEMMA IndexTypes ==
  ASSUME NEW where, NEW S \in SUBSET Entity, IsFiniteSet(S), where \in [S -> CellCoord],
         NEW cs, cs = CellsOf(where), NEW ls, ls = LayersOf(where)
  PROVE  /\ DOMAIN cs \subseteq CellCoord
         /\ \A cell \in DOMAIN cs : cs[cell] \in (SUBSET Entity) \ {{}}
         /\ \A a \in Axis :
              /\ DOMAIN ls[a] \subseteq MinCell..MaxCell
              /\ \A n \in DOMAIN ls[a] : ls[a][n] \in Nat \ {0}
<1>1. DOMAIN cs \subseteq CellCoord /\ \A cell \in DOMAIN cs : cs[cell] \in (SUBSET Entity) \ {{}}
  BY DEF CellsOf
<1>2. ASSUME NEW a \in Axis
      PROVE  /\ DOMAIN ls[a] \subseteq MinCell..MaxCell
             /\ \A n \in DOMAIN ls[a] : ls[a][n] \in Nat \ {0}
  <2>1. PICK h : h = OnAxis(where, a)
    OBVIOUS
  <2>2. DOMAIN h = S /\ \A e \in S : h[e] = where[e][a]
    BY <2>1 DEF OnAxis
  <2>3. \A e \in S : where[e][a] \in MinCell..MaxCell
    BY DEF CellCoord
  <2>4. ls[a] = Counts(h)
    BY <2>1 DEF LayersOf
  <2>5. /\ DOMAIN Counts(h) = {h[e] : e \in DOMAIN h}
        /\ \A n \in DOMAIN Counts(h) : Counts(h)[n] \in Nat \ {0}
    BY <2>2, CountsAre
  <2>6. QED BY <2>2, <2>3, <2>4, <2>5
<1>3. QED BY <1>1, <1>2

LEMMA GridTypeFacts ==
  ASSUME GridTypeOK
  PROVE  /\ DOMAIN observers \subseteq Client
         /\ observers \in [DOMAIN observers -> [position : Point, radius : Radius]]
         /\ DOMAIN entities \subseteq Entity
         /\ entities \in [DOMAIN entities -> [position : Point, cell : CellCoord]]
BY DEF GridTypeOK

\* What is to be shown of a step: the index follows the entities.
LEMMA GridInvFollows ==
  ASSUME NEW C \in SUBSET Client, observers' \in [C -> [position : Point, radius : Radius]],
         NEW S \in SUBSET Entity, IsFiniteSet(S),
         entities' \in [S -> [position : Point, cell : CellCoord]],
         \A e \in S : entities'[e].cell = CellForPosition(entities'[e].position),
         cells' = CellsOf(Where(entities')), layers' = LayersOf(Where(entities'))
  PROVE  GridInv'
<1>1. PICK where : where = Where(entities')
  OBVIOUS
<1>2. where \in [S -> CellCoord]
  BY <1>1 DEF Where
<1>3. /\ DOMAIN cells' \subseteq CellCoord
      /\ \A cell \in DOMAIN cells' : cells'[cell] \in (SUBSET Entity) \ {{}}
      /\ \A a \in Axis :
           /\ DOMAIN layers'[a] \subseteq MinCell..MaxCell
           /\ \A n \in DOMAIN layers'[a] : layers'[a][n] \in Nat \ {0}
  BY <1>1, <1>2, IndexTypes
<1>4. GridTypeOK'
  BY <1>3 DEF GridTypeOK
<1>5. DOMAIN entities' = S
  OBVIOUS
<1>6. cells' = CellsOf(Where(entities))' /\ layers' = LayersOf(Where(entities))'
  BY DEF CellsOf, LayersOf, Where, OnAxis, Counts, Axis
<1>7. QED BY <1>4, <1>5, <1>6 DEF GridInv, CellForPosition, CellNumber, Axis

LEMMA GridStarts ==
  ASSUME GridInit
  PROVE  GridInv
<1>1. observers \in [{} -> [position : Point, radius : Radius]]
  BY DEF GridInit, EmptyMap
<1>2. entities \in [{} -> [position : Point, cell : CellCoord]] /\ DOMAIN entities = {}
  BY DEF GridInit, EmptyMap
<1>3. {} \in SUBSET Client /\ {} \in SUBSET Entity /\ IsFiniteSet({})
  BY FS_EmptySet
<1>4. cells = CellsOf(Where(entities))
  BY DEF GridInit, EmptyMap, CellsOf, Where
<1>5. layers = LayersOf(Where(entities))
  <2>1. \A a \in Axis : Counts(OnAxis(Where(entities), a)) = EmptyMap
    BY <1>2 DEF Counts, OnAxis, Where, EmptyMap
  <2>2. QED BY <2>1 DEF GridInit, LayersOf
<1>6. DOMAIN cells = {} /\ \A a \in Axis : DOMAIN layers[a] = {}
  BY DEF GridInit, EmptyMap
<1>7. GridTypeOK
  <2>1. \E C \in SUBSET Client : observers \in [C -> [position : Point, radius : Radius]]
    BY <1>1, <1>3
  <2>2. \E S \in SUBSET Entity : entities \in [S -> [position : Point, cell : CellCoord]]
    BY <1>2, <1>3
  <2>3. QED BY <1>6, <2>1, <2>2 DEF GridTypeOK
<1>8. QED BY <1>2, <1>3, <1>4, <1>5, <1>7 DEF GridInv

\* Steps of observers
LEMMA ObserversMayChange ==
  ASSUME GridInv, UNCHANGED <<entities, cells, layers>>,
         \E C \in SUBSET Client : observers' \in [C -> [position : Point, radius : Radius]]
  PROVE  GridInv'
<1>1. PICK C \in SUBSET Client : observers' \in [C -> [position : Point, radius : Radius]]
  OBVIOUS
<1>2. PICK S \in SUBSET Entity : S = DOMAIN entities
  BY GridTypeFacts DEF GridInv
<1>3. /\ IsFiniteSet(S) /\ entities' \in [S -> [position : Point, cell : CellCoord]]
      /\ \A e \in S : entities'[e].cell = CellForPosition(entities'[e].position)
      /\ cells' = CellsOf(Where(entities')) /\ layers' = LayersOf(Where(entities'))
  BY <1>2, GridTypeFacts DEF GridInv
<1>4. QED BY <1>1, <1>3, GridInvFollows

LEMMA ObserverStepKeeps ==
  ASSUME GridInv, NEW c \in Client, NEW p \in Point, NEW r \in Radius,
         InsertObserver(c, p, r) \/ UpdateObserver(c, p, r) \/ RemoveObserver(c)
  PROVE  GridInv'
<1>1. /\ observers \in [DOMAIN observers -> [position : Point, radius : Radius]]
      /\ DOMAIN observers \subseteq Client
  BY GridTypeFacts DEF GridInv
<1>2. UNCHANGED <<entities, cells, layers>>
  BY DEF InsertObserver, UpdateObserver, RemoveObserver, index
<1>3. CASE InsertObserver(c, p, r)
  <2>1. observers' \in [DOMAIN observers \cup {c} -> [position : Point, radius : Radius]]
    BY <1>1, <1>3 DEF InsertObserver, Put
  <2>2. DOMAIN observers \cup {c} \in SUBSET Client
    BY <1>1
  <2>3. QED BY <1>2, <2>1, <2>2, ObserversMayChange
<1>4. CASE UpdateObserver(c, p, r)
  <2>1. observers' \in [DOMAIN observers -> [position : Point, radius : Radius]]
    BY <1>1, <1>4 DEF UpdateObserver
  <2>2. QED BY <1>1, <1>2, <2>1, ObserversMayChange
<1>5. CASE RemoveObserver(c)
  <2>1. observers' \in [DOMAIN observers \ {c} -> [position : Point, radius : Radius]]
    BY <1>1, <1>5 DEF RemoveObserver, Drop, Restrict
  <2>2. DOMAIN observers \ {c} \in SUBSET Client
    BY <1>1
  <2>3. QED BY <1>2, <2>1, <2>2, ObserversMayChange
<1>6. QED BY <1>3, <1>4, <1>5

\* An entity put at p and indexed there, whether or not it was known
LEMMA PlacedAndIndexed ==
  ASSUME GridInv, NEW e \in Entity, NEW p \in Point, observers' = observers,
         entities' = Put(entities, e, [position |-> p, cell |-> CellForPosition(p)]),
         \/ Reindex(e, {Where(entities)[d] : d \in DOMAIN Where(entities) \cap {e}}, CellForPosition(p))
         \/ e \in DOMAIN entities /\ entities[e].cell = CellForPosition(p) /\ UNCHANGED index
  PROVE  GridInv'
<1> DEFINE S == DOMAIN entities
           cell == CellForPosition(p)
<1>1. /\ S \subseteq Entity /\ IsFiniteSet(S)
      /\ entities \in [S -> [position : Point, cell : CellCoord]]
      /\ \A d \in S : entities[d].cell = CellForPosition(entities[d].position)
      /\ cells = CellsOf(Where(entities)) /\ layers = LayersOf(Where(entities))
  BY GridTypeFacts DEF GridInv
<1>2. [position |-> p, cell |-> cell] \in [position : Point, cell : CellCoord]
  BY PositionCell
<1>3. PICK C \in SUBSET Client : observers' \in [C -> [position : Point, radius : Radius]]
  BY DEF GridInv, GridTypeOK
<1>4. PICK where : where = Where(entities)
  OBVIOUS
<1>5. DOMAIN where = S /\ \A d \in S : where[d] = entities[d].cell
  BY <1>4 DEF Where
<1>6. /\ S \cup {e} \in SUBSET Entity /\ IsFiniteSet(S \cup {e})
      /\ entities' \in [S \cup {e} -> [position : Point, cell : CellCoord]]
      /\ \A d \in S \cup {e} :
           entities'[d] = IF d = e THEN [position |-> p, cell |-> cell] ELSE entities[d]
  <2>1. IsFiniteSet(S \cup {e})
    BY <1>1, FS_AddElement
  <2> HIDE DEF cell
  <2>2. QED BY <1>1, <1>2, <2>1 DEF Put, cell
<1>7. \A d \in S \cup {e} : entities'[d].cell = CellForPosition(entities'[d].position)
  BY <1>1, <1>6
<1>8. Where(entities') = Put(where, e, cell)
  <2>1. \A d \in S \cup {e} : entities'[d].cell = IF d = e THEN cell ELSE where[d]
    BY <1>5, <1>6
  <2>2. DOMAIN entities' = S \cup {e}
    BY <1>6
  <2> HIDE DEF cell
  <2>3. Put(where, e, cell) = [d \in S \cup {e} |-> IF d = e THEN cell ELSE where[d]]
    BY <1>5 DEF Put
  <2>4. Where(entities') = [d \in S \cup {e} |-> entities'[d].cell]
    BY <2>2 DEF Where
  <2>5. QED BY <2>1, <2>3, <2>4
<1>9. cells' = CellsOf(Where(entities')) /\ layers' = LayersOf(Where(entities'))
  <2>1. CASE Reindex(e, {where[d] : d \in DOMAIN where \cap {e}}, cell)
    <3>1. PICK old : old = {where[d] : d \in DOMAIN where \cap {e}}
      OBVIOUS
    <3>2. cells = CellsOf(where) /\ layers = LayersOf(where) /\ IsFiniteSet(DOMAIN where)
      BY <1>1, <1>4, <1>5
    <3>3. cells' = CellsOf(Put(where, e, cell)) /\ layers' = LayersOf(Put(where, e, cell))
      BY <2>1, <3>1, <3>2, ReindexKeeps
    <3>4. QED BY <1>8, <3>3
  <2>2. CASE e \in DOMAIN entities /\ entities[e].cell = CellForPosition(p) /\ UNCHANGED index
    <3>1. Put(where, e, cell) = where
      BY <1>4, <1>5, <2>2 DEF Put, Where
    <3>2. QED BY <1>1, <1>4, <1>8, <2>2, <3>1 DEF index
  <2>3. QED BY <1>4, <2>1, <2>2
<1>10. QED BY <1>3, <1>6, <1>7, <1>9, GridInvFollows

LEMMA InsertEntityKeeps ==
  ASSUME GridInv, NEW e \in Entity, NEW p \in Point, InsertEntity(e, p)
  PROVE  GridInv'
<1>1. {entities[d].cell : d \in DOMAIN entities \cap {e}} =
        {Where(entities)[d] : d \in DOMAIN Where(entities) \cap {e}}
  BY DEF Where
<1>2. QED BY <1>1, PlacedAndIndexed DEF InsertEntity

LEMMA UpdateEntityKeeps ==
  ASSUME GridInv, NEW e \in Entity, NEW p \in Point, UpdateEntity(e, p)
  PROVE  GridInv'
<1>1. /\ e \in DOMAIN entities /\ observers' = observers
      /\ entities' = [entities EXCEPT ![e] = [position |-> p, cell |-> CellForPosition(p)]]
      /\ IF entities[e].cell = CellForPosition(p)
           THEN UNCHANGED index
           ELSE Reindex(e, {entities[e].cell}, CellForPosition(p))
  BY DEF UpdateEntity
<1>2. entities = [d \in DOMAIN entities |-> entities[d]]
  BY GridTypeFacts DEF GridInv
<1>3. entities' = Put(entities, e, [position |-> p, cell |-> CellForPosition(p)])
  BY <1>1, <1>2 DEF Put
<1>4. {entities[e].cell} = {Where(entities)[d] : d \in DOMAIN Where(entities) \cap {e}}
  BY <1>1 DEF Where
<1>5. QED BY <1>1, <1>3, <1>4, PlacedAndIndexed

LEMMA RemoveEntityKeeps ==
  ASSUME GridInv, NEW e \in Entity, RemoveEntity(e)
  PROVE  GridInv'
<1> DEFINE S == DOMAIN entities
<1>1. /\ e \in S /\ entities' = Drop(entities, {e}) /\ observers' = observers
      /\ cells' = CellsWithout(e, entities[e].cell) /\ layers' = LayersWithout(e, entities[e].cell)
  BY DEF RemoveEntity
<1>2. /\ S \subseteq Entity /\ IsFiniteSet(S)
      /\ entities \in [S -> [position : Point, cell : CellCoord]]
      /\ \A d \in S : entities[d].cell = CellForPosition(entities[d].position)
      /\ cells = CellsOf(Where(entities)) /\ layers = LayersOf(Where(entities))
  BY GridTypeFacts DEF GridInv
<1>3. PICK C \in SUBSET Client : observers' \in [C -> [position : Point, radius : Radius]]
  BY <1>1 DEF GridInv, GridTypeOK
<1>4. PICK where : where = Where(entities)
  OBVIOUS
<1>5. DOMAIN where = S /\ \A d \in S : where[d] = entities[d].cell
  BY <1>4 DEF Where
<1>6. /\ S \ {e} \in SUBSET Entity /\ IsFiniteSet(S \ {e})
      /\ entities' \in [S \ {e} -> [position : Point, cell : CellCoord]]
      /\ \A d \in S \ {e} : entities'[d] = entities[d]
  <2>1. IsFiniteSet(S \ {e})
    BY <1>2, FS_RemoveElement
  <2>2. QED BY <1>1, <1>2, <2>1 DEF Drop, Restrict
<1>7. \A d \in S \ {e} : entities'[d].cell = CellForPosition(entities'[d].position)
  BY <1>2, <1>6
<1>8. Where(entities') = Drop(where, {e})
  BY <1>1, <1>5 DEF Where, Drop, Restrict
<1>9. /\ CellsWithout(e, where[e]) = CellsOf(Drop(where, {e}))
      /\ LayersWithout(e, where[e]) = LayersOf(Drop(where, {e}))
  BY <1>1, <1>2, <1>4, <1>5, LeavingCells, LeavingLayers
<1>10. cells' = CellsOf(Where(entities')) /\ layers' = LayersOf(Where(entities'))
  BY <1>1, <1>5, <1>8, <1>9
<1>11. QED BY <1>3, <1>6, <1>7, <1>10, GridInvFollows

(* The invariant of the grid: its cells and layers are what its entities make*)
(* them.                                                                     *)
THEOREM GridSpecInv == GridSpec => []GridInv
<1>1. GridInit => GridInv
  BY GridStarts
<1>2. GridInv /\ [GridNext]_gridVars => GridInv'
  <2> SUFFICES ASSUME GridInv, [GridNext]_gridVars PROVE GridInv'
    OBVIOUS
  <2>1. CASE UNCHANGED gridVars
    <3>1. \E C \in SUBSET Client : observers' \in [C -> [position : Point, radius : Radius]]
      BY <2>1 DEF gridVars, GridInv, GridTypeOK
    <3>2. QED BY <2>1, <3>1, ObserversMayChange DEF gridVars
  <2>2. ASSUME NEW c \in Client, NEW p \in Point, NEW r \in Radius,
               InsertObserver(c, p, r) \/ UpdateObserver(c, p, r)
        PROVE  GridInv'
    BY <2>2, ObserverStepKeeps
  <2>3. ASSUME NEW c \in Client, RemoveObserver(c)
        PROVE  GridInv'
    <3>1. observers[c] \in [position : Point, radius : Radius]
      BY <2>3, GridTypeFacts DEF GridInv, RemoveObserver
    <3>2. observers[c].position \in Point /\ observers[c].radius \in Radius
      BY <3>1
    <3>3. QED BY <2>3, <3>2, ObserverStepKeeps
  <2>4. ASSUME NEW e \in Entity, NEW p \in Point, InsertEntity(e, p) \/ UpdateEntity(e, p)
        PROVE  GridInv'
    BY <2>4, InsertEntityKeeps, UpdateEntityKeeps
  <2>5. ASSUME NEW e \in Entity, RemoveEntity(e)
        PROVE  GridInv'
    BY <2>5, RemoveEntityKeeps
  <2>6. QED BY <2>1, <2>2, <2>3, <2>4, <2>5 DEF GridNext
<1>3. QED BY <1>1, <1>2, PTL DEF GridSpec

(* Every reachable state is well typed; above all no cell is empty and no    *)
(* layer counts nobody.                                                      *)
THEOREM GridTypeCorrect == GridSpec => []GridTypeOK
<1>1. GridInv => GridTypeOK
  BY DEF GridInv
<1>2. QED BY <1>1, GridSpecInv, PTL

LEMMA IndexMatches == GridInv => IndexMatchesEntities
<1> SUFFICES ASSUME GridInv PROVE IndexMatchesEntities
  OBVIOUS
<1>1. \A e \in DOMAIN entities : entities[e].cell = CellForPosition(entities[e].position)
  BY DEF GridInv
<1>2. cells = [cell \in {entities[e].cell : e \in DOMAIN entities} |->
                 {e \in DOMAIN entities : entities[e].cell = cell}]
  BY DEF GridInv, CellsOf, Where
<1>3. ASSUME NEW a \in Axis
      PROVE  layers[a] = [n \in {entities[e].cell[a] : e \in DOMAIN entities} |->
                            Cardinality({e \in DOMAIN entities : entities[e].cell[a] = n})]
  BY DEF GridInv, LayersOf, OnAxis, Counts, Where
<1>4. QED BY <1>1, <1>2, <1>3 DEF IndexMatchesEntities

(* The incremental index of cells and layer counts is the one the entities'  *)
(* positions define, after any insertions, moves and removals.               *)
THEOREM IndexIsTrue == GridSpec => []IndexMatchesEntities
BY GridSpecInv, IndexMatches, PTL

\* An entity in the sphere is within the radius on each axis.
LEMMA SphereInBox ==
  ASSUME NEW p \in Point, NEW q \in Point, NEW r \in Radius,
         DistanceSquared(p, q) <= Square(r), NEW a \in Axis
  PROVE  p[a] - r <= q[a] /\ q[a] <= p[a] + r
<1>1. /\ p.x \in Int /\ p.y \in Int /\ p.z \in Int /\ q.x \in Int /\ q.y \in Int /\ q.z \in Int
      /\ r \in Nat
  BY GridAssumption
<1>2. PICK x \in Int, y \in Int, z \in Int : x = p.x - q.x /\ y = p.y - q.y /\ z = p.z - q.z
  BY <1>1
<1>3. x * x + y * y + z * z <= r * r
  BY <1>2 DEF DistanceSquared, Square
<1>4. x * x \in Nat /\ y * y \in Nat /\ z * z \in Nat /\ r * r \in Nat
  BY <1>1, SquareType
<1>5. x * x <= r * r /\ y * y <= r * r /\ z * z <= r * r
  BY <1>3, <1>4
<1>6. -r <= x /\ x <= r /\ -r <= y /\ y <= r /\ -r <= z /\ z <= r
  BY <1>1, <1>5, SquareBounds
<1>7. CASE a = "x"
  BY <1>1, <1>2, <1>6, <1>7
<1>8. CASE a = "y"
  BY <1>1, <1>2, <1>6, <1>8
<1>9. CASE a = "z"
  BY <1>1, <1>2, <1>6, <1>9
<1>10. QED BY <1>7, <1>8, <1>9 DEF Axis

LEMMA QueriesAreExact == GridInv => QueryIsExact
<1> SUFFICES ASSUME GridInv, NEW c \in DOMAIN observers
             PROVE  /\ QueryObserver(c) = {e \in DOMAIN entities : InSphere(c, e)}
                    /\ \A one, other \in CellsVisited(c) :
                         one # other => Pushed(c, one) \cap Pushed(c, other) = {}
  BY DEF QueryIsExact
<1>1. /\ DOMAIN cells = {entities[e].cell : e \in DOMAIN entities}
      /\ \A cell \in DOMAIN cells : cells[cell] = {e \in DOMAIN entities : entities[e].cell = cell}
      /\ \A a \in Axis : DOMAIN layers[a] = {entities[e].cell[a] : e \in DOMAIN entities}
      /\ \A e \in DOMAIN entities : entities[e].cell = CellForPosition(entities[e].position)
  BY ZenonT(60), IndexMatches DEF IndexMatchesEntities
<1>2. /\ observers[c].position \in Point /\ observers[c].radius \in Radius
      /\ \A e \in DOMAIN entities : entities[e].position \in Point
  BY GridTypeFacts DEF GridInv
<1>3. ASSUME NEW e \in DOMAIN entities, InSphere(c, e)
      PROVE  e \in QueryObserver(c)
  <2> DEFINE cell == entities[e].cell
  <2>1. cell \in DOMAIN cells /\ e \in cells[cell]
    BY <1>1
  <2>2. ASSUME NEW a \in Axis
        PROVE  cell[a] \in LayersInRange(c, a)
    <3>1. PICK o, at, r : o = observers[c].position[a] /\ at = entities[e].position[a] /\ r = observers[c].radius
      OBVIOUS
    <3>2. o - r <= at /\ at <= o + r
      BY <1>2, <1>3, <3>1, SphereInBox DEF InSphere
    <3>3. o \in Int /\ at \in Int /\ r \in Nat
      BY <1>2, <3>1, PositionCell, GridAssumption
    <3>4. CellNumber(o - r) <= CellNumber(at) /\ CellNumber(at) <= CellNumber(o + r)
      BY <3>2, <3>3, CellNumberMonotonic
    <3>5. cell[a] = CellNumber(at)
      BY <1>1, <3>1 DEF CellForPosition
    <3>6. CellNumber(at) \in Int /\ CellNumber(o - r) \in Int /\ CellNumber(o + r) \in Int
      BY <3>3, CellNumberType, GridAssumption
    <3>7. cell[a] \in CellNumber(o - r)..CellNumber(o + r)
      BY <3>4, <3>5, <3>6
    <3>8. cell[a] \in DOMAIN layers[a]
      BY <1>1
    <3>9. QED BY <3>1, <3>7, <3>8 DEF LayersInRange
  <2>3. cell \in CellsVisited(c)
    BY <2>1, <2>2 DEF CellsVisited
  <2>4. e \in Pushed(c, cell)
    BY <1>3, <2>1 DEF Pushed
  <2>5. QED BY <2>3, <2>4 DEF QueryObserver
<1>4. ASSUME NEW e \in QueryObserver(c)
      PROVE  e \in DOMAIN entities /\ InSphere(c, e)
  BY DEF QueryObserver, Pushed
<1>5. ASSUME NEW one \in CellsVisited(c), NEW other \in CellsVisited(c), one # other
      PROVE  Pushed(c, one) \cap Pushed(c, other) = {}
  <2>1. cells[one] = {e \in DOMAIN entities : entities[e].cell = one}
    BY <1>1 DEF CellsVisited
  <2>2. cells[other] = {e \in DOMAIN entities : entities[e].cell = other}
    BY <1>1 DEF CellsVisited
  <2>3. QED BY <1>5, <2>1, <2>2 DEF Pushed
<1>6. QED BY <1>3, <1>4, <1>5

(* A query by way of layers and cells finds the entities in the sphere, none *)
(* missing and none twice, for any positions, radii, cell size and saturation*)
(* bounds.                                                                   *)
THEOREM QueriesFindAll == GridSpec => []QueryIsExact
BY GridSpecInv, QueriesAreExact, PTL

-------------------------------------------------------------------------------
(* The composition *)

(* What is explored together is, of each part, a behaviour of its own: so all *)
(* that is proved of the parts holds in the composition, and what a run finds *)
(* of it is found of the parts.                                               *)
THEOREM PartsKeepApart ==
  PartsSpec => LodSpec /\ SchedulerSpec /\ LagSpec /\ RoutingSpec /\ GridSpec
<1>1. PartsInit => LodInit /\ SchedulerInit /\ LagInit /\ RoutingInit /\ GridInit
  BY DEF PartsInit
<1> DEFINE Step == [PartsNext]_<<part, lodVars, schedulerVars, lagVars, routingVars, gridVars>>
<1>2. Step => [LodNext]_lodVars
  BY DEF PartsNext
<1>3. Step => [SchedulerNext]_schedulerVars
  BY DEF PartsNext
<1>4. Step => [LagNext]_lagVars
  BY DEF PartsNext
<1>5. Step => [RoutingNext]_routingVars
  BY DEF PartsNext
<1>6. Step => [GridNext]_gridVars
  BY DEF PartsNext
<1>7. QED
  BY <1>1, <1>2, <1>3, <1>4, <1>5, <1>6, PTL
  DEF PartsSpec, LodSpec, SchedulerSpec, LagSpec, RoutingSpec, GridSpec

\* All the parts keep their types.
THEOREM PartsTypeCorrect == PartsSpec => []PartsTypeOK
<1>1. SchedulerInv => SchedulerTypeOK
  BY DEF SchedulerInv
<1>2. LodTypeOK /\ SchedulerTypeOK /\ LagTypeOK /\ RoutingTypeOK /\ GridTypeOK => PartsTypeOK
  BY DEF PartsTypeOK
<1>3. QED
  BY <1>1, <1>2, PartsKeepApart, LodTypeCorrect, SchedulerSpecInv, LagTypeCorrect,
     RoutingTypeCorrect, GridTypeCorrect, PTL
===============================================================================
