----------------------------- MODULE TickScheduler -----------------------------
(***************************************************************************)
(* gridwake-server's TickScheduler: elapsed wall-clock time turned into    *)
(* fixed ticks.  Partial intervals accumulate; a step never runs more than *)
(* MaxTicksPerStep ticks, and time it could not run then is dropped.       *)
(***************************************************************************)
EXTENDS Integers

CONSTANTS
  TickInterval,      \* in the model's unit of time
  MaxTicksPerStep,
  StepTimes,         \* how long the caller may take between two steps
  MaxElapsed         \* bound of the model on the time elapsed

ASSUME SchedulerAssumption ==
  /\ TickInterval \in Nat \ {0}
  /\ MaxTicksPerStep \in Nat \ {0}
  /\ StepTimes \subseteq Nat
  /\ MaxElapsed \in Nat

VARIABLES
  accumulated,   \* TickScheduler::accumulated
  step,          \* SchedulerStep, what the last advance returned
  ticks,         \* history: ticks run so far
  elapsed,       \* history: time passed to advance so far
  dropped        \* history: whether any step was saturated

schedulerVars == <<accumulated, step, ticks, elapsed, dropped>>

SchedulerTypeOK ==
  /\ accumulated \in Nat
  /\ step \in [ticks_due : 0..MaxTicksPerStep, saturated : BOOLEAN]
  /\ ticks \in Nat
  /\ elapsed \in 0..MaxElapsed
  /\ dropped \in BOOLEAN

SchedulerInit ==
  /\ accumulated = 0
  /\ step = [ticks_due |-> 0, saturated |-> FALSE]
  /\ ticks = 0
  /\ elapsed = 0
  /\ dropped = FALSE

\* how often the loop takes an interval off the time it is given
TicksDue(time) ==
  IF time \div TickInterval < MaxTicksPerStep THEN time \div TickInterval
                                              ELSE MaxTicksPerStep

Remainder(time) == time - TicksDue(time) * TickInterval

\* Mutant: reaching the cap counts as saturation.
SaturatedAtCap(time) == TicksDue(time) = MaxTicksPerStep

Saturated(time) == Remainder(time) >= TickInterval

\* Mutant: time that could not be run is kept.
KeptAfterSaturation(time) == Remainder(time)

\* Mutant: partial intervals are dropped.
KeptNever(time) == 0

KeptAfter(time) == IF Saturated(time) THEN 0 ELSE Remainder(time)

Advance(t) ==
  /\ elapsed + t <= MaxElapsed
  /\ accumulated' = KeptAfter(accumulated + t)
  /\ step' = [ticks_due |-> TicksDue(accumulated + t), saturated |-> Saturated(accumulated + t)]
  /\ ticks' = ticks + step'.ticks_due
  /\ elapsed' = elapsed + t
  /\ dropped' = (dropped \/ step'.saturated)

SchedulerNext == \E t \in StepTimes : Advance(t)

SchedulerSpec == SchedulerInit /\ [][SchedulerNext]_schedulerVars

-------------------------------------------------------------------------------

\* No due tick is left for a later step.
NoBacklog == accumulated < TickInterval

(* The ticks run are those of the time elapsed: exactly, however the time was *)
(* cut into steps, unless a step was saturated; and never more than those.    *)
(* No step leaves a due tick behind, to be run in a burst by a later one.     *)
KeepsPace ==
  /\ ticks <= elapsed \div TickInterval
  /\ ~ dropped => ticks = elapsed \div TickInterval
  /\ NoBacklog

(* Only a step longer than all the ticks it may run is saturated: callers     *)
(* that keep their steps within the cap never lose time.                      *)
ShortStepsLoseNothing ==
  [][elapsed' - elapsed <= MaxTicksPerStep * TickInterval => ~ step'.saturated]_schedulerVars
===============================================================================
