------------------------------ MODULE NetworkLod ------------------------------
(***************************************************************************)
(* The network level of detail (LOD) of an entity as one client sees it:   *)
(* the three tiers of gridwake-replication and the distance policy of      *)
(* gridwake-server that picks one.                                         *)
(*                                                                         *)
(* The code compares squared f32 distances with squared products of the    *)
(* interest radius and a ratio clamped to [0, 1].  Both sides are          *)
(* non-negative, so comparing the distances themselves decides the same;   *)
(* a ratio times the radius is an integer here, one of 0..InterestRadius.  *)
(***************************************************************************)
EXTENDS Integers

CONSTANTS
  InterestRadius,   \* radius of the observer's sphere of interest
  FullDistance,     \* full_distance_ratio    * InterestRadius
  ReducedDistance,  \* reduced_distance_ratio * InterestRadius
  Hysteresis        \* hysteresis_ratio       * InterestRadius

\* normalized_ratio leaves each ratio in [0, 1]
ASSUME NetworkLodAssumption ==
  /\ InterestRadius \in Nat
  /\ FullDistance \in 0..InterestRadius
  /\ ReducedDistance \in 0..InterestRadius
  /\ Hysteresis \in 0..InterestRadius

Lod == {"Full", "Reduced", "Minimal"}
NoLod == "None"

DetailRank(lod) ==
  CASE lod = "Full" -> 3
    [] lod = "Reduced" -> 2
    [] lod = "Minimal" -> 1
    [] OTHER -> 0

\* The tiers tried for a desired tier, best first, are those of no higher rank.
LodFallbacks(lod) == {l \in Lod : DetailRank(l) <= DetailRank(lod)}

\* The entity's configured tier is an upper bound on the selected one.
CapNetworkLod(cap, lod) == IF DetailRank(cap) < DetailRank(lod) THEN cap ELSE lod

-------------------------------------------------------------------------------

\* Ratios are clamped again after hysteresis is added or subtracted.
Threshold(d) ==
  IF d < 0 THEN 0 ELSE IF d > InterestRadius THEN InterestRadius ELSE d

\* reduced_ratio is raised to full_ratio when the two are configured crosswise
ReducedBand ==
  IF ReducedDistance < FullDistance THEN FullDistance ELSE ReducedDistance

ClassifyNetworkLod(d) ==
  CASE d <= FullDistance -> "Full"
    [] d > FullDistance /\ d <= ReducedBand -> "Reduced"
    [] OTHER -> "Minimal"

\* (reduced_ratio - hysteresis).max(full_ratio)
MinimalBand ==
  IF ReducedBand - Hysteresis < FullDistance THEN FullDistance
                                             ELSE ReducedBand - Hysteresis

LodAfterFull(d) ==
  CASE d <= Threshold(FullDistance + Hysteresis) -> "Full"
    [] /\ d > Threshold(FullDistance + Hysteresis)
       /\ d <= Threshold(ReducedBand + Hysteresis) -> "Reduced"
    [] OTHER -> "Minimal"

\* Mutant: an entity sent Reduced is compared with the wrong band.
LodAfterReducedWrongBand(d) ==
  CASE d <= Threshold(ReducedBand) -> "Full"
    [] d > Threshold(ReducedBand + Hysteresis) -> "Minimal"
    [] OTHER -> "Reduced"

\* Mutant: hysteresis is added where it has to be subtracted.
LodAfterReducedWrongSign(d) ==
  CASE d <= Threshold(FullDistance + Hysteresis) -> "Full"
    [] d > Threshold(ReducedBand + Hysteresis) -> "Minimal"
    [] OTHER -> "Reduced"

LodAfterReduced(d) ==
  CASE d <= Threshold(FullDistance - Hysteresis) -> "Full"
    [] /\ d > Threshold(FullDistance - Hysteresis)
       /\ d > Threshold(ReducedBand + Hysteresis) -> "Minimal"
    [] OTHER -> "Reduced"

LodAfterMinimal(d) ==
  CASE d > MinimalBand -> "Minimal"
    [] d <= MinimalBand /\ d <= Threshold(FullDistance - Hysteresis) -> "Full"
    [] OTHER -> "Reduced"

\* lod_for_distance_squared_with_previous; previous is NoLod before the first send.
PolicyLod(distance, previous) ==
  LET d == IF distance > InterestRadius THEN InterestRadius ELSE distance
  IN  CASE InterestRadius = 0 -> "Full"
        [] InterestRadius > 0 /\ previous = "Full" -> LodAfterFull(d)
        [] InterestRadius > 0 /\ previous = "Reduced" -> LodAfterReduced(d)
        [] InterestRadius > 0 /\ previous = "Minimal" -> LodAfterMinimal(d)
        [] OTHER -> ClassifyNetworkLod(d)

\* What advance_tick asks the replication graph to send: policy, then cap.
DesiredLod(cap, distance, previous) ==
  CapNetworkLod(cap, PolicyLod(distance, previous))
===============================================================================
