SPECIFICATION Spec
CONSTANTS
  InterestRadius = 4
  FullDistance = 1
  ReducedDistance = 2
  Hysteresis = 1
  Client = {c1}
  Entity = {1}
  Payload <- MCPayload
  PayloadBytes <- MCPayloadBytes
  Position = {0, 9}
  Variants <- MCVariants
  Priorities = {1}
  Budget = 3
  HistoryCapacity = 2
  MaxTick = 3
  MaxScore = 3
INVARIANT
  PayloadsWithinBudget
