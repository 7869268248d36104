SPECIFICATION MovesWithLosses
CONSTANTS
  InterestRadius = 4
  FullDistance = 1
  ReducedDistance = 2
  Hysteresis = 1
  Client = {c1}
  Entity = {1, 2}
  Payload <- MCPayload
  PayloadBytes <- MCPayloadBytes
  Variants <- MCVariants
  Priorities = {1}
  Position = {0, 4, 9}
  Budget = 5
  HistoryCapacity = 2
  MaxTick = 4
  MaxScore = 5
INVARIANT
  RepairedByLaterDeltas
