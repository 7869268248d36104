SPECIFICATION StarvationSpec
CONSTANTS
  InterestRadius = 4
  FullDistance = 1
  ReducedDistance = 2
  Hysteresis = 1
  Client = {c1}
  Entity = {1, 2, 3}
  Budget = 4
  ByteChoices <- MCByteChoices
  Priorities <- MCPriorities
  MaxScore = 8
INVARIANTS
  WithinBudget
  WaitIsBounded
PROPERTY
  NoStarvation
