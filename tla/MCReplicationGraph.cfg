SPECIFICATION Spec
CONSTANTS
  InterestRadius = 4
  FullDistance = 1
  ReducedDistance = 2
  Hysteresis = 1
  Client = {c1}
  Entity = {1, 2}
  Budget = 4
  ByteChoices <- MCByteChoices
  Priorities = {1}
  MaxScore = 2
  MaxGeneration = 3
INVARIANTS
  TypeOK
  EntriesFollowGraph
PROPERTIES
  ImplementsReplication
