SPECIFICATION PartsSpec
CONSTANTS
  InterestRadius = 12
  FullDistance = 4
  ReducedDistance = 8
  Hysteresis = 2
  TickInterval = 3
  MaxTicksPerStep = 2
  StepTimes = {0, 1, 2, 3, 4, 5, 6, 7, 9, 11}
  MaxElapsed = 24
  Client = {c1}
  Entity = {1, 2, 3}
  Position = {0, 1}
  LagHistoryTicks = 2
  MaxTick = 4
  Cell = {cellA, cellB}
  Region = {1, 2}
  MaxEvents = 3
  Point <- MCPoint
  Radius = {0, 3, 7}
  CellSize = 3
  MinCell <- MCMinCell
  MaxCell = 2
INVARIANTS
  PartsTypeOK
  SettledAfterOneSend
  KeepsPace
  RewindIsTruth
  NoGaps
  OnceAndInOrder
  GoesWhereRouted
  IndexMatchesEntities
  QueryIsExact
PROPERTIES
  NoFlapping
  ShortStepsLoseNothing
