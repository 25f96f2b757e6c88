SPECIFICATION Spec
CONSTANTS
  MaxSegments = 3
  MaxRounds = 2
  MaxCalls = 2
  MaxVisible = 3
  MaxFrames = 2
  MaxRepairs = 1
  TurnFrames = 3
  MaxBatch = 2
  Tools <- MCTools
INVARIANTS
  ShownTurnsComplete
CHECK_DEADLOCK FALSE
