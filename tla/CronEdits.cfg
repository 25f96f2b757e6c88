SPECIFICATION Spec
CONSTANTS
  MinuteTicks = 1
  Jobs = {1}
  Definitions <- Mixed
  Lanes = {"lane"}
  MaxRunAttempts = 1
  MaxDeliveryAttempts = 1
  MaxTime = 2
  MaxRuns = 2
  MaxManual = 1
  MaxFrames = 1
  MaxRevision = 3
  MaxDefers = 0
  MaxCrashes = 0
  MaxStalls = 0
  MaxUpdates = 1
INVARIANTS
  ArithmeticIsRight
  WorkIsCurrent
  SendIsFenced
PROPERTIES
  OccurrenceRunOnce
  OccurrenceInTime
