SPECIFICATION Spec
CONSTANTS
  MinuteTicks = 1
  Jobs = {1}
  Definitions <- OneShot
  Lanes = {l1, l2}
  MaxRunAttempts = 1
  MaxDeliveryAttempts = 2
  MaxTime = 1
  MaxRuns = 1
  MaxManual = 0
  MaxFrames = 2
  MaxRevision = 2
  MaxDefers = 0
  MaxCrashes = 0
  MaxStalls = 1
  MaxUpdates = 1
SYMMETRY LaneSymmetry
INVARIANTS
  NoDuplicateFrame
  FramesInOrder
PROPERTIES
  LedgerSpec
