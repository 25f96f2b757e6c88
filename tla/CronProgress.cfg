SPECIFICATION FairSpec
CONSTANTS
  MinuteTicks = 1
  Jobs = {1}
  Definitions <- EndingOrOneShot
  Lanes = {"lane"}
  MaxRunAttempts = 2
  MaxDeliveryAttempts = 2
  MaxTime = 2
  MaxRuns = 3
  MaxManual = 0
  MaxFrames = 1
  MaxRevision = 3
  MaxDefers = 1
  MaxCrashes = 1
  MaxStalls = 0
  MaxUpdates = 1
PROPERTIES
  WorkSettles
  JobsEnd
