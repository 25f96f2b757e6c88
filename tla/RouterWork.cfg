SPECIFICATION Spec
CONSTANTS
  MaxGens = 2
  Workers <- MCWorkers
  Sessions <- MCSessions
  QueueSize = 1
  MaxFailures = 1
  MaxCrashes = 1
  NoWorker = NoWorker
INVARIANTS
  SessionsAreAccountedFor
PROPERTIES
  CancelledSessionsEnd
CHECK_DEADLOCK FALSE
