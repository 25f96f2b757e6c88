SPECIFICATION Spec
CONSTANTS
  a = a
  b = b
  k1 = k1
  k2 = k2
  Owners = {a, b}
  Calls = {k1, k2}
  SenderOf <- BothOfA
  SourceOf <- TwoSources
  KindOf <- AskAndTell
  Threads = {t1}
  OffersOf <- FullOrReply
  Callers = {c1}
  Workers = {w1, w2}
  MaxAttempts = 2
  MaxThreadRequests = 2
  MaxRequests = 2
  MaxEvents = 3
INVARIANTS NoticeShownOnce AnsweredInOrder WaitsForDecision
PROPERTIES DisclosureIsAuthorized SettledStays NoticeIsWanted
CONSTRAINTS OneWorkerForTwo LapseIsEvent
SYMMETRY WorkerSymmetry
