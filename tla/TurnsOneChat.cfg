SPECIFICATION Spec
CONSTANTS
  c1 = c1
  Chats = {c1}
  Tomos = {t1}
  NoTomo = NoTomo
  Updates = {1, 2}
  ChatOf <- OneChat
  Workers = {w1, w2}
  Scheduler = sched
  MaxAttempts = 2
  MaxFrames = 2
  MaxGenerations = 3
  MaxAutomations = 1
  MaxRestarts = 1
SYMMETRY WorkerSymmetry
INVARIANTS
  NoMessageStranded
  NoDuplicateBubble
  OneLateBubble
  OneBubbleMissing
PROPERTIES
  LedgerSpec
  HandoverIsRecorded
