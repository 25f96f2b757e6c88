SPECIFICATION Spec
CONSTANTS
  Generations <- MCGenerations
  Revision <- MCRevision
  BurstOf <- MCBurstOf
  MaxOverlap = 2
  MaxBubbles = 1
  Mem <- MCMem
  Controls <- MCControls
  MaxGovernance = 1
  MaxPending = 1
  MaxPurges = 2
  Windows <- MCWindows
  None = None
  Gone = Gone
  Fence = Fence
INVARIANTS
  NothingFromUnfinished
  ShownIsStored
PROPERTIES
  WithdrawnStaysWithdrawn
  FencedTurnsAreSilent
CHECK_DEADLOCK FALSE
