SPECIFICATION Spec
CONSTANTS
  Procs <- MCProcs
  Facts <- MCFacts
  Deletable <- MCDeletable
  MaxFailures = 1
  None = None
  MaxSnapshot = 2
  MaxTroubles = 1
  NoBox = NoBox
INVARIANTS
  ReportedIsDurable
  DeletedIsGone
PROPERTIES
  SandboxIsServed
CHECK_DEADLOCK FALSE
