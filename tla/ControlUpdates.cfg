SPECIFICATION Spec
CONSTANTS
  Callers <- MCCallers
  Updates <- MCUpdates
  ChatOf <- MCChatOf
  KindOf <- MCKindOf
  MaxAttempts = 2
  MaxCrashes = 1
  MaxBootstraps = 2
  MaxIssued = 1
  MaxFailures = 2
  NoCaller = NoCaller
  NoUpdate = NoUpdate
INVARIANTS
  ControlsInOrder
  CredentialsAreKept
PROPERTIES
  ControlsSettle
CHECK_DEADLOCK FALSE
