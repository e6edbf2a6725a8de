CONSTANTS
  MaxReloads = 2
  MaxRevision = 2
  MaxRequests = 1
  MaxSettings = 1
  MaxMessages = 1
  MaxFailures = 1
SPECIFICATION Spec
CHECK_DEADLOCK FALSE
INVARIANT StopReturnsControl
