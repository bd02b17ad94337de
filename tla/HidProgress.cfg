\* One broker, two handles that compete for one table entry (DEVICE_BUSY).
CONSTANTS
  Files = {f1}
  Handles = {h1, h2}
  NumSlots = 1
  Cap = 1
  MaxId = 2
  MaxReport = 0
  Kinds = {"unsupported", "get"}
  Verdicts = {"ok", "error"}
  SubmitMayFail = FALSE
  StartMayFail = TRUE
  Overlapped = FALSE
  NULL = NULL
SPECIFICATION FairSpec
INVARIANTS
  OwnerIsLive
PROPERTIES
  OperationsComplete
  LifetimeReleased
  ImplementsOperations
