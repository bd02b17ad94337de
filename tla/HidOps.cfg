\* Two brokers contend for the device, two operations wait for one of them,
\* over as many sessions as the two ids last; no input reports.
CONSTANTS
  Files = {f1, f2}
  Handles = {h1, h2}
  NumSlots = 2
  Cap = 1
  MaxId = 2
  MaxReport = 0
  Kinds = {"get", "send", "unsafe"}
  Verdicts = {"ok", "mismatch", "error"}
  SubmitMayFail = FALSE
  StartMayFail = TRUE
  Overlapped = TRUE
  NULL = NULL
SPECIFICATION Spec
SYMMETRY Symmetric
INVARIANTS
  TypeOK
  ExactlyOneHolder
  NothingPendingAtDelete
  HonestOutcome
  OwnedCallStaysOwned
PROPERTIES
  DeliveredOnceInOrder
