\* One broker after another on one file, one operation, and a ring of two
\* reports that three reports wrap around.
CONSTANTS
  Files = {f1}
  Handles = {h1}
  NumSlots = 1
  Cap = 2
  MaxId = 1
  MaxReport = 3
  Kinds = {"get"}
  Verdicts = {"ok", "error"}
  SubmitMayFail = TRUE
  StartMayFail = TRUE
  Overlapped = FALSE
  NULL = NULL
SPECIFICATION FairSpec
INVARIANTS
  RingHoldsBacklog
  SingleSubmitter
  SubmitOnlyWhenAsked
PROPERTIES
  ReportsDrain
