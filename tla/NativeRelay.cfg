CONSTANTS
  Ops = {o1, o2}
  PipeLines = 1
  NULL = NULL
SPECIFICATION Spec
INVARIANTS
  TypeOK
  HonestAnswers
PROPERTIES
  RelayEnds
CHECK_DEADLOCK FALSE
