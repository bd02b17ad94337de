\* The delays of the code; the guard and Steam come and go.
CONSTANTS
  Objects = {o1, o2}
  TickPeriod = 5
  AttemptTime = 4
  Lease = 15
  GuardMayStop = TRUE
  SteamMayStop = TRUE
  NULL = NULL
SPECIFICATION Spec
SYMMETRY Symmetric
INVARIANTS
  TypeOK
  OneBlocker
  NoSocketLeft
  MirrorSettles
PROPERTIES
  LeaseOutlastsFailure
