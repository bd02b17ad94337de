\* The delays are scaled down, a tick still begins after an attempt has ended
\* and the lease still outlasts two ticks and an attempt.
CONSTANTS
  Objects = {o1}
  TickPeriod = 2
  AttemptTime = 1
  Lease = 6
  GuardMayStop = TRUE
  SteamMayStop = FALSE
  NULL = NULL
SPECIFICATION FairSpec
PROPERTIES
  AttemptsEnd
  BlockerEnds
