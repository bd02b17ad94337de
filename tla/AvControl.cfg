\* The delays are scaled down: two readings of the television and a pause
\* still fit into the time for which the status must be right.
CONSTANTS
  StableTime = 4
  TvTime = 1
  HttpTime = 2
  TvPause = 1
  AvrPause = 1
  WolPause = 1
  Budget = 2
  CloseTime = 2
SPECIFICATION Spec
INVARIANTS
  TypeOK
  SettledTelevision
  StandbySpares
  StandbyTogether
PROPERTIES
  WakeEnds
  SleepGoesOn
