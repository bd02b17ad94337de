\* Six bits do as well as thirty-two: every pair of a time and a lead occurs,
\* on both sides of the wrap and of half the range.
CONSTANTS
  Range = 64
  Slack = 5
SPECIFICATION Spec
INVARIANTS
  NeverFarAhead
PROPERTIES
  TimeAdvances
  RealTimeKept
