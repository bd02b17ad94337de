SPECIFICATION Spec
INVARIANTS
  CheckGoesOn
PROPERTIES
  Recovers
