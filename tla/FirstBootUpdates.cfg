\* What apps/README.md says of updates.
CONSTANT Versions = {v1, v2}
SPECIFICATION Spec
SYMMETRY Symmetric
INVARIANT
  ManagedUpdates
