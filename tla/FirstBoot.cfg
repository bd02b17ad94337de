\* Two versions: each image's is the installed one or another.
CONSTANT Versions = {v1, v2}
SPECIFICATION Spec
SYMMETRY Symmetric
INVARIANTS
  TypeOK
  PluginCurrent
  CompletedLater
  ChoiceKept
PROPERTY
  UserContentSafe
