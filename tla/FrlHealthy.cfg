SPECIFICATION Spec
PROPERTIES
  HealthyLinkKept
