CONSTANT EventCap = 3
SPECIFICATION Spec
INVARIANTS
  WorkModeApplied
