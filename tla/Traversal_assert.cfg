SPECIFICATION Spec
CONSTANTS
  Programs <- MCPrograms
INVARIANT ParentAsserted
CHECK_DEADLOCK FALSE
