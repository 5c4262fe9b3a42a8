SPECIFICATION Spec
CONSTANTS
  Programs <- MCPrograms
INVARIANTS TypeOK CallerIsEnclosing CallsComplete BodiesAreSafe
CHECK_DEADLOCK FALSE
