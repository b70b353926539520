SPECIFICATION Spec
INVARIANTS
  DeployedAsTold
  LoadsExactly
PROPERTIES
  NothingOverwritten
  ComesToRest
CHECK_DEADLOCK FALSE
