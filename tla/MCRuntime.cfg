SPECIFICATION Spec
INVARIANTS
  NothingLost
  ReplaysCounted
  WithinConcurrency
  QuietWhenReported
  OpenWhileUsed
  Supervised
PROPERTIES
  PromisesKept
  ControlsComplete
  LeasesEnd
CHECK_DEADLOCK FALSE
