SPECIFICATION Spec
INVARIANTS
  ReportsAreTrue
  NoticesAreTrue
PROPERTIES
  NothingTakenBack
  EverythingAnswered
CHECK_DEADLOCK FALSE
