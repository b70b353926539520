SPECIFICATION Spec
CONSTANTS
  Events = {e1}
  Replicas = {r1}
  MaxAttempts = 1
  BatchSize = 1
  MaxCrashes = 1
  MaxBreaks = 0
  Edits = FALSE
PROPERTIES
  AtLeastOnce
CHECK_DEADLOCK FALSE
