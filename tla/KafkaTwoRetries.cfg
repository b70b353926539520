SPECIFICATION FairSpec
CONSTANTS
  LastOffset = 3
  Gaps = {}
  Batch = 2
  OneByOne = FALSE
  Rebalances = FALSE
  MaxRetries = 2
  MaxStops = 0
  MaxFaults = 0
  MaxCrashes = 0
PROPERTIES
  EveryRecordHandled
CHECK_DEADLOCK FALSE
