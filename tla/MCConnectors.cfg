SPECIFICATION Spec
INVARIANTS
    SinksTellTheTruth
    SourcesLoseNothing
PROPERTIES
    OrderedSteps
    EverythingEnds
CHECK_DEADLOCK FALSE
