SPECIFICATION Spec
INVARIANTS
    HandledBeforeGone
    MessagesHeld
PROPERTIES
    EveryMessageHandled
CHECK_DEADLOCK FALSE
