SPECIFICATION Spec
INVARIANTS
    CursorSafe
    RowsAgree
PROPERTIES
    ForwardOnly
    EveryRowHandled
CHECK_DEADLOCK FALSE
