SPECIFICATION MCSpec
CONSTANTS
    Clients = {c1, c2}
    Length = 2
    Images <- MCImages
    Batch = 2
    MaxOut = 2
INVARIANTS StatusTruthful OutputDelivered
PROPERTIES ImplementsEngine PauseReturns BreakpointReached
CHECK_DEADLOCK FALSE
