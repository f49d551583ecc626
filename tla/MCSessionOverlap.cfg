SPECIFICATION Spec
CONSTANTS
    Clients = {c1, c2}
    Length = 2
    Images <- MCImages
    Batch = 2
    MaxOut = 1
INVARIANT ControlAlone
CHECK_DEADLOCK FALSE
