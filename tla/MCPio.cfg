SPECIFICATION MCSpec
CONSTANTS
    NumSm = 2
    Width = 2
    Depth = 1
    Size = 4
    Unit = 2
    MaxDelay = 1
    Decode <- MCDecode
    Instrs <- MCInstrs
    Words = {1, 2}
    Levels = {0}
    Dividers = {2, 3}
    Shifts <- MCShifts
    Wraps <- MCWraps
    Controls <- MCControls
    Harmless <- MCHarmless
    MaxWrites = 3
    MaxDue = 5
INVARIANTS Copied Rendezvous StallMeansDrained InPhase
PROPERTIES DrainReported
