SPECIFICATION NestingSpec
CONSTANTS
    Core0 = c0
    Cores = {c0}
    Irqs = {16}
    Levels = {0, 1}
    StackTop = 24
    StackBase = 0
    MaxLocals = 1
INVARIANTS ReturnFindsFrame NestingOrdered
PROPERTIES ResumesInterrupted
