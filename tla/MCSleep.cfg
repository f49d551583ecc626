SPECIFICATION SleepSpec
CONSTANTS
    Core0 = c0
    Cores = {c0, c1}
    Irqs = {16}
    Levels = {0}
    StackTop = 16
    StackBase = 8
    MaxLocals = 0
INVARIANTS NoEventSleptOver
PROPERTIES NoneDropped EligibleWakes
