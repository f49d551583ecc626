SPECIFICATION Spec
CONSTANTS
    Width = 8
    ByteBits = 2
    Rom <- MapRom
    Flash <- MapFlash
    Sram <- MapSram
    RegisterSpace <- MapRegisters
    Sio <- MapSio
    Ppb <- MapPpb
    AliasUnit = 8
    And <- BitAnd
    Or <- BitOr
    Xor <- BitXor
    Aircr = 208
    Vector <- StartsAt
    CycleMod = 16
    MaxSteps = 64
    MaxWatch = 1
    Watches <- Watched
    Breaks <- BreaksAt
    Pokes <- Poked
INVARIANT TicksWithinCost
CHECK_DEADLOCK FALSE
