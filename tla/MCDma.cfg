SPECIFICATION MCSpec
CONSTANTS
    N = 2
    MaxCount = 2
    Controls <- MCControls
    Rates <- MCRates
    Divisor = 2
    MaxWrites = 2
INVARIANTS NotForgotten PaceExact
PROPERTIES CompletesInFull ChainsOnSuccess TransferEnds
