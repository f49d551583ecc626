SPECIFICATION MCSpec
CONSTANTS
    Words = {0, 1}
    Depth = 4
    Latency = 2
    Half = 4
    Locks = {0}
    DivLock = 0
    MaxSent = 5
    MaxReplies = 1
INVARIANTS Delivered NotForgotten OneHolder OwnResult
PROPERTIES LaunchFollowsCommand
