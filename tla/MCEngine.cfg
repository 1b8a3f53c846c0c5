CONSTANTS
    Contexts = {c1, c2}
    MaxInstructions = 6
    MaxCallDepth = 2
    MaxOutputBytes = 2
    MaxFrames = 4
    MaxBlocks = 1
    Sizes <- MCSizes
    Calls <- MCCalls
SYMMETRY ContextSymmetry
SPECIFICATION Spec
CHECK_DEADLOCK FALSE
INVARIANTS
    TypeOK
    DepthAccounting
    DepthLimited
    CallStackKept
    EveryFrameWaits
    ResultsReachTheirCallSite
    OutputDelivered
