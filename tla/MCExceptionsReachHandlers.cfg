CONSTANTS
    Contexts = {c1, c2}
    MaxInstructions = 6
    MaxCallDepth = 2
    MaxOutputBytes = 2
    MaxFrames = 3
    MaxBlocks = 1
    Sizes <- MCSizes
    Calls <- DirectCalls
SYMMETRY ContextSymmetry
SPECIFICATION Spec
CHECK_DEADLOCK FALSE
PROPERTIES
    ExceptionsReachHandlers
