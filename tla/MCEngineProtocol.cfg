CONSTANTS
    Contexts = {c1, c2}
    MaxInstructions = 4
    MaxCallDepth = 2
    MaxOutputBytes = 2
    MaxFrames = 3
    MaxBlocks = 1
    Sizes <- MCSizes
    Calls <- MCCalls
SPECIFICATION Spec
CHECK_DEADLOCK FALSE
PROPERTIES
    ImplementsHostProtocol
    ExhaustedRunFails
    InterruptedRunFails
    EveryCallReturns
