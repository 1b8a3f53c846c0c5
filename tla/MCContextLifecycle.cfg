CONSTANTS
    g1 = g1
    g2 = g2
    g3 = g3
    Closers <- MCClosers
    MaxNesting = 3

SPECIFICATION Spec

INVARIANTS
    TypeOK
    CountIsExact
    CountedCallsHoldDone
    ClosesOnce

PROPERTIES
    EveryCloseReturns

\* A panic ends the process.
CHECK_DEADLOCK FALSE
