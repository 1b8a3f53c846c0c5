CONSTANTS
    Programs <- MCPrograms
    MaxAnswers = 4
SPECIFICATION Spec
INVARIANTS
    TypeOK
    BlocksNest
    LeavesALoop
    NeverPanics
    HandledOnlyInHandlers
    RunsAsWritten
PROPERTY EveryProgramEnds
CHECK_DEADLOCK FALSE
