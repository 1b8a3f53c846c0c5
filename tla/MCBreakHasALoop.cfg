CONSTANTS
    Programs <- StrayBreaks
    MaxAnswers = 3
SPECIFICATION Spec
INVARIANT LeavesALoop
CHECK_DEADLOCK FALSE
