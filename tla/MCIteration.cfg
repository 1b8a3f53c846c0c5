CONSTANTS
    Objects <- MCObjects
    Worlds <- MCWorlds
    Asked = {1}
    Sent <- MCSent
    MaxAsks = 3
    Meaning <- MCMeaning
SPECIFICATION Spec
INVARIANTS
    NeverReentered
    ItemsAsWritten
    ValuesArrive
PROPERTIES
    FinishedStaysFinished
    EveryAskAnswers
CHECK_DEADLOCK FALSE
