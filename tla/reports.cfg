CONSTANTS
    Runs = {"first", "second"}
    MaxCalls = 2
    Mixes <- MCMixes
    Accounts <- MCAccounts
    MaxFaults = 3
SPECIFICATION Spec
INVARIANTS VerdictMatchesStore CallsAnswered LowNeedsAnswers
PROPERTIES ReportEnds
CHECK_DEADLOCK FALSE
