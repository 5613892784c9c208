SPECIFICATION Spec
CONSTANTS
    p1 = p1  p2 = p2  none = none
    Procs <- TwoProcs
    Runner = p1
    NoProc = none
    Interactive <- AllInteractive
    NumSteps = 2
    Policy <- PromptThenContinue
    Budget <- BudgetOne
    MaxAttempt = 3
    Options <- TwoOptions
    Faults <- AllFaults
    LockOwnsSignals = TRUE
    StartTimeKnown = TRUE
    Exclusive = FALSE
INVARIANTS StepsInOrder
PROPERTIES FinishedStaysFinished AttemptRunsOnce
CHECK_DEADLOCK FALSE
