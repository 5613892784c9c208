SPECIFICATION Spec
CONSTANTS
    p1 = p1  p2 = p2  none = none
    Procs <- TwoProcs
    Runner = p1
    NoProc = none
    Interactive <- AllInteractive
    NumSteps = 2
    Policy <- PromptThenAbort
    Budget <- BudgetOne
    MaxAttempt = 3
    Options <- Isolated
    Faults <- OnlyInterrupt
    LockOwnsSignals = TRUE
    StartTimeKnown = FALSE
    Exclusive = TRUE
INVARIANTS PausedIsResumable
CHECK_DEADLOCK FALSE
