SPECIFICATION FairSpec
CONSTANTS
    p1 = p1  p2 = p2  none = none
    Procs <- TwoProcs
    Runner = p1
    NoProc = none
    Interactive <- OnlyRunnerInteractive
    NumSteps = 2
    Policy <- PromptTwice
    Budget <- BudgetOne
    MaxAttempt = 2
    Options <- TwoOptions
    Faults <- InterruptFaults
    LockOwnsSignals = FALSE
    StartTimeKnown = TRUE
    Exclusive = TRUE
INVARIANTS PausedIsResumable
PROPERTIES RunningSettles
CHECK_DEADLOCK FALSE
