SPECIFICATION Spec
CONSTANTS
    p1 = p1  p2 = p2  none = none
    Procs <- TwoProcs
    Runner = p1
    NoProc = none
    Interactive <- AllInteractive
    NumSteps = 2
    Policy <- PromptThenAbort
    Budget <- BudgetTwo
    MaxAttempt = 3
    Options <- AllOptions
    Faults <- HardFaults
    LockOwnsSignals = TRUE
    StartTimeKnown = FALSE
    Exclusive = TRUE
INVARIANTS EndingMeansIt WorkRecoverable
PROPERTIES ImplementsRunLife DriverIsSpared
CHECK_DEADLOCK FALSE
