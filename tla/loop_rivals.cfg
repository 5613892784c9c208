SPECIFICATION Spec
CONSTANTS
    p1 = p1  p2 = p2
    Procs <- TwoProcs
    Interactive <- OnlyFirst
    BodySteps = 1
    MaxIterations = 3
    OnMaxIterations = "continue"
    Policy <- PromptOnly
    GrantCount = 1
    MaxCeiling = 3
    MaxAttempt = 2
    Faults <- CrashOrDatabase
INVARIANTS JudgedInOrder
PROPERTIES BodyRunsOnce
CHECK_DEADLOCK FALSE
