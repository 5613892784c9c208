SPECIFICATION FairSpec
CONSTANTS
    p1 = p1  p2 = p2
    Procs <- TwoProcs
    Interactive <- OnlyFirst
    BodySteps = 2
    MaxIterations = 1
    OnMaxIterations = "prompt_user"
    Policy <- PromptThenContinue
    GrantCount = 1
    MaxCeiling = 2
    MaxAttempt = 1
    Faults <- AllFaults
PROPERTIES JudgedIsFinal DriverSettles ImplementsRepeatUntil
CHECK_DEADLOCK FALSE
