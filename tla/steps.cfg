SPECIFICATION MCSpec
CONSTANTS
    MaxAttempts = 2
    MaxLines = 1
    p1 = p1  p2 = p2
    Drivers <- TwoDrivers
    MaxRevision = 3
    MaxFaults = 1
    MaxVersions = 2  MaxDays = 3  MaxMishaps = 1
    AgentAttempts = 2  MaxEdits = 3
    MaxRounds = 2  MaxCommands = 3  MaxSources = 3
INVARIANTS KilledAreDead OutputsAreFresh EditsAreGated ProjectionFollowsRow ArtifactsAreWhole
PROPERTIES ProcessSettles CommitsFollow
CHECK_DEADLOCK FALSE
