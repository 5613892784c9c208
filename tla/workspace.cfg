SPECIFICATION MCSpec
CONSTANTS
    Users = {"p", "q"}
    Setters = {"p"}
    MaxCommands = 3
    MaxEdits = 2
    MaxTicks = 1
    Changes <- RequestedChanges
    Documents <- SavedDocuments
    Procs = {x, y}
    Rivals = FALSE
    Slugs = {"a", "b"}
    SavedConfigs <- HandMadeConfigs
    InitOptions <- SomeOptions
    Environments <- OneEnvironment
    MaxStarts = 2
    MaxFaults = 1
    MaxTouches = 1
    Templates = {"t"}
SYMMETRY AnyInitializer
INVARIANTS ConfigIsWhole EffectiveIsMostSpecific InitIsComplete BrokenConfigIsReported
PROPERTY IdentityIsStable
\* The commands and the bounds are used up.
CHECK_DEADLOCK FALSE
