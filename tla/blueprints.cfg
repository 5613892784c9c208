SPECIFICATION MCSpec
CONSTANTS
    u1 = u1
    u2 = u2
    Users = {u1, u2}
    MaxCommands = 1
    MaxEdits = 1
    Paths <- NamespacesOfA
    Targets <- ThreeTargets
    Expressions <- AllExpressions
    BodyIds = {"t", "u"}
    Results <- SomeResults
    MaxIterations = 2
    Declarations <- SomeDeclarations
    Commands <- ShortCommands
    Overrides <- SomeOverrides
    Histories <- SomeHistories
    Selectors <- SomePlaceholders
    MaxRecords = 3
SYMMETRY Symmetry
INVARIANTS CatalogIsOrderly SnapshotIsFaithful MissingNeverPasses PassedIsWithinLimits
PROPERTIES CommandsSpareFiles InputsAreFaithful
\* The commands are used up, a text is read to its end.
CHECK_DEADLOCK FALSE
