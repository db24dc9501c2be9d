CONSTANTS
    Objective = {"first", "second"}
    Value = {0, 1, 2}
    Lowest <- BelowAll
    Highest = 3
    Mapping <- FourMappings
    Decision <- TwoDecisions
    Failed = {4}
    KeepArchive = TRUE
    Parallel = TRUE
SPECIFICATION Spec
INVARIANTS ArchiveExact VectorsExact
PROPERTIES NoLostRemoval
CHECK_DEADLOCK FALSE
