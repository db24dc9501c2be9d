CONSTANTS
    Designs <- OneDesign
    MaxRuns = 3
    Prompt = TRUE
    Drained = FALSE
    Size = 2
    MaxLinks = 2
    Careful = TRUE
SPECIFICATION DeskSpec
INVARIANTS NoCrash RunOfferedWhenQuiet FinishedByOwner QuietConsistent 
PROPERTIES ShownNodesExist
CHECK_DEADLOCK FALSE
