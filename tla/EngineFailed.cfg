CONSTANTS
    Designs <- OneDesign
    MaxRuns = 2
    Prompt = TRUE
    Drained = TRUE
SPECIFICATION Spec
INVARIANT FailedNotExecuted
CHECK_DEADLOCK FALSE
