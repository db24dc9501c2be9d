CONSTANTS
    Designs <- OneDesign
    MaxRuns = 1
    Prompt = FALSE
    Drained = TRUE
SPECIFICATION Spec
PROPERTY StopTerminates
CHECK_DEADLOCK FALSE
