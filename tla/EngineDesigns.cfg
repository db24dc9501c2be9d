CONSTANTS
    Designs <- ThreeDesigns
    MaxRuns = 3
    Prompt = TRUE
    Drained = TRUE
SPECIFICATION Spec
INVARIANTS NoCrash
PROPERTIES StopTerminates PauseNotEarly GuiResponsive RunEnds ImplementsLifecycle
CHECK_DEADLOCK FALSE
