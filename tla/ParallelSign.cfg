CONSTANTS
    N = 1
    M = 1
    Parallel = {}
    Sampled = {}
    Maximised = {1}
    Unmapped = {}
    Connected <- Unconnected
    Scalarised = {}
    MayThrow = {}
    PerFunction = FALSE
    NoThread = NoThread
SPECIFICATION Spec
INVARIANT MarkedIsMinimised
CHECK_DEADLOCK FALSE
