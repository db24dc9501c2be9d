CONSTANTS
    N = 2
    M = 1
    Parallel = {}
    Sampled = {}
    Maximised = {}
    Unmapped = {}
    Connected <- Unconnected
    Scalarised = {}
    MayThrow = {1}
    PerFunction = FALSE
    NoThread = NoThread
SPECIFICATION Spec
PROPERTY EvaluationReturns
CHECK_DEADLOCK FALSE
