CONSTANTS
    N = 3
    M = 3
    Parallel = {1}
    Sampled = {2}
    Maximised = {1}
    Unmapped = {3}
    Connected <- FirstToSecond
    Scalarised = {}
    MayThrow = {2}
    PerFunction = FALSE
    NoThread = NoThread
SPECIFICATION Spec
INVARIANTS NothingRunsOn MarkedIsComputed
CHECK_DEADLOCK FALSE
