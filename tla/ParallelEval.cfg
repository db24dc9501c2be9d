CONSTANTS
    N = 3
    M = 2
    Parallel = {2}
    Sampled = {1}
    Maximised = {2}
    Unmapped = {}
    Connected <- FirstToSecond
    Scalarised = {}
    MayThrow = {}
    PerFunction = TRUE
    NoThread = NoThread
SPECIFICATION Spec
INVARIANTS SerialExclusive AgreesWithSerial
PROPERTIES FinishedOutputsStay EvaluationReturns
CHECK_DEADLOCK FALSE
