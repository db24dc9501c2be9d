CONSTANTS
    User = {u1, u2, u3}
    Engine = {e1, e2, e3, e4}
    MaxUnlocked = 2
    NoUser = NoUser
    NoEngine = NoEngine
    ShutdownIdle = TRUE
SPECIFICATION Spec
INVARIANTS Exclusive PoolBounded FreeIsClean
PROPERTY DeletedOnce
CHECK_DEADLOCK FALSE
