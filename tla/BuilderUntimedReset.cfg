\* SyncReset(0), the default argument: the arena is reset under workers still using it.
CONSTANTS
    w1 = w1
    w2 = w2
    Workers <- MCWorkers
    SyncTimeouts = {0}
    WaitTimeouts = {0}
    MaxResets = 2
SPECIFICATION Spec
INVARIANT NoUseAfterReset
\* A SyncReset with waiters blocks for ever on barrier_ (see SyncResetReturns).
CHECK_DEADLOCK FALSE
