\* SyncReset with registered waiters never returns.
CONSTANTS
    w1 = w1
    w2 = w2
    Workers <- MCWorkers
    SyncTimeouts = {1}
    WaitTimeouts = {0}
    MaxResets = 2
SPECIFICATION Spec
PROPERTY SyncResetReturns
\* A SyncReset with waiters blocks for ever on barrier_ (see SyncResetReturns).
CHECK_DEADLOCK FALSE
