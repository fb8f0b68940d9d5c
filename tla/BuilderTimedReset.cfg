\* SyncReset(1) with two workers that wait with and without a timeout.
CONSTANTS
    w1 = w1
    w2 = w2
    Workers <- MCWorkers
    SyncTimeouts = {1}
    WaitTimeouts = {0, 1}
    MaxResets = 2
SPECIFICATION Spec
INVARIANT TypeOK
PROPERTY ResetAfterCheckIn
\* A SyncReset with waiters blocks for ever on barrier_ (see SyncResetReturns).
CHECK_DEADLOCK FALSE
