\* Shutdown() called from another thread at any time, e.g. from a signal
\* handler as its comment suggests, also while Start() is building the server.
CONSTANTS
    m1 = m1
    m2 = m2
    d1 = d1
    d2 = d2
    s1 = s1
    s2 = s2
    w1 = w1
    Shutdowners <- MCShutdowners
    Waiters <- MCWaiters
    Methods <- MCOneMethod
    Dispatchers <- MCOneDispatcher
    Timed = {FALSE}
    MaxCalls = 1
    MaxTags = 2
    BuildMayFail = FALSE
    TestOrder = FALSE
SPECIFICATION Spec
PROPERTY AlarmOnLiveQueue
CHECK_DEADLOCK FALSE
