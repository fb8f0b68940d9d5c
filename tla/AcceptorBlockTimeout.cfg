\* BlockUntilShutdown(t) with t > 0, called after Shutdown() as the tests
\* call it: the header promises false on timeout.
CONSTANTS
    m1 = m1
    m2 = m2
    d1 = d1
    d2 = d2
    s1 = s1
    s2 = s2
    w1 = w1
    Methods <- MCOneMethod
    Dispatchers <- MCOneDispatcher
    Shutdowners <- MCShutdowners
    Waiters <- MCWaiters
    Timed = {TRUE}
    MaxCalls = 1
    MaxTags = 2
    BuildMayFail = FALSE
    TestOrder = TRUE
SPECIFICATION Spec
PROPERTY ImplementsLifecycle
