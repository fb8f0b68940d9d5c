\* One HandleRpcs thread, as Start runs it; Shutdown called after Start has
\* built the server (as the tests do); BlockUntilShutdown without timeout.
CONSTANTS
    m1 = m1
    m2 = m2
    d1 = d1
    d2 = d2
    s1 = s1
    s2 = s2
    w1 = w1
    Methods <- MCMethods
    Dispatchers <- MCOneDispatcher
    Shutdowners <- MCShutdowners
    Waiters <- MCWaiters
    Timed = {FALSE}
    MaxCalls = 3
    MaxTags = 5
    BuildMayFail = TRUE
    TestOrder = TRUE
SPECIFICATION Spec
INVARIANT TypeOK
INVARIANT TagOwnership
INVARIANT AcceptCapacity
INVARIANT NoCallOutlivesStop
INVARIANT SecondBlockReturnsFalse
PROPERTY ShutdownCompletes
PROPERTY BlockReturns
PROPERTY ImplementsLifecycle
