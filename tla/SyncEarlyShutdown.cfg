\* Shutdown() called from another thread (a signal handler, as the header
\* suggests) at any time, also while Start() is building the server.
CONSTANTS
    s1 = s1
    s2 = s2
    w1 = w1
    w2 = w2
    Shutdowners <- MCShutdowners
    Waiters <- MCWaiters
    Timed = {FALSE}
    BuildMayFail = FALSE
    TestOrder = FALSE
SPECIFICATION Spec
INVARIANT NoNullServer
