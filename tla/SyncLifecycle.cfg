\* Two Shutdown calls (the tests' and the destructor's), two threads that
\* each call BlockUntilShutdown twice with or without a timeout, and a
\* Start whose BuildAndStart may fail; Shutdown in the tests' order.
CONSTANTS
    s1 = s1
    s2 = s2
    w1 = w1
    w2 = w2
    Shutdowners <- MCShutdowners
    Waiters <- MCWaiters
    Timed = {FALSE, TRUE}
    BuildMayFail = TRUE
    TestOrder = TRUE
SPECIFICATION Spec
INVARIANT NoNullServer
PROPERTY ImplementsLifecycle
