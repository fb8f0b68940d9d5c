\* A handle dropped before the answer arrives, then Shutdown(): the call is never deleted.
CONSTANTS
    c1 = c1
    c2 = c2
    s1 = s1
    s2 = s2
    Callers <- MCCallers
    Shutdowners <- MCOneShutdowner
    ShutdownRepeat = 2
    FireAndForget = TRUE
    ShutdownWhenIdle = TRUE
    MaxStarts = 1
SPECIFICATION Spec
PROPERTY CallFreed
